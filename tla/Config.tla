------------------------------- MODULE Config -------------------------------
(***************************************************************************)
(* src/config: what the process makes of its environment variables when    *)
(* server.ts is loaded.  A value that is missing, no number or out of      *)
(* range throws while the modules load, before the database is opened.     *)
(* A raw value is kept as far as the parsers tell it apart; parsePositiveInt *)
(* checks that there is a number, not that it is positive.                 *)
(***************************************************************************)
EXTENDS Integers

\* process.env[key]: undefined or '', white space, 'true', 'false', other text, or
\* text that parseInt reads as a number.
Raw(Numbers) ==
    [kind : {"unset", "blank", "true", "false", "text"}, number : {0}]
        \cup [kind : {"number"}, number : Numbers]

Unset == [kind |-> "unset", number |-> 0]

\* The numbers, with the default of each.
Defaults ==
    [OUTBOX_POLL_INTERVAL_MS |-> 30000, OUTBOX_MAX_RETRIES |-> 1,
     TOKEN_EXPIRY_HOURS |-> 24, BCRYPT_COST_FACTOR |-> 12,
     PASSWORD_RECOVERY_TOKEN_EXPIRY_HOURS |-> 1,
     LOGIN_LOCKOUT_THRESHOLD |-> 5, LOGIN_LOCKOUT_DURATION_MINUTES |-> 15,
     SESSION_EXPIRY_SECONDS |-> 3600, OTP_LENGTH |-> 6, OTP_TTL_MINUTES |-> 10,
     OTP_MAX_ATTEMPTS_PER_WINDOW |-> 5, OTP_RATE_LIMIT_WINDOW_MINUTES |-> 15,
     ACCOUNT_DELETION_OTP_EXPIRY_MINUTES |-> 10,
     PASSWORD_MIN_LENGTH |-> 8, PASSWORD_MAX_LENGTH |-> 128]

AppStrings ==
    {"ACTIVATION_BASE_URL", "ADMIN_BEARER_TOKEN", "SENDGRID_API_KEY",
     "SENDGRID_TEMPLATE_ID", "FROM_EMAIL", "PASSWORD_RECOVERY_BASE_URL",
     "PASSWORD_RECOVERY_EMAIL_TEMPLATE_ID"}

OtpStrings == {"OTP_HASH_SECRET", "OTP_EMAIL_TEMPLATE_ID"}

DeletionStrings ==
    {"ACCOUNT_DELETION_REQUEST_EMAIL_TEMPLATE_ID",
     "ACCOUNT_DELETION_NOTICE_EMAIL_TEMPLATE_ID"}

Flags ==
    {"PASSWORD_REQUIRES_UPPERCASE", "PASSWORD_REQUIRES_LOWERCASE",
     "PASSWORD_REQUIRES_DIGIT", "PASSWORD_REQUIRES_SPECIAL"}

Strings == AppStrings \cup OtpStrings \cup DeletionStrings

Keys == DOMAIN Defaults \cup Strings \cup Flags

-----------------------------------------------------------------------------
\* requireEnvString
Present(raw) == raw.kind \notin {"unset", "blank"}

\* parsePositiveInt does not throw
IsInteger(raw) == raw.kind \in {"unset", "number"}

\* parseBool does not throw
IsFlag(raw) ==
    \/ raw.kind \in {"unset", "true", "false"}
    \/ raw.kind = "number" /\ raw.number \in {0, 1}

\* parsePositiveInt: an expiry of deletion codes defaults to that of passcodes.
Number(env, key) ==
    LET own == env[key]
        other == env["OTP_TTL_MINUTES"]
    IN  IF own.kind # "unset" THEN own.number
        ELSE IF key = "ACCOUNT_DELETION_OTP_EXPIRY_MINUTES" /\ other.kind # "unset"
          THEN other.number
          ELSE Defaults[key]

\* parseBool; every flag is set by default.
Flag(env, key) == env[key].kind \in {"unset", "true"} \/ env[key].number = 1

AppConfig(env) ==
    /\ Number(env, "BCRYPT_COST_FACTOR") >= 12
    /\ \A key \in AppStrings : Present(env[key])

LockoutConfig(env) ==
    /\ Number(env, "LOGIN_LOCKOUT_THRESHOLD") >= 1
    /\ Number(env, "LOGIN_LOCKOUT_DURATION_MINUTES") >= 1

SessionConfig(env) == Number(env, "SESSION_EXPIRY_SECONDS") >= 1

OtpConfig(env) == \A key \in OtpStrings : Present(env[key])

AccountDeletionConfig(env) == \A key \in DeletionStrings : Present(env[key])

PasswordPolicyConfig(env) ==
    /\ \A key \in Flags : IsFlag(env[key])
    /\ Number(env, "PASSWORD_MIN_LENGTH") >= 1
    /\ Number(env, "PASSWORD_MAX_LENGTH") <= 1024
    /\ Number(env, "PASSWORD_MIN_LENGTH") <= Number(env, "PASSWORD_MAX_LENGTH")

\* Every configuration module is evaluated without throwing.
Loads(env) ==
    /\ \A key \in DOMAIN Defaults : IsInteger(env[key])
    /\ AppConfig(env)
    /\ LockoutConfig(env)
    /\ SessionConfig(env)
    /\ OtpConfig(env)
    /\ AccountDeletionConfig(env)
    /\ PasswordPolicyConfig(env)
=============================================================================
