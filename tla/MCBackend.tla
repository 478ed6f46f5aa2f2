----------------------------- MODULE MCBackend -----------------------------
EXTENDS Backend, TLC

Given(key) ==
    IF key \in Strings THEN [kind |-> "text", number |-> 0] ELSE Unset

Default == [key \in Keys |-> Given(key)]

WithNumber(key, n) == [Default EXCEPT ![key] = [kind |-> "number", number |-> n]]
WithKind(key, kind) == [Default EXCEPT ![key] = [kind |-> kind, number |-> 0]]

\* The default configuration, and one of each kind that is refused.
MCEnvironments ==
    {Default,
     WithNumber("BCRYPT_COST_FACTOR", 11),
     WithNumber("PASSWORD_MIN_LENGTH", 129),
     WithKind("OTP_LENGTH", "text"),
     WithKind("FROM_EMAIL", "blank"),
     WithKind("PASSWORD_REQUIRES_DIGIT", "text")}
=============================================================================
