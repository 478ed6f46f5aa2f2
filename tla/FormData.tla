------------------------------ MODULE FormData ------------------------------
(***************************************************************************)
(* What is typed into the registration form, on its way through the checks *)
(* of the browser (RegistrationForm) and those of the server               *)
(* (DefaultRegistrationValidator, DefaultEmailValidator,                   *)
(* DefaultPasswordPolicyEvaluator) into the users table, and back out of   *)
(* it at a login (LoginForm, AuthController).  Each check trims, or does   *)
(* not, in its own way.                                                    *)
(*                                                                         *)
(* A text is a core and the number of spaces after it.  Of a word, the     *)
(* core of a password, the size and the classes of characters matter;      *)
(* words that differ do so in what bcrypt looks at.  The full name is not  *)
(* sent and not modelled.  Registrations come one at a time here: module   *)
(* Registration lets them overlap.                                         *)
(***************************************************************************)
EXTENDS Config, FiniteSets

CONSTANTS
    Environments,  \* those with which the process starts
    Names,         \* usernames, normalised
    Mailboxes,
    Words,
    Spaces,
    MaxRows        \* bound on registrations

CharClasses == {"upper", "lower", "digit", "special"}

ASSUME FormDataAssumption ==
    /\ \A env \in Environments :
         /\ DOMAIN env = Keys /\ Loads(env)
         /\ \A key \in Keys : env[key].number \in Int
    /\ "" \notin Names \cup Mailboxes
    /\ Words \subseteq [size : Nat, classes : SUBSET CharClasses]
    /\ [size |-> 0, classes |-> {}] \in Words
    /\ 0 \in Spaces /\ Spaces \subseteq Nat
    /\ MaxRows \in Nat

VARIABLES
    environment,
    typed,      \* the fields of the registration under way
    source,     \* the form, or any other client of the API
    stage,      \* how far it has got
    errors,     \* fields of the form that show a message, "form" for one below them
    rows        \* users: normalised name, address, and the password before it is hashed

vars == <<environment, typed, source, stage, errors, rows>>

Text(cores) == [core : cores, spaces : Spaces]

\* Addresses that both patterns match, only that of the browser, or neither.
Addresses == [box : Mailboxes, shape : {"plain", "odd", "broken"}]
                 \cup {[box |-> "", shape |-> "blank"]}

Fields == {"username", "email", "password", "passwordConfirm"}

Inputs ==
    [username : Text(Names \cup {""}), email : Text(Addresses),
     password : Text(Words), passwordConfirm : Text(Words)]

Row == [name : Names, email : Text(Addresses), password : Text(Words)]

\* The form as it mounts.
NoPassword == [core |-> [size |-> 0, classes |-> {}], spaces |-> 0]
Empty ==
    [username |-> [core |-> "", spaces |-> 0],
     email |-> [core |-> [box |-> "", shape |-> "blank"], spaces |-> 0],
     password |-> NoPassword, passwordConfirm |-> NoPassword]

Init ==
    /\ environment \in Environments
    /\ typed = Empty
    /\ source = "form"
    /\ stage = "open"
    /\ errors = {}
    /\ rows = {}

-----------------------------------------------------------------------------
(* Texts *)

Trim(text) == [text EXCEPT !.spaces = 0]

\* v.length of a password
Length(p) == p.core.size + p.spaces

\* A space counts as a special character.
ClassesOf(p) == p.core.classes \cup (IF p.spaces > 0 THEN {"special"} ELSE {})

\* bcrypt reads 72 bytes.
Hash(p) ==
    LET room == IF p.core.size >= 72 THEN 0 ELSE 72 - p.core.size
    IN  [p EXCEPT !.spaces = IF @ <= room THEN @ ELSE room]

\* v.trim() is empty
Blank(f, field) ==
    \/ field = "username" /\ f.username.core = ""
    \/ field = "email" /\ f.email.core.shape = "blank"
    \/ field \in {"password", "passwordConfirm"} /\ f[field].core.size = 0

-----------------------------------------------------------------------------
(* The browser *)

\* /^[^\s@]+@[^\s@]+\.[^\s@]+$/ on what is typed, spaces included
LooksLikeAddress(email) == email.core.shape \in {"plain", "odd"} /\ email.spaces = 0

\* validate and clientValidate of RegistrationForm: the fields at fault.
ClientErrors(f) ==
    {field \in Fields :
        \/ field = "username" /\ Blank(f, field)
        \/ field = "email" /\ ~LooksLikeAddress(f.email)
        \/ field = "password" /\ Length(f.password) < 8
        \/ /\ field = "passwordConfirm"
           /\ Length(f.passwordConfirm) = 0 \/ f.passwordConfirm # f.password}

\* Variant: a name of a field of the server is misspelt.
SERVER_FIELD_MAP_Partial ==
    [username |-> {"username"}, emailAddress |-> {},
     password |-> {"password"}, passwordConfirmation |-> {"passwordConfirm"}]

\* The field of the form that shows an error of a field of the request.
SERVER_FIELD_MAP ==
    [username |-> {"username"}, emailAddress |-> {"email"},
     password |-> {"password"}, passwordConfirmation |-> {"passwordConfirm"}]

-----------------------------------------------------------------------------
(* The server *)

FieldOf ==
    [username |-> "username", emailAddress |-> "email",
     password |-> "password", passwordConfirmation |-> "passwordConfirm"]

Missing(f) == {name \in DOMAIN FieldOf : Blank(f, FieldOf[name])}

Mismatched(f) ==
    {name \in {"emailAddress", "passwordConfirmation"} :
        IF name = "emailAddress" THEN f.email.core.shape # "plain"
        ELSE Trim(f.password) # Trim(f.passwordConfirm)}

\* DefaultRegistrationValidator.validate, on trimmed texts: the fields at fault.
FieldErrors(f) == IF Missing(f) # {} THEN Missing(f) ELSE Mismatched(f)

\* Variant: the address is trimmed first, as all fields were in the first stage.
ValidFormatTrimmed(email) == email.core.shape = "plain"

\* DefaultEmailValidator.validateFormat, on what was sent: does not throw.
ValidFormat(email) == email.core.shape = "plain" /\ email.spaces = 0

ClassFlags ==
    [upper |-> "PASSWORD_REQUIRES_UPPERCASE", lower |-> "PASSWORD_REQUIRES_LOWERCASE",
     digit |-> "PASSWORD_REQUIRES_DIGIT", special |-> "PASSWORD_REQUIRES_SPECIAL"]

\* Variant: the length of a password is not compared with the minimum.
ViolationsUnsized(p) ==
    IF p.core.size = 0 THEN {"required"}
    ELSE IF Length(p) > Number(environment, "PASSWORD_MAX_LENGTH") THEN {"long"}
    ELSE {c \in CharClasses : Flag(environment, ClassFlags[c]) /\ c \notin ClassesOf(p)}

\* DefaultPasswordPolicyEvaluator.evaluate
Violations(p) ==
    IF p.core.size = 0 THEN {"required"}
    ELSE IF Length(p) > Number(environment, "PASSWORD_MAX_LENGTH") THEN {"long"}
    ELSE (IF Length(p) < Number(environment, "PASSWORD_MIN_LENGTH") THEN {"short"} ELSE {})
         \cup {c \in CharClasses : Flag(environment, ClassFlags[c]) /\ c \notin ClassesOf(p)}

NameTaken(f) == \E row \in rows : row.name = f.username.core

AddressTaken(f) == \E row \in rows : row.email = f.email

-----------------------------------------------------------------------------
(* One registration *)

\* The user fills in the form, or another client its request.
Fill(f, from) ==
    /\ stage = "open"
    /\ typed' = f
    /\ source' = from
    /\ stage' = "typed"
    /\ UNCHANGED <<environment, errors, rows>>

\* Another attempt, or the page after this one: nothing of the old one counts.
Over ==
    /\ stage \in {"refused", "created"}
    /\ typed' = Empty
    /\ source' = "form"
    /\ stage' = "open"
    /\ errors' = {}
    /\ UNCHANGED <<environment, rows>>

\* handleSubmit returns before the call.
Form_Refuses ==
    /\ stage = "typed"
    /\ source = "form"
    /\ ClientErrors(typed) # {}
    /\ stage' = "refused"
    /\ errors' = ClientErrors(typed)
    /\ UNCHANGED <<environment, typed, source, rows>>

\* The request is on its way to registerUser.
Arrived == stage = "typed" /\ (source = "form" => ClientErrors(typed) = {})

\* What the form makes of an answer that is no 201; other clients do as they like.
Told(shown) ==
    /\ stage' = "refused"
    /\ errors' = IF source = "form" THEN shown ELSE {}
    /\ UNCHANGED <<environment, typed, source>>

Refused(shown) == Told(shown) /\ UNCHANGED rows

\* 422 with fieldErrors: a message at each field that the form knows.
Fields_Refused ==
    /\ Arrived
    /\ FieldErrors(typed) # {}
    /\ Refused(UNION {SERVER_FIELD_MAP[name] : name \in FieldErrors(typed)})

\* 422 with one field error
Address_Refused ==
    /\ Arrived
    /\ FieldErrors(typed) = {}
    /\ ~ValidFormat(typed.email)
    /\ Refused(SERVER_FIELD_MAP["emailAddress"])

\* 422 PASSWORD_POLICY_VIOLATION
Password_Refused ==
    /\ Arrived
    /\ FieldErrors(typed) = {} /\ ValidFormat(typed.email)
    /\ Violations(typed.password) # {}
    /\ Refused({"password"})

Valid ==
    /\ Arrived
    /\ FieldErrors(typed) = {} /\ ValidFormat(typed.email)
    /\ Violations(typed.password) = {}

\* 409 USERNAME_UNAVAILABLE
Name_Refused ==
    /\ Valid
    /\ NameTaken(typed)
    /\ Refused({"username"})

\* The row holds the address as it was sent, and the hash of the password.
Inserted ==
    /\ Cardinality(rows) < MaxRows
    /\ ~NameTaken(typed) /\ ~AddressTaken(typed)
    /\ rows' = rows \cup {[name |-> typed.username.core, email |-> typed.email,
                           password |-> typed.password]}

\* 500, with a message and no field: the address violates its unique index, the
\* statement fails, or something after the commit does (the passcode, the audit), and
\* then the row is there.
Insert_Fails ==
    /\ Valid
    /\ ~NameTaken(typed)
    /\ Told({"form"})
    /\ UNCHANGED rows \/ Inserted

\* 201
Registered ==
    /\ Valid
    /\ Inserted
    /\ stage' = "created"
    /\ errors' = {}
    /\ UNCHANGED <<environment, typed, source>>

\* Between two registrations: resetPassword with a valid token; a password that fails
\* the policy changes nothing.
Reset(row, p) ==
    /\ stage = "open"
    /\ row \in rows
    /\ Length(p) > 0
    /\ Violations(p) = {}
    /\ rows' = (rows \ {row})
                 \cup {[name |-> row.name, email |-> row.email, password |-> p]}
    /\ UNCHANGED <<environment, typed, source, stage, errors>>

Next ==
    \/ \E row \in rows, p \in Text(Words) : Reset(row, p)
    \/ \E f \in Inputs, from \in {"form", "other"} : Fill(f, from)
    \/ Over
    \/ Form_Refuses
    \/ Fields_Refused
    \/ Address_Refused
    \/ Password_Refused
    \/ Name_Refused
    \/ Insert_Fails
    \/ Registered

Spec == Init /\ [][Next]_vars

-----------------------------------------------------------------------------
(* Back out of the table *)

\* LoginForm lets the fields through, and AuthController trims the address only;
\* the account is found by its address as it is stored, and the hashes agree.
SignsIn(row, email, password) ==
    /\ LooksLikeAddress(email) /\ Length(password) > 0
    /\ row.email = Trim(email)
    /\ Hash(row.password) = Hash(password)

-----------------------------------------------------------------------------
\* The fields, the answer and the rows are of the types of the code.
TypeOK ==
    /\ environment \in Environments
    /\ typed \in Inputs
    /\ source \in {"form", "other"}
    /\ stage \in {"open", "typed", "refused", "created"}
    /\ errors \subseteq Fields \cup {"form"}
    /\ rows \subseteq Row

\* Whoever registered, or reset a password, signs in through the login form with
\* the address and the password as they were typed, whatever the client was.
RegisteredCanSignIn == \A row \in rows : SignsIn(row, row.email, row.password)

\* No password is stored that the policy of the configuration forbids, on either way
\* to the table (password-policy.evaluator.ts).
PasswordsMeetPolicy ==
    \A row \in rows :
        LET p == row.password
        IN  /\ p.core.size > 0
            /\ Length(p) >= Number(environment, "PASSWORD_MIN_LENGTH")
            /\ Length(p) <= Number(environment, "PASSWORD_MAX_LENGTH")
            /\ \A c \in CharClasses :
                 Flag(environment, ClassFlags[c]) => c \in ClassesOf(p)

AtFault(field) ==
    \/ field = "username" /\ (Blank(typed, field) \/ NameTaken(typed))
    \/ field = "email" /\ ~ValidFormat(typed.email)
    \/ field = "password" /\ (Length(typed.password) < 8 \/ Violations(typed.password) # {})
    \/ /\ field = "passwordConfirm"
       /\ Blank(typed, field) \/ typed.passwordConfirm # typed.password
    \/ field = "form" /\ Violations(typed.password) = {}

\* The form never stays silent about a refusal, by its own checks or by any of the
\* server's, and each field with a message is one that is wrong.
RefusalsShow ==
    stage = "refused" /\ source = "form" =>
        /\ errors # {}
        /\ \A field \in errors : AtFault(field)
=============================================================================
