-------------------------- MODULE FormData_proofs --------------------------
(***************************************************************************)
(* For every policy that loads, every set of words and any number of       *)
(* registrations: what the checks let into the users table.                *)
(***************************************************************************)
EXTENDS FormData, TLAPS

\* The fields of what a handler was given.
LEMMA InputFields ==
    ASSUME NEW f \in Inputs
    PROVE  /\ f.username \in Text(Names \cup {""})
           /\ f.email \in Text(Addresses)
           /\ f.password \in Text(Words)
           /\ f.passwordConfirm \in Text(Words)
  BY DEF Inputs

\* A refusal changes no row, and its messages are those given.
LEMMA RefusalTyped ==
    ASSUME TypeOK, NEW shown \in SUBSET (Fields \cup {"form"}), Refused(shown)
    PROVE  TypeOK'
  BY DEF TypeOK, Refused, Told

\* Each name of a field of the request leads to a field of the form.
LEMMA ShownFields ==
    ASSUME NEW names \in SUBSET DOMAIN SERVER_FIELD_MAP
    PROVE  UNION {SERVER_FIELD_MAP[name] : name \in names} \in SUBSET (Fields \cup {"form"})
  BY DEF SERVER_FIELD_MAP, Fields

LEMMA FieldErrorNames ==
    ASSUME NEW f
    PROVE  FieldErrors(f) \in SUBSET DOMAIN SERVER_FIELD_MAP
  BY DEF FieldErrors, Missing, Mismatched, FieldOf, SERVER_FIELD_MAP

\* What a valid registration writes is a row.
LEMMA NewRow ==
    ASSUME TypeOK, Valid
    PROVE  [name |-> typed.username.core, email |-> typed.email,
            password |-> typed.password] \in Row
  <1>1. typed.username.core \in Names
    <2>1. typed.username \in Text(Names \cup {""})
      BY InputFields DEF TypeOK
    <2>2. "username" \notin Missing(typed)
      BY DEF Valid, FieldErrors
    <2>3. typed.username.core # ""
      BY <2>2 DEF Missing, FieldOf, Blank
    <2> QED
      BY <2>1, <2>3 DEF Text
  <1>2. typed.email \in Text(Addresses) /\ typed.password \in Text(Words)
    BY InputFields DEF TypeOK
  <1> HIDE DEF TypeOK, Valid
  <1> QED
    BY <1>1, <1>2 DEF Row

\* Every step keeps the types.
LEMMA NextTyped == TypeOK /\ [Next]_vars => TypeOK'
  <1> SUFFICES ASSUME TypeOK, [Next]_vars PROVE TypeOK'
    OBVIOUS
  <1>0. Empty \in Inputs
    BY FormDataAssumption DEF Empty, NoPassword, Inputs, Text, Addresses
  <1>1. ASSUME NEW row \in rows, NEW p \in Text(Words), Reset(row, p) PROVE TypeOK'
    <2>1. row \in Row
      BY DEF TypeOK
    <2>2. [name |-> row.name, email |-> row.email, password |-> p] \in Row
      BY <2>1 DEF Row
    <2> QED
      BY <1>1, <2>2 DEF TypeOK, Reset
  <1>2. ASSUME NEW f \in Inputs, NEW from \in {"form", "other"}, Fill(f, from)
        PROVE  TypeOK'
    BY <1>2 DEF TypeOK, Fill
  <1>3. CASE Over
    BY <1>0, <1>3 DEF TypeOK, Over
  <1>4. CASE Form_Refuses
    BY <1>4 DEF TypeOK, Form_Refuses, ClientErrors
  <1>5. CASE Fields_Refused
    BY <1>5, FieldErrorNames, ShownFields, RefusalTyped DEF Fields_Refused
  <1>6. CASE Address_Refused
    <2>1. SERVER_FIELD_MAP["emailAddress"] \in SUBSET (Fields \cup {"form"})
      BY DEF SERVER_FIELD_MAP, Fields
    <2> QED
      BY <1>6, <2>1, RefusalTyped DEF Address_Refused
  <1>7. CASE Password_Refused
    BY <1>7, RefusalTyped DEF Password_Refused, Fields
  <1>8. CASE Name_Refused
    BY <1>8, RefusalTyped DEF Name_Refused, Fields
  <1>9. CASE Insert_Fails
    BY <1>9, NewRow DEF TypeOK, Insert_Fails, Told, Inserted
  <1>10. CASE Registered
    BY <1>10, NewRow DEF TypeOK, Registered, Inserted
  <1>11. CASE UNCHANGED vars
    BY <1>11 DEF TypeOK, vars
  <1> QED
    BY <1>1, <1>2, <1>3, <1>4, <1>5, <1>6, <1>7, <1>8, <1>9, <1>10, <1>11 DEF Next

\* Fields, answers and rows keep their types.
THEOREM TypeCorrect == Spec => []TypeOK
  <1>1. Empty \in Inputs
    BY FormDataAssumption DEF Empty, NoPassword, Inputs, Text, Addresses
  <1>2. Init => TypeOK
    BY <1>1 DEF Init, TypeOK
  <1> QED
    BY <1>2, NextTyped, PTL DEF Spec

-----------------------------------------------------------------------------
\* Rows change in two ways only.
LEMMA RowsChange ==
    ASSUME TypeOK, [Next]_vars
    PROVE  \/ UNCHANGED rows
           \/ Valid /\ Inserted
           \/ \E row \in rows, p \in Text(Words) : Reset(row, p)
  BY DEF Next, vars, Fill, Over, Form_Refuses, Fields_Refused, Address_Refused,
         Password_Refused, Name_Refused, Insert_Fails, Refused, Registered

\* A row that stands for a usable password and an address that can be looked up.
Usable(row) ==
    /\ LooksLikeAddress(row.email)
    /\ row.email = Trim(row.email)
    /\ Length(row.password) > 0

\* The policy, as the conjunction that PasswordsMeetPolicy states.
Meets(p) ==
    /\ p.core.size > 0
    /\ Length(p) >= Number(environment, "PASSWORD_MIN_LENGTH")
    /\ Length(p) <= Number(environment, "PASSWORD_MAX_LENGTH")
    /\ \A c \in CharClasses : Flag(environment, ClassFlags[c]) => c \in ClassesOf(p)

\* A setting is a number when the configuration loads.
NumbersGiven ==
    /\ Number(environment, "PASSWORD_MIN_LENGTH") \in Int
    /\ Number(environment, "PASSWORD_MAX_LENGTH") \in Int

RowsInv ==
    /\ NumbersGiven
    /\ \A row \in rows : Usable(row) /\ Meets(row.password)

\* A password without violations meets the policy.
LEMMA NoViolations ==
    ASSUME NumbersGiven, NEW p \in Text(Words), Violations(p) = {}
    PROVE  Meets(p)
  <1>1. p.core \in Words /\ p.spaces \in Spaces
    BY DEF Text
  <1>2. p.core.size \in Nat /\ p.spaces \in Nat
    BY <1>1, FormDataAssumption
  <1>3. Length(p) \in Nat
    BY <1>2 DEF Length
  <1>4. p.core.size # 0
    BY DEF Violations
  <1>5. ~(Length(p) > Number(environment, "PASSWORD_MAX_LENGTH"))
    BY <1>4 DEF Violations
  <1>6. ~(Length(p) < Number(environment, "PASSWORD_MIN_LENGTH"))
    BY <1>4, <1>5 DEF Violations
  <1>7. \A c \in CharClasses : ~(Flag(environment, ClassFlags[c]) /\ c \notin ClassesOf(p))
    BY <1>4, <1>5, <1>6 DEF Violations
  <1> QED
    BY <1>2, <1>3, <1>4, <1>5, <1>6, <1>7 DEF Meets, NumbersGiven

\* Such a password is not empty.
LEMMA MeetsIsLong ==
    ASSUME NEW p \in Text(Words), Meets(p)
    PROVE  Length(p) > 0
  <1>1. p.core \in Words /\ p.spaces \in Spaces
    BY DEF Text
  <1>2. p.core.size \in Nat /\ p.spaces \in Nat
    BY <1>1, FormDataAssumption
  <1> QED
    BY <1>2 DEF Meets, Length

\* What is inserted has been through all stages.
LEMMA RegisteredRow ==
    ASSUME TypeOK, RowsInv, Valid
    PROVE  LET row == [name |-> typed.username.core, email |-> typed.email,
                       password |-> typed.password]
           IN  Usable(row) /\ Meets(row.password)
  <1>1. typed.email \in Text(Addresses) /\ typed.password \in Text(Words)
    BY InputFields DEF TypeOK
  <1>2. Violations(typed.password) = {} /\ ValidFormat(typed.email)
    BY DEF Valid
  <1>3. Meets(typed.password)
    BY <1>1, <1>2, NoViolations DEF RowsInv
  <1>4. Length(typed.password) > 0
    BY <1>1, <1>3, MeetsIsLong
  <1>5. LooksLikeAddress(typed.email) /\ typed.email = Trim(typed.email)
    <2>1. typed.email = [typed.email EXCEPT !.spaces = typed.email.spaces]
      BY <1>1 DEF Text
    <2> QED
      BY <1>2, <2>1 DEF ValidFormat, LooksLikeAddress, Trim
  <1> QED
    BY <1>3, <1>4, <1>5 DEF Usable

LEMMA NextRows == TypeOK /\ RowsInv /\ [Next]_vars => RowsInv'
  <1> SUFFICES ASSUME TypeOK, RowsInv, [Next]_vars PROVE RowsInv'
    OBVIOUS
  <1>1. environment' = environment
    BY DEF Next, vars, Reset, Fill, Over, Form_Refuses, Fields_Refused,
           Address_Refused, Password_Refused, Name_Refused, Insert_Fails,
           Registered, Refused, Told
  <1>2. NumbersGiven'
    BY <1>1 DEF RowsInv, NumbersGiven
  <1>3. \A p : Meets(p)' <=> Meets(p)
    BY <1>1 DEF Meets
  <1>4. \A row \in rows' : row \in rows \/ (Usable(row) /\ Meets(row.password))
    <2>1. CASE UNCHANGED rows
      BY <2>1
    <2>2. CASE Valid /\ Inserted
      BY <2>2, RegisteredRow DEF Inserted
    <2>3. ASSUME NEW row \in rows, NEW p \in Text(Words), Reset(row, p)
          PROVE  /\ Usable([name |-> row.name, email |-> row.email, password |-> p])
                 /\ Meets(p)
      <3>1. row \in Row /\ Usable(row)
        BY DEF TypeOK, RowsInv
      <3>2. Meets(p) /\ Length(p) > 0
        BY <2>3, NoViolations DEF Reset, RowsInv
      <3> QED
        BY <3>1, <3>2 DEF Usable, Row
    <2>4. ASSUME NEW row \in rows, NEW p \in Text(Words), Reset(row, p),
                 NEW new \in rows', new \notin rows
          PROVE  Usable(new) /\ Meets(new.password)
      <3>1. row \in Row
        BY DEF TypeOK
      <3>2. new = [name |-> row.name, email |-> row.email, password |-> p]
        BY <2>4 DEF Reset
      <3>3. new.password = p
        BY <3>1, <3>2 DEF Row
      <3> QED
        BY <2>3, <2>4, <3>2, <3>3
    <2> QED
      BY <2>1, <2>2, <2>4, RowsChange
  <1>5. \A row : Usable(row)' <=> Usable(row)
    BY DEF Usable
  <1> QED
    BY <1>2, <1>3, <1>4, <1>5 DEF RowsInv

\* A configuration that loads has numbers where the policy looks for them.
LEMMA LoadsNumbers ==
    ASSUME NEW env \in Environments, environment = env
    PROVE  NumbersGiven
  <1>1. \A key \in Keys : env[key].number \in Int
    BY FormDataAssumption
  <1>2. "PASSWORD_MIN_LENGTH" \in Keys /\ "PASSWORD_MAX_LENGTH" \in Keys
    BY DEF Keys, Defaults
  <1>3. Defaults["PASSWORD_MIN_LENGTH"] = 8 /\ Defaults["PASSWORD_MAX_LENGTH"] = 128
    BY DEF Defaults
  <1>4. Number(env, "PASSWORD_MIN_LENGTH") \in Int
    BY <1>2, <1>3, <1>1 DEF Number
  <1>5. Number(env, "PASSWORD_MAX_LENGTH") \in Int
    BY <1>2, <1>3, <1>1 DEF Number
  <1> QED
    BY <1>4, <1>5 DEF NumbersGiven

\* The invariant of the rows, from the first state on.
LEMMA RowsKept == Spec => [](TypeOK /\ RowsInv)
  <1>1. Init => RowsInv
    BY LoadsNumbers DEF Init, RowsInv
  <1>2. (TypeOK /\ RowsInv) /\ [Next]_vars => RowsInv'
    BY NextRows
  <1> QED
    BY <1>1, <1>2, TypeCorrect, PTL DEF Spec

\* Whichever way a password came into the table, it meets the policy.
THEOREM PolicyHolds == Spec => []PasswordsMeetPolicy
  <1>1. RowsInv => PasswordsMeetPolicy
    BY DEF RowsInv, Meets, PasswordsMeetPolicy
  <1> QED
    BY <1>1, RowsKept, PTL

\* Whoever is in the table signs in with what was typed.
THEOREM RegisteredSignsIn == Spec => []RegisteredCanSignIn
  <1>1. RowsInv => RegisteredCanSignIn
    BY DEF RowsInv, Usable, RegisteredCanSignIn, SignsIn
  <1> QED
    BY <1>1, RowsKept, PTL

-----------------------------------------------------------------------------
(* What the form shows of a refusal.  The two that refuse have each their own names *)
(* of the fields, and each finding of theirs must be one of AtFault.                *)

\* What the checks of the form find is wrong.
LEMMA ClientFindsFaults ==
    ASSUME TypeOK, NEW field \in ClientErrors(typed)
    PROVE  AtFault(field)
  <1>1. typed.passwordConfirm.core.size \in Nat /\ typed.passwordConfirm.spaces \in Nat
    BY InputFields, FormDataAssumption DEF TypeOK, Text
  <1>2. CASE field = "username"
    BY <1>2 DEF ClientErrors, AtFault
  <1>3. CASE field = "email"
    BY <1>3 DEF ClientErrors, AtFault, LooksLikeAddress, ValidFormat
  <1>4. CASE field = "password"
    BY <1>4 DEF ClientErrors, AtFault
  <1>5. CASE field = "passwordConfirm"
    BY <1>1, <1>5 DEF ClientErrors, AtFault, Length, Blank
  <1> QED
    BY <1>2, <1>3, <1>4, <1>5 DEF ClientErrors, Fields

\* So is what registration.validator.ts finds, under the names of the form.
LEMMA ServerFindsFaults ==
    ASSUME NEW name \in FieldErrors(typed), NEW field \in SERVER_FIELD_MAP[name]
    PROVE  AtFault(field)
  <1>1. name \in {"username", "emailAddress", "password", "passwordConfirmation"}
    BY FieldErrorNames DEF SERVER_FIELD_MAP
  <1>2. CASE name \in Missing(typed)
    <2>1. Blank(typed, FieldOf[name])
      BY <1>2 DEF Missing
    <2>2. CASE name = "username"
      BY <2>1, <2>2 DEF SERVER_FIELD_MAP, FieldOf, AtFault
    <2>3. CASE name = "emailAddress"
      BY <2>1, <2>3 DEF SERVER_FIELD_MAP, FieldOf, AtFault, Blank, ValidFormat
    <2>4. CASE name = "password"
      <3>1. Violations(typed.password) # {}
        BY <2>1, <2>4 DEF FieldOf, Blank, Violations
      <3> QED
        BY <2>4, <3>1 DEF SERVER_FIELD_MAP, AtFault
    <2>5. CASE name = "passwordConfirmation"
      BY <2>1, <2>5 DEF SERVER_FIELD_MAP, FieldOf, AtFault
    <2> QED
      BY <1>1, <2>2, <2>3, <2>4, <2>5
  <1>3. CASE name \in Mismatched(typed)
    <2>1. CASE name = "emailAddress"
      BY <1>3, <2>1 DEF Mismatched, SERVER_FIELD_MAP, AtFault, ValidFormat
    <2>2. CASE name = "passwordConfirmation"
      BY <1>3, <2>2 DEF Mismatched, SERVER_FIELD_MAP, AtFault
    <2> QED
      BY <1>3, <2>1, <2>2 DEF Mismatched
  <1> QED
    BY <1>2, <1>3 DEF FieldErrors

\* No name that the server uses is unknown to the form.
LEMMA NamesKnown ==
    ASSUME FieldErrors(typed) # {}
    PROVE  UNION {SERVER_FIELD_MAP[name] : name \in FieldErrors(typed)} # {}
  <1>1. PICK name \in FieldErrors(typed) : TRUE
    OBVIOUS
  <1>2. name \in {"username", "emailAddress", "password", "passwordConfirmation"}
    BY FieldErrorNames DEF SERVER_FIELD_MAP
  <1>3. SERVER_FIELD_MAP[name] # {}
    BY <1>2 DEF SERVER_FIELD_MAP
  <1> QED
    BY <1>3

\* An answer whose messages are all justified leaves the form as it should be.
LEMMA JustlyRefused ==
    ASSUME NEW shown, Refused(shown), shown # {}, \A field \in shown : AtFault(field)
    PROVE  RefusalsShow'
  <1>1. \A field : AtFault(field)' <=> AtFault(field)
    BY DEF Refused, Told, AtFault, NameTaken, Violations
  <1> QED
    BY <1>1 DEF Refused, Told, RefusalsShow

\* A refusal that is shown stays justified: no row changes before the form is left.
LEMMA NextShows == TypeOK /\ RefusalsShow /\ [Next]_vars => RefusalsShow'
  <1> SUFFICES ASSUME TypeOK, RefusalsShow, [Next]_vars PROVE RefusalsShow'
    OBVIOUS
  <1>1. ASSUME NEW row \in rows, NEW p \in Text(Words), Reset(row, p)
        PROVE  RefusalsShow'
    BY <1>1 DEF Reset, RefusalsShow
  <1>2. ASSUME NEW f \in Inputs, NEW from \in {"form", "other"}, Fill(f, from)
        PROVE  RefusalsShow'
    BY <1>2 DEF Fill, RefusalsShow
  <1>3. CASE Over
    BY <1>3 DEF Over, RefusalsShow
  <1>4. CASE Form_Refuses
    <2>1. \A field : AtFault(field)' <=> AtFault(field)
      BY <1>4 DEF Form_Refuses, AtFault, NameTaken, Violations
    <2> QED
      BY <1>4, <2>1, ClientFindsFaults DEF Form_Refuses, RefusalsShow
  <1>5. CASE Fields_Refused
    BY <1>5, ServerFindsFaults, NamesKnown, JustlyRefused DEF Fields_Refused
  <1>6. CASE Address_Refused
    <2>1. SERVER_FIELD_MAP["emailAddress"] = {"email"} /\ AtFault("email")
      BY <1>6 DEF Address_Refused, SERVER_FIELD_MAP, AtFault
    <2> QED
      BY <1>6, <2>1, JustlyRefused DEF Address_Refused
  <1>7. CASE Password_Refused
    <2>1. AtFault("password")
      BY <1>7 DEF Password_Refused, AtFault
    <2> QED
      BY <1>7, <2>1, JustlyRefused DEF Password_Refused
  <1>8. CASE Name_Refused
    <2>1. AtFault("username")
      BY <1>8 DEF Name_Refused, AtFault
    <2> QED
      BY <1>8, <2>1, JustlyRefused DEF Name_Refused
  <1>9. CASE Insert_Fails
    <2>1. AtFault("form")'
      BY <1>9 DEF Insert_Fails, Told, Valid, AtFault, Violations
    <2> QED
      BY <1>9, <2>1 DEF Insert_Fails, Told, RefusalsShow
  <1>10. CASE Registered
    BY <1>10 DEF Registered, RefusalsShow
  <1>11. CASE UNCHANGED vars
    <2>1. \A field : AtFault(field)' <=> AtFault(field)
      BY <1>11 DEF vars, AtFault, NameTaken, Violations
    <2> QED
      BY <1>11, <2>1 DEF vars, RefusalsShow
  <1> QED
    BY <1>1, <1>2, <1>3, <1>4, <1>5, <1>6, <1>7, <1>8, <1>9, <1>10, <1>11 DEF Next

\* No refusal is silent, and every message is at something that is wrong.
THEOREM RefusalsAreShown == Spec => []RefusalsShow
  <1>1. Init => RefusalsShow
    BY DEF Init, RefusalsShow
  <1> QED
    BY <1>1, NextShows, TypeCorrect, PTL DEF Spec
=============================================================================
