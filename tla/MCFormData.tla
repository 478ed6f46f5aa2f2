----------------------------- MODULE MCFormData -----------------------------
EXTENDS FormData

Given(key) ==
    IF key \in Strings THEN [kind |-> "text", number |-> 0] ELSE Unset

Default == [key \in Keys |-> Given(key)]

\* The default policy, and a shorter range without special characters.
MCEnvironments ==
    {Default,
     [Default EXCEPT !["PASSWORD_MAX_LENGTH"] = [kind |-> "number", number |-> 72],
                     !["PASSWORD_MIN_LENGTH"] = [kind |-> "number", number |-> 9],
                     !["PASSWORD_REQUIRES_SPECIAL"] = [kind |-> "false", number |-> 0]]}

Letters == {"upper", "lower", "digit"}

\* Around each length that a check or bcrypt looks at.
MCWords ==
    {[size |-> 0, classes |-> {}],
     [size |-> 7, classes |-> Letters],
     [size |-> 8, classes |-> CharClasses],
     [size |-> 72, classes |-> Letters],
     [size |-> 128, classes |-> CharClasses]}
=============================================================================
