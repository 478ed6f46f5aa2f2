------------------------ MODULE Registration_proofs ------------------------
(***************************************************************************)
(* Registration keeps its types, implements Directory, and strands an      *)
(* account only where a fault hits.  All three look at a step in the same  *)
(* way: one handler moves to a resume point whose locals it holds, and the *)
(* users table stays, grows by a row, or changes one row in place.         *)
(***************************************************************************)
EXTENDS Registration, FiniteSetTheorems, TLAPS

\* What a handler holds where it resumes.
LEMMA Frames ==
    ASSUME NEW label, NEW locals, NEW ids, RegisterFrame(label, locals, ids)
    PROVE  /\ label = "register" => locals \in RegisterRequests
           /\ label = "register.unique" =>
                locals \in [name : Spellings, address : Addresses, taken : BOOLEAN]
           /\ label = "register.hashed" =>
                locals \in [name : Spellings, address : Addresses]
           /\ label \in OtpLabels => locals \in [user : ids]
  BY DEF RegisterFrame, OtpLabels

\* Handler h goes to a resume point with the locals of that point.
Moves(h) ==
    /\ ready' = Tail(ready) \/ ready' = Append(Tail(ready), h)
    /\ \E label, locals : /\ RegisterFrame(label, locals, Users')
                          /\ Goto(h, label, locals)

\* Such a step keeps queue and locals typed, as long as no row goes.
LEMMA MovesTyped ==
    ASSUME HandlersOK, NEW h \in Handlers, ready # <<>>, Moves(h),
           Users \subseteq Users'
    PROVE  HandlersOK'
  <1>1. ready' \in Seq(Handlers)
    BY DEF HandlersOK, Moves
  <1>2. PICK label, locals : /\ RegisterFrame(label, locals, Users')
                             /\ Goto(h, label, locals)
    BY DEF Moves
  <1>3. ASSUME NEW g \in Handlers PROVE RegisterFrame(pc'[g], loc'[g], Users')
    <2>1. CASE g = h
      BY <1>2, <2>1 DEF Goto, HandlersOK
    <2>2. CASE g # h
      BY <1>2, <2>2 DEF Goto, HandlersOK, RegisterFrame
    <2> QED
      BY <2>1, <2>2
  <1> QED
    BY <1>1, <1>2, <1>3 DEF HandlersOK, Goto

\* The freed slot.
LEMMA RespondMoves ==
    ASSUME NEW h \in Handlers, Respond(h)
    PROVE  Moves(h)
  BY DEF Respond, Moves, RegisterFrame

\* The committed row is the last of the table, and its id is a new one.
LEMMA InsertTyped ==
    ASSUME TypeOK, NEW name \in Spellings, NEW address \in Addresses,
           InsertUser(name, address)
    PROVE  /\ users' \in Seq(UserRow) /\ Len(users') <= MaxUsers
           /\ Len(users') = Len(users) + 1 /\ Len(users') \in Users'
           /\ Len(users') \notin Users
           /\ Users' = Users \cup {Len(users')}
           /\ \A u \in Users : users'[u] = users[u]
           /\ users'[Len(users')] = [st |-> "pending", name |-> name,
                                     address |-> address, told |-> FALSE]
  <1> DEFINE row == [st |-> "pending", name |-> name, address |-> address,
                     told |-> FALSE]
  <1>1. users \in Seq(UserRow) /\ row \in UserRow /\ users' = Append(users, row)
    BY DEF TypeOK, InsertUser, UserRow
  <1>2. Len(users) < MaxUsers /\ MaxUsers \in Nat
    BY RegistrationAssumption DEF InsertUser
  <1> HIDE DEF row
  <1>3. /\ users' \in Seq(UserRow) /\ Len(users') = Len(users) + 1
        /\ \A u \in 1..Len(users) : users'[u] = users[u]
        /\ users'[Len(users')] = row
    BY <1>1
  <1> QED
    BY <1>1, <1>2, <1>3 DEF Users, row

\* A change of one row in place.
LEMMA UpdateTyped ==
    ASSUME TypeOK, NEW u \in Users, NEW row \in UserRow, users' = [users EXCEPT ![u] = row]
    PROVE  /\ users' \in Seq(UserRow) /\ Len(users') = Len(users)
           /\ Users' = Users
  BY DEF TypeOK, Users

-----------------------------------------------------------------------------
(* Type correctness *)

\* Every step of the handler moves it, and keeps or extends the table.
LEMMA StepMoves ==
    ASSUME TypeOK, NEW h \in Handlers, RegisterStep(h)
    PROVE  /\ Moves(h) /\ Users \subseteq Users' /\ ready # <<>>
           /\ users' \in Seq(UserRow) /\ Len(users') <= MaxUsers
  <1> USE DEF Runs
  <1>0. RegisterFrame(pc[h], loc[h], Users) /\ users \in Seq(UserRow)
        /\ Len(users) <= MaxUsers
    BY DEF TypeOK, HandlersOK
  <1>1. CASE \/ Register_Invalid(h) \/ Register_NameUnavailable(h)
             \/ Register_Conflict(h) \/ Register_Limited(h)
    BY <1>0, <1>1, RespondMoves
       DEF Register_Invalid, Register_NameUnavailable, Register_Conflict,
           Register_Limited, Users
  <1>2. CASE Register_CheckName(h)
    <2> DEFINE l == [name |-> loc[h].name, address |-> loc[h].address,
                     taken |-> NameTaken(loc[h].name)]
    <2>1. l \in [name : Spellings, address : Addresses, taken : BOOLEAN]
      BY <1>0, <1>2, Frames DEF Register_CheckName, RegisterRequests, NameTaken
    <2>2. RegisterFrame("register.unique", l, Users')
      BY <2>1 DEF RegisterFrame
    <2>3. Moves(h)
      BY <1>2, <2>2 DEF Register_CheckName, Await, Moves
    <2> QED
      BY <1>0, <1>2, <2>3 DEF Register_CheckName, Users
  <1>3. CASE Register_Hash(h)
    <2> DEFINE l == [name |-> loc[h].name, address |-> loc[h].address]
    <2>1. l \in [name : Spellings, address : Addresses]
      BY <1>0, <1>3, Frames DEF Register_Hash
    <2>2. RegisterFrame("register.hashed", l, Users')
      BY <2>1 DEF RegisterFrame
    <2>3. Moves(h)
      BY <1>3, <2>2 DEF Register_Hash, Park, Moves
    <2> QED
      BY <1>0, <1>3, <2>3 DEF Register_Hash, Users
  <1>4. CASE Register_Insert(h)
    <2>1. loc[h].name \in Spellings /\ loc[h].address \in Addresses
      BY <1>0, <1>4, Frames DEF Register_Insert
    <2>2. /\ users' \in Seq(UserRow) /\ Len(users') <= MaxUsers
          /\ Len(users') \in Users' /\ Users \subseteq Users'
      BY <1>4, <2>1, InsertTyped DEF Register_Insert
    <2>3. RegisterFrame("register.otp", [user |-> Len(users')], Users')
      BY <2>2 DEF RegisterFrame, OtpLabels
    <2>4. Moves(h)
      BY <1>4, <2>3 DEF Register_Insert, Await, Moves
    <2> QED
      BY <1>4, <2>2, <2>4 DEF Register_Insert
  <1>5. ASSUME NEW label \in OtpLabels, pc[h] \in OtpLabels,
               Park(h, label, loc[h]) \/ Await(h, label, loc[h]),
               ready # <<>>, UNCHANGED users
        PROVE  /\ Moves(h) /\ Users \subseteq Users' /\ ready # <<>>
               /\ users' \in Seq(UserRow) /\ Len(users') <= MaxUsers
    <2>1. RegisterFrame(label, loc[h], Users')
      BY <1>0, <1>5, Frames DEF RegisterFrame, Users
    <2> QED
      BY <1>0, <1>5, <2>1 DEF Park, Await, Moves, Users
  <1>6. CASE \/ Register_CountAttempt(h) \/ Register_OpenWindow(h)
             \/ Register_Sequence(h) \/ Register_Dispatch(h) \/ Register_Mark(h)
    BY <1>5, <1>6
       DEF Register_CountAttempt, Register_OpenWindow, Register_Sequence,
           Register_Dispatch, Register_Mark, OtpLabels
  <1>7. CASE Register_Answer(h)
    <2>1. loc[h].user \in Users
      BY <1>0, <1>7, Frames DEF Register_Answer, OtpLabels
    <2>0. users[loc[h].user] \in UserRow
      BY <1>0, <2>1 DEF Users
    <2>2. [users[loc[h].user] EXCEPT !.told = TRUE] \in UserRow
      BY <2>0 DEF UserRow
    <2>3. users' = [users EXCEPT ![loc[h].user] =
                      [users[loc[h].user] EXCEPT !.told = TRUE]]
      BY <1>7 DEF Register_Answer
    <2> QED
      BY <1>0, <1>7, <2>1, <2>2, <2>3, UpdateTyped, RespondMoves DEF Register_Answer
  <1> QED
    BY <1>1, <1>2, <1>3, <1>4, <1>6, <1>7 DEF RegisterStep

\* A verification or deletion rewrites the status of one row.
LEMMA StatusTyped ==
    ASSUME TypeOK, NEW u \in Users, Verify(u) \/ Delete(u)
    PROVE  /\ users' \in Seq(UserRow) /\ Len(users') = Len(users) /\ Users' = Users
           /\ UNCHANGED <<loopVars, clock, faults>>
  <1>1. PICK st \in {"active", "deleted"} :
          users' = [users EXCEPT ![u] = [users[u] EXCEPT !.st = st]]
    BY DEF Verify, Delete
  <1>0. users[u] \in UserRow
    BY DEF TypeOK, Users
  <1>2. [users[u] EXCEPT !.st = st] \in UserRow
    BY <1>0, <1>1 DEF UserRow
  <1> QED
    BY <1>1, <1>2, UpdateTyped DEF Verify, Delete

\* Every batch is a sequence of distinct handlers.
LEMMA BatchTyped ==
    ASSUME NEW size \in Nat, NEW batch \in Batches(size)
    PROVE  batch \in Seq(Handlers)
  <1>1. PICK n \in 1..size : batch \in Injection(1..n, Handlers)
    BY DEF Batches
  <1> QED
    BY <1>1 DEF Injection

\* Requests arrive with the locals their first resume point reads.
LEMMA ReceiveTyped ==
    ASSUME TypeOK, Receive
    PROVE  HandlersOK'
  <1>1. PICK batch \in Batches(MaxBatch) :
          /\ ready' = batch
          /\ \E request \in [Range(batch) -> RegisterRequests] :
               /\ pc' = [h \in Handlers |->
                           IF h \in Range(batch) THEN request[h].op ELSE pc[h]]
               /\ loc' = [h \in Handlers |->
                           IF h \in Range(batch) THEN request[h] ELSE loc[h]]
    BY DEF Receive, Arrive
  <1>2. PICK request \in [Range(batch) -> RegisterRequests] :
          /\ pc' = [h \in Handlers |->
                      IF h \in Range(batch) THEN request[h].op ELSE pc[h]]
          /\ loc' = [h \in Handlers |->
                      IF h \in Range(batch) THEN request[h] ELSE loc[h]]
    BY <1>1
  <1>3. ready' \in Seq(Handlers)
    BY <1>1, BatchTyped, LoopAssumption
  <1>4. ASSUME NEW r \in RegisterRequests PROVE RegisterFrame(r.op, r, Users)
    BY DEF RegisterFrame, RegisterRequests
  <1>5. Users' = Users
    BY DEF Receive, Users
  <1> QED
    BY <1>2, <1>3, <1>4, <1>5 DEF TypeOK, HandlersOK

\* Every step keeps the types.
LEMMA NextTyped == TypeOK /\ [Next]_vars => TypeOK'
  <1> SUFFICES ASSUME TypeOK, [Next]_vars PROVE TypeOK'
    OBVIOUS
  <1>0. /\ HandlersOK /\ users \in Seq(UserRow) /\ Len(users) <= MaxUsers
        /\ faults \in 0..MaxFaults /\ MaxFaults \in Nat
        /\ limit' \in Limits
    BY RegistrationAssumption DEF TypeOK, Next, vars
  <1>1. CASE Receive
    BY <1>0, <1>1, ReceiveTyped DEF Receive, TypeOK
  <1>2. CASE Resume
    <2>1. ready' \in Seq(Handlers)
      BY <1>2, BatchTyped, LoopAssumption DEF Resume, Wake
    <2> QED
      BY <1>0, <1>2, <2>1 DEF Resume, Wake, TypeOK, HandlersOK, Users
  <1>3. ASSUME NEW h \in Handlers, Step(h) PROVE TypeOK'
    BY <1>0, <1>3, StepMoves, MovesTyped DEF Step, TypeOK
  <1>4. ASSUME NEW h \in Handlers, StatementFails(h) \/ TableFull(h) PROVE TypeOK'
    <2>1. HandlersOK'
      BY <1>0, <1>4, RespondMoves, MovesTyped DEF StatementFails, TableFull, Runs, Users
    <2> QED
      BY <1>0, <1>4, <2>1 DEF StatementFails, TableFull, TypeOK
  <1>5. CASE Crash
    <2>1. HandlersOK'
      BY <1>5 DEF Crash, Restart, HandlersOK, RegisterFrame
    <2> QED
      BY <1>0, <1>5, <2>1 DEF Crash, TypeOK
  <1>6. ASSUME NEW u \in Users, Verify(u) \/ Delete(u) PROVE TypeOK'
    BY <1>0, <1>6, StatusTyped DEF TypeOK, HandlersOK, loopVars
  <1>7. CASE UNCHANGED vars
    BY <1>0, <1>7 DEF vars, loopVars, TypeOK, HandlersOK, Users
  <1> QED
    BY <1>1, <1>2, <1>3, <1>4, <1>5, <1>6, <1>7 DEF Next

\* The types hold always, for any number of requests, names and rows.
THEOREM TypeCorrect == Spec => []TypeOK
  <1>1. Init => TypeOK
    BY RegistrationAssumption
       DEF Init, LoopInit, TypeOK, HandlersOK, RegisterFrame, Users
  <1>2. TypeOK /\ [Next]_vars => TypeOK'
    BY NextTyped
  <1> QED
    BY <1>1, <1>2, PTL DEF Spec

-----------------------------------------------------------------------------
(* One account per username and address *)

\* Without it the deletion of one account could leave its claim to another.
UniqueInv ==
    \A u, v \in Live :
      u # v => /\ users[u].name.key # users[v].name.key
               /\ users[u].address # users[v].address

\* A change that leaves identities and life alone leaves the claims alone.
LEMMA ClaimsKept ==
    ASSUME Users' = Users,
           \A u \in Users : /\ users'[u].name = users[u].name
                            /\ users'[u].address = users[u].address
                            /\ users'[u].st \in {"pending", "active"} <=> u \in Live
    PROVE  Live' = Live /\ Claims' = Claims /\ (UniqueInv => UniqueInv')
  <1>1. Live' = Live
    BY DEF Live
  <1>2. \A u \in Live : /\ users'[u].name = users[u].name
                        /\ users'[u].address = users[u].address
    BY DEF Live
  <1>3. Claims' = Claims
    BY <1>1, <1>2 DEF Claims
  <1> QED
    BY <1>1, <1>2, <1>3 DEF UniqueInv

\* The unique indexes keep a new row apart from all live ones.
LEMMA InsertClaims ==
    ASSUME TypeOK, UniqueInv, NEW name \in Spellings, NEW address \in Addresses,
           ~NameTaken(name), ~AddressTaken(address), InsertUser(name, address)
    PROVE  UniqueInv' /\ AccountDirectory!Claim(name.key, address)
  <1> DEFINE n == Len(users')
  <1> DEFINE row == [st |-> "pending", name |-> name, address |-> address,
                     told |-> FALSE]
  <1>0. /\ Users' = Users \cup {n} /\ n \notin Users
        /\ \A u \in Users : users'[u] = users[u]
        /\ users'[n] = row
    BY InsertTyped
  <1> HIDE DEF n
  <1>1. /\ Users' = Users \cup {n} /\ n \notin Users
        /\ \A u \in Users : users'[u] = users[u]
        /\ users'[n].st = "pending" /\ users'[n].name = name
        /\ users'[n].address = address
    BY <1>0
  <1>2. Live' = Live \cup {n} /\ n \notin Live
    BY <1>1 DEF Live
  <1>3. \A u \in Live : /\ users'[u] = users[u]
                        /\ users[u].name.key # name.key /\ users[u].address # address
    BY <1>1 DEF Live, NameTaken, AddressTaken
  <1>4. UniqueInv'
    BY <1>1, <1>2, <1>3 DEF UniqueInv
  <1>5. Claims' = Claims \cup {[name |-> name.key, address |-> address]}
    BY <1>1, <1>2, <1>3 DEF Claims
  <1>6. AccountDirectory!Free(name.key, address)
    BY <1>3 DEF AccountDirectory!Free, Claims
  <1> QED
    BY <1>4, <1>5, <1>6 DEF AccountDirectory!Claim

\* A deletion frees the claim of its account and no other.
LEMMA DeleteClaims ==
    ASSUME TypeOK, UniqueInv, NEW u \in Users, Delete(u)
    PROVE  UniqueInv' /\ \E a \in Claims : AccountDirectory!Release(a)
  <1> DEFINE a == [name |-> users[u].name.key, address |-> users[u].address]
  <1>0. users[u] \in UserRow /\ u \in Live
    BY DEF TypeOK, Users, Delete, Live
  <1>1. /\ Users' = Users /\ users'[u].st = "deleted"
        /\ \A v \in Users \ {u} : users'[v] = users[v]
    BY <1>0, StatusTyped DEF Delete, TypeOK, Users, UserRow
  <1>2. Live' = Live \ {u}
    BY <1>1 DEF Live
  <1>3. \A v \in Live \ {u} :
          /\ users'[v] = users[v]
          /\ users[v].name.key # users[u].name.key
    BY <1>0, <1>1 DEF UniqueInv, Live
  <1>4. Claims' = Claims \ {a}
    BY <1>0, <1>2, <1>3 DEF Claims
  <1>5. a \in Claims
    BY <1>0 DEF Claims
  <1>6. UniqueInv'
    BY <1>2, <1>3 DEF UniqueInv
  <1> QED
    BY <1>4, <1>5, <1>6 DEF AccountDirectory!Release

\* Every step is one of the directory, or none.
LEMMA NextImplements ==
    TypeOK /\ UniqueInv /\ [Next]_vars =>
      UniqueInv' /\ [AccountDirectory!Next]_Claims
  <1> SUFFICES ASSUME TypeOK, UniqueInv, [Next]_vars
               PROVE  UniqueInv' /\ [AccountDirectory!Next]_Claims
    OBVIOUS
  <1> DEFINE Goal == UniqueInv' /\ [AccountDirectory!Next]_Claims
  <1>1. ASSUME UNCHANGED users PROVE Goal
    BY <1>1, ClaimsKept DEF Users, Live
  <1>2. ASSUME NEW h \in Handlers, Register_Insert(h) PROVE Goal
    <2>1. loc[h].name \in Spellings /\ loc[h].address \in Addresses
      BY <1>2, Frames DEF Register_Insert, Runs, TypeOK, HandlersOK
    <2>2. loc[h].name.key \in Names
      BY <2>1 DEF Spellings
    <2>3. UniqueInv' /\ AccountDirectory!Claim(loc[h].name.key, loc[h].address)
      BY <1>2, <2>1, InsertClaims DEF Register_Insert
    <2> QED
      BY <2>1, <2>2, <2>3 DEF AccountDirectory!Next
  <1>3. ASSUME NEW h \in Handlers, Register_Answer(h) PROVE Goal
    <2>1. loc[h].user \in Users
      BY <1>3, Frames DEF Register_Answer, Runs, TypeOK, HandlersOK, OtpLabels
    <2>2. \A u \in Users : users[u] \in UserRow
      BY DEF TypeOK, Users
    <2>3. /\ Users' = Users
          /\ \A u \in Users : /\ users'[u].name = users[u].name
                              /\ users'[u].address = users[u].address
                              /\ users'[u].st = users[u].st
      BY <1>3, <2>1, <2>2 DEF Register_Answer, TypeOK, Users, UserRow
    <2> QED
      BY <2>3, ClaimsKept DEF Live
  <1>4. ASSUME NEW u \in Users, Verify(u) PROVE Goal
    <2>1. \A v \in Users : users[v] \in UserRow
      BY DEF TypeOK, Users
    <2>2. /\ Users' = Users
          /\ \A v \in Users : /\ users'[v].name = users[v].name
                              /\ users'[v].address = users[v].address
                              /\ users'[v].st \in {"pending", "active"} <=> v \in Live
      BY <1>4, <2>1 DEF Verify, TypeOK, Users, UserRow, Live
    <2> QED
      BY <2>2, ClaimsKept
  <1>5. ASSUME NEW u \in Users, Delete(u) PROVE Goal
    BY <1>5, DeleteClaims DEF AccountDirectory!Next
  <1>6. ASSUME NEW h \in Handlers, Step(h) PROVE Goal
    <2>1. UNCHANGED users \/ Register_Insert(h) \/ Register_Answer(h)
      BY <1>6
         DEF Step, RegisterStep, Register_Invalid, Register_CheckName,
             Register_NameUnavailable, Register_Hash, Register_Conflict,
             Register_CountAttempt, Register_OpenWindow, Register_Limited,
             Register_Sequence, Register_Dispatch, Register_Mark
    <2> QED
      BY <1>1, <1>2, <1>3, <2>1
  <1> QED
    BY <1>1, <1>4, <1>5, <1>6
       DEF Next, Receive, Resume, StatementFails, TableFull, Crash, vars

\* Registration implements the directory: no two accounts that are not deleted
\* share a username, however it was typed, or an address, and only deletion frees
\* them, whatever registrations overlap and whatever fails.
THEOREM DirectoryImplemented == Spec => ImplementsDirectory
  <1>1. Init => UniqueInv /\ AccountDirectory!Init
    BY DEF Init, UniqueInv, AccountDirectory!Init, Claims, Live, Users
  <1>2. TypeOK /\ UniqueInv /\ [Next]_vars =>
          UniqueInv' /\ [AccountDirectory!Next]_Claims
    BY NextImplements
  <1> QED
    BY <1>1, <1>2, TypeCorrect, PTL
       DEF Spec, ImplementsDirectory, AccountDirectory!Spec

-----------------------------------------------------------------------------
(* Stranded accounts *)

\* The accounts whose passcode is being sent.
Served == {u \in Users : \E h \in Handlers : Serves(h, u)}

LEMMA UsersFinite ==
    ASSUME TypeOK
    PROVE  IsFiniteSet(Users)
  <1>1. Len(users) \in Nat /\ Users = 1..Len(users)
    BY DEF TypeOK, Users
  <1> QED
    BY <1>1, FS_Interval

\* There are no more of them than handlers, each serving one.
LEMMA ServedBounded ==
    ASSUME TypeOK
    PROVE  /\ IsFiniteSet(Served)
           /\ Cardinality(Served) <= Cardinality(Handlers)
  <1> DEFINE W == {h \in Handlers : \E u \in Served : Serves(h, u)}
             f == [h \in W |-> loc[h].user]
  <1>1. IsFiniteSet(W) /\ Cardinality(W) <= Cardinality(Handlers)
    BY LoopAssumption, FS_Subset
  <1>2. \A h \in W : loc[h].user \in Served
    BY DEF Serves
  <1>3. \A u \in Served : \E h \in W : loc[h].user = u
    BY DEF Served, Serves
  <1> HIDE DEF W
  <1>4. f \in Surjection(W, Served)
    BY <1>2, <1>3 DEF Surjection
  <1>5. IsFiniteSet(Served) /\ Cardinality(Served) <= Cardinality(W)
    BY <1>1, <1>4, FS_Surjection
  <1>6. /\ Cardinality(Served) \in Nat /\ Cardinality(W) \in Nat
        /\ Cardinality(Handlers) \in Nat
    BY <1>1, <1>5, LoopAssumption, FS_CardinalityType
  <1> QED
    BY <1>1, <1>5, <1>6

\* No account is stranded by a step that lets no pending one go unserved untold.
LEMMA StrandedShrinks ==
    ASSUME \A u \in Users' \ Users : \E h \in Handlers : Serves(h, u)',
           \A u \in Users :
             users'[u].st = "pending" /\ ~users'[u].told =>
               users[u].st = "pending" /\ ~users[u].told,
           \A u \in Users, h \in Handlers :
             Serves(h, u) => Serves(h, u)' \/ users'[u].told
    PROVE  Stranded' \subseteq Stranded
  <1> SUFFICES ASSUME NEW u \in Stranded' PROVE u \in Stranded
    OBVIOUS
  <1>1. /\ u \in Users' /\ users'[u].st = "pending" /\ ~users'[u].told
        /\ \A h \in Handlers : ~Serves(h, u)'
    BY DEF Stranded
  <1>2. u \in Users
    BY <1>1
  <1> QED
    BY <1>1, <1>2 DEF Stranded

\* A fault strands at most the accounts that were being served.
LEMMA StrandedGrows ==
    ASSUME UNCHANGED users
    PROVE  Stranded' \subseteq Stranded \cup Served
  BY DEF Stranded, Served, Users

\* Handlers that a step leaves alone serve what they served.
LEMMA OthersServe ==
    ASSUME NEW h, NEW label, NEW locals, Goto(h, label, locals),
           NEW g \in Handlers, g # h, HandlersOK, NEW u, Serves(g, u)
    PROVE  Serves(g, u)'
  BY DEF Goto, HandlersOK, Serves

\* No step of the handler strands an account, but where no send at all is allowed.
LEMMA StepStrandsNone ==
    ASSUME TypeOK, limit > 0, NEW h \in Handlers, RegisterStep(h)
    PROVE  Stranded' \subseteq Stranded
  <1> USE DEF Runs
  <1>0. DOMAIN pc = Handlers /\ DOMAIN loc = Handlers /\ HandlersOK
    BY DEF TypeOK, HandlersOK
  <1>1. ASSUME pc[h] \notin OtpLabels, UNCHANGED users,
               \E label, locals : Goto(h, label, locals)
        PROVE  Stranded' \subseteq Stranded
    <2>1. \A u \in Users, g \in Handlers : Serves(g, u) => Serves(g, u)'
      BY <1>0, <1>1, OthersServe DEF Serves
    <2> QED
      BY <1>1, <2>1, StrandedShrinks DEF Users
  <1>2. CASE \/ Register_Invalid(h) \/ Register_NameUnavailable(h)
             \/ Register_Conflict(h) \/ Register_CheckName(h) \/ Register_Hash(h)
    BY <1>1, <1>2
       DEF Register_Invalid, Register_NameUnavailable, Register_Conflict,
           Register_CheckName, Register_Hash, Respond, Await, Park, OtpLabels
  <1>3. CASE Register_Insert(h)
    <2>1. loc[h].name \in Spellings /\ loc[h].address \in Addresses
      BY <1>0, <1>3, Frames DEF Register_Insert, HandlersOK
    <2>2. /\ Users' = Users \cup {Len(users')}
          /\ \A u \in Users : users'[u] = users[u]
      BY <1>3, <2>1, InsertTyped DEF Register_Insert
    <2>3. Goto(h, "register.otp", [user |-> Len(users')])
      BY <1>3 DEF Register_Insert, Await
    <2>4. pc'[h] \in OtpLabels /\ loc'[h].user = Len(users')
      BY <1>0, <2>3 DEF Goto, OtpLabels
    <2>5. pc[h] \notin OtpLabels
      BY <1>3 DEF Register_Insert, OtpLabels
    <2>6. \A u \in Users, g \in Handlers : Serves(g, u) => Serves(g, u)'
      BY <1>0, <2>3, <2>5, OthersServe DEF Serves
    <2>7. \A u \in Users' \ Users : \E g \in Handlers : Serves(g, u)'
      BY <2>2, <2>4 DEF Serves
    <2> QED
      BY <2>2, <2>6, <2>7, StrandedShrinks
  <1>4. ASSUME NEW label \in OtpLabels, UNCHANGED users,
               Goto(h, label, loc[h])
        PROVE  Stranded' \subseteq Stranded
    <2>1. \A u : Serves(h, u) => Serves(h, u)'
      BY <1>0, <1>4 DEF Goto, Serves
    <2>2. \A u \in Users, g \in Handlers : Serves(g, u) => Serves(g, u)'
      BY <1>0, <1>4, <2>1, OthersServe
    <2> QED
      BY <1>4, <2>2, StrandedShrinks DEF Users
  <1>5. CASE \/ Register_CountAttempt(h) \/ Register_OpenWindow(h)
             \/ Register_Sequence(h) \/ Register_Dispatch(h) \/ Register_Mark(h)
    BY <1>4, <1>5
       DEF Register_CountAttempt, Register_OpenWindow, Register_Sequence,
           Register_Dispatch, Register_Mark, Park, Await, OtpLabels
  <1>6. CASE Register_Answer(h)
    <2>1. loc[h].user \in Users
      BY <1>0, <1>6, Frames DEF Register_Answer, HandlersOK, OtpLabels
    <2>2. users \in Seq(UserRow) /\ \A u \in Users : users[u] \in UserRow
      BY DEF TypeOK, Users
    <2>3. /\ Users' = Users /\ users'[loc[h].user].told
          /\ \A u \in Users : /\ users'[u].st = users[u].st
                              /\ u # loc[h].user => users'[u] = users[u]
      BY <1>6, <2>1, <2>2 DEF Register_Answer, Users, UserRow
    <2>4. \A u \in Users, g \in Handlers :
            Serves(g, u) => Serves(g, u)' \/ users'[u].told
      BY <1>0, <1>6, <2>3, OthersServe DEF Serves, Register_Answer, Respond
    <2> QED
      BY <2>3, <2>4, StrandedShrinks
  <1>7. ~Register_Limited(h)
    BY RegistrationAssumption DEF TypeOK, Register_Limited
  <1> QED
    BY <1>2, <1>3, <1>5, <1>6, <1>7 DEF RegisterStep

\* Nor does an arrival, which only takes free slots.
LEMMA ReceiveStrandsNone ==
    ASSUME TypeOK, Receive
    PROVE  Stranded' \subseteq Stranded
  <1>1. PICK batch \in Batches(MaxBatch) :
          /\ \A i \in DOMAIN batch : Idle(batch[i])
          /\ \E request \in [Range(batch) -> RegisterRequests] :
               /\ pc' = [h \in Handlers |->
                           IF h \in Range(batch) THEN request[h].op ELSE pc[h]]
               /\ loc' = [h \in Handlers |->
                           IF h \in Range(batch) THEN request[h] ELSE loc[h]]
    BY DEF Receive, Arrive
  <1>2. \A h \in Range(batch) : pc[h] \notin OtpLabels
    BY <1>1 DEF Range, Idle, OtpLabels
  <1>3. \A u \in Users, h \in Handlers : Serves(h, u) => Serves(h, u)'
    BY <1>1, <1>2 DEF Serves
  <1> QED
    BY <1>3, StrandedShrinks DEF Receive, Users

\* The bound moves by one handler set per fault.
LEMMA StrandedBudget ==
    ASSUME NEW f \in Nat
    PROVE  /\ f * Cardinality(Handlers) \in Nat
           /\ (f + 1) * Cardinality(Handlers) =
                f * Cardinality(Handlers) + Cardinality(Handlers)
  <1>1. Cardinality(Handlers) \in Nat
    BY LoopAssumption, FS_CardinalityType
  <1> QED
    BY <1>1

\* The bound is kept by every step that strands none.
LEMMA BoundKept ==
    ASSUME TypeOK, StrandedBounded, limit > 0,
           Stranded' \subseteq Stranded, UNCHANGED faults
    PROVE  StrandedBounded'
  <1>1. IsFiniteSet(Stranded)
    BY UsersFinite, FS_Subset DEF Stranded
  <1>2. Cardinality(Stranded') <= Cardinality(Stranded) /\ IsFiniteSet(Stranded')
    BY <1>1, FS_Subset
  <1>3. /\ Cardinality(Stranded') \in Nat /\ Cardinality(Stranded) \in Nat
        /\ faults * Cardinality(Handlers) \in Nat
    BY <1>1, <1>2, FS_CardinalityType, StrandedBudget, RegistrationAssumption
       DEF TypeOK
  <1> QED
    BY <1>2, <1>3 DEF StrandedBounded

\* And a fault raises it by what it may strand.
LEMMA BoundRaised ==
    ASSUME TypeOK, StrandedBounded, limit > 0, UNCHANGED users, faults' = faults + 1
    PROVE  StrandedBounded'
  <1> DEFINE S == Cardinality(Stranded)  C == Cardinality(Handlers)
             V == Cardinality(Served)    T == Cardinality(Stranded')
             B == faults * C
  <1>1. IsFiniteSet(Stranded) /\ IsFiniteSet(Served) /\ V <= C
    BY UsersFinite, ServedBounded, FS_Subset DEF Stranded
  <1>2. /\ IsFiniteSet(Stranded \cup Served) /\ IsFiniteSet(Stranded \cap Served)
        /\ Cardinality(Stranded \cup Served) =
             S + V - Cardinality(Stranded \cap Served)
    BY <1>1, FS_Union, FS_Subset
  <1>3. T <= Cardinality(Stranded \cup Served) /\ IsFiniteSet(Stranded')
    BY <1>2, StrandedGrows, FS_Subset
  <1>4. /\ S \in Nat /\ V \in Nat /\ T \in Nat /\ C \in Nat
        /\ Cardinality(Stranded \cap Served) \in Nat
        /\ Cardinality(Stranded \cup Served) \in Nat
    BY <1>1, <1>2, <1>3, FS_CardinalityType, LoopAssumption
  <1>5. B \in Nat /\ (faults + 1) * C = B + C
    BY StrandedBudget, RegistrationAssumption DEF TypeOK
  <1>6. S <= B
    BY DEF StrandedBounded
  <1>7. faults' * C = B + C
    BY <1>5
  <1> HIDE DEF B, S, V, T
  <1>8. T <= B + C
    BY <1>1, <1>2, <1>3, <1>4, <1>5, <1>6
  <1> QED
    BY <1>7, <1>8 DEF StrandedBounded, T

\* Every step keeps the bound.
LEMMA NextBounded == TypeOK /\ StrandedBounded /\ [Next]_vars => StrandedBounded'
  <1> SUFFICES ASSUME TypeOK, StrandedBounded, [Next]_vars, limit > 0
               PROVE  StrandedBounded'
    BY DEF StrandedBounded, Next, vars
  <1>0. HandlersOK /\ users \in Seq(UserRow)
    BY DEF TypeOK
  <1>1. CASE Receive
    BY <1>1, ReceiveStrandsNone, BoundKept DEF Receive
  <1>2. CASE Resume \/ UNCHANGED vars
    <2>1. UNCHANGED <<pc, loc, users, faults>>
      BY <1>2 DEF Resume, Wake, vars, loopVars
    <2>2. Stranded' \subseteq Stranded
      BY <2>1 DEF Stranded, Serves, Users
    <2> QED
      BY <2>1, <2>2, BoundKept
  <1>3. ASSUME NEW h \in Handlers, Step(h) PROVE StrandedBounded'
    BY <1>3, StepStrandsNone, BoundKept DEF Step
  <1>4. ASSUME NEW h \in Handlers, StatementFails(h) PROVE StrandedBounded'
    BY <1>4, BoundRaised DEF StatementFails
  <1>5. ASSUME NEW h \in Handlers, TableFull(h) PROVE StrandedBounded'
    <2>1. \A u \in Users, g \in Handlers : Serves(g, u) => Serves(g, u)'
      BY <1>0, <1>5, OthersServe DEF TableFull, Runs, Respond, Serves, OtpLabels
    <2>2. Stranded' \subseteq Stranded
      BY <1>5, <2>1, StrandedShrinks DEF TableFull, Users
    <2> QED
      BY <1>5, <2>2, BoundKept DEF TableFull
  <1>6. CASE Crash
    BY <1>6, BoundRaised DEF Crash
  <1>7. ASSUME NEW u \in Users, Verify(u) \/ Delete(u) PROVE StrandedBounded'
    <2>1. Users' = Users /\ UNCHANGED <<loopVars, faults>>
      BY <1>7, StatusTyped
    <2>2. \A v \in Users : users'[v].st = "pending" /\ ~users'[v].told =>
                             users[v].st = "pending" /\ ~users[v].told
      <3>1. users[u] \in UserRow
        BY <1>0 DEF Users
      <3>2. users'[u].st # "pending" /\ \A v \in Users \ {u} : users'[v] = users[v]
        BY <1>0, <1>7, <3>1 DEF Verify, Delete, Users, UserRow
      <3> QED
        BY <3>2
    <2>3. \A v \in Users, g \in Handlers : Serves(g, v) => Serves(g, v)'
      BY <2>1 DEF Serves, loopVars
    <2>4. Stranded' \subseteq Stranded
      BY <2>1, <2>2, <2>3, StrandedShrinks
    <2> QED
      BY <2>1, <2>4, BoundKept
  <1> QED
    BY <1>1, <1>2, <1>3, <1>4, <1>5, <1>6, <1>7 DEF Next

\* Once its row is committed a registration is answered 201 with the id, but for
\* faults: each fault leaves at most one account per request in flight that its
\* owner does not know of, for any number of requests, rows and faults.
THEOREM StrandedIsBounded == Spec => []StrandedBounded
  <1>1. Init => StrandedBounded
    <2> SUFFICES ASSUME Init PROVE StrandedBounded
      OBVIOUS
    <2>1. Stranded = {} /\ faults = 0
      BY DEF Init, Stranded, Users
    <2>2. 0 * Cardinality(Handlers) = 0
      BY LoopAssumption, FS_CardinalityType
    <2> QED
      BY <2>1, <2>2, FS_EmptySet DEF StrandedBounded
  <1>2. TypeOK /\ StrandedBounded /\ [Next]_vars => StrandedBounded'
    BY NextBounded
  <1> QED
    BY <1>1, <1>2, TypeCorrect, PTL DEF Spec
=============================================================================
