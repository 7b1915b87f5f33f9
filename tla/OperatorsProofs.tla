-------------------------- MODULE OperatorsProofs --------------------------
(***************************************************************************)
(* Somebody can always run the elections, proved for every set of          *)
(* operators, browsers, tabs and requests, as long as no two changes of    *)
(* accounts overlap; and nobody changes their own account.                 *)
(***************************************************************************)
EXTENDS OperatorsProperties, FiniteSetTheorems, TLAPS

Anyone == Operator \cup {"none"}
UpdateJob == [pc : {"lock", "write"}, by : Anyone, seen : Anyone, target : Operator, changes : Changes]
CreateJob == [pc : {"create"}, by : Anyone, seen : Anyone, target : Operator, role : Role]

\* What the variables hold; a change is asked for of accounts that exist, by others.
OperatorsTyped ==
  /\ account \in [Operator -> Account \cup {NoAccount}]
  /\ token \in [Browser -> Anyone]
  /\ shown \in [Tab -> Anyone]
  /\ request \in [Request -> {Idle} \cup UpdateJob \cup CreateJob]
  /\ \A q \in Request : request[q] \in UpdateJob =>
       request[q].target \in Known /\ request[q].by # request[q].target

\* The change leaves its target an active super-admin.
Retains(job) ==
  IF Kind(job) = "role" THEN job.changes.role = "SUPER_ADMIN" ELSE job.changes.isActive

\* A change that is about to be written leaves somebody.
Survived(q) ==
  \/ ActiveSuperAdmins \ {request[q].target} # {}
  \/ request[q].target \in ActiveSuperAdmins /\ Retains(request[q])

\* As long as no two have overlapped, at most one change is about to be written.
Sound ==
  ~crossed => /\ ActiveSuperAdmins # {}
              /\ \A q \in Request : Writing(q) => Survived(q)
              /\ \A p, q \in Request : Writing(p) /\ Writing(q) => p = q

OperatorsInv == OperatorsTyped /\ Sound

-----------------------------------------------------------------------------
(***************************************************************************)
(* Accounts and the changes a request may ask for.                         *)
(***************************************************************************)
\* A change names the role or the activity, and after the first of two one is left.
LEMMA ChangesType ==
  ASSUME NEW changes \in Changes
  PROVE  /\ "role" \in DOMAIN changes \/ "isActive" \in DOMAIN changes
         /\ "role" \in DOMAIN changes => changes.role \in Role
         /\ "isActive" \in DOMAIN changes => changes.isActive \in BOOLEAN
         /\ \A kind : DOMAIN Without(changes, kind) # {} => Without(changes, kind) \in Changes
<1>1. CASE changes \in [role : Role, isActive : BOOLEAN]
  <2>1. DOMAIN changes = {"role", "isActive"} /\ changes.role \in Role /\ changes.isActive \in BOOLEAN
    BY <1>1
  <2>2. ASSUME NEW kind, DOMAIN Without(changes, kind) # {}
        PROVE  Without(changes, kind) \in Changes
    <3>1. CASE kind = "role"
      <4>1. Without(changes, kind) = [isActive |-> changes.isActive]
        BY <2>1, <3>1 DEF Without
      <4>2. QED BY <4>1, <2>1 DEF Changes
    <3>2. CASE kind = "isActive"
      <4>1. Without(changes, kind) = [role |-> changes.role]
        BY <2>1, <3>2 DEF Without
      <4>2. QED BY <4>1, <2>1 DEF Changes
    <3>3. CASE kind \notin {"role", "isActive"}
      <4>1. Without(changes, kind) = changes
        BY <1>1, <2>1, <3>3 DEF Without
      <4>2. QED BY <4>1
    <3>4. QED BY <3>1, <3>2, <3>3
  <2>3. QED BY <2>1, <2>2
<1>2. ASSUME NEW r \in Role, changes = [role |-> r]
      PROVE  /\ DOMAIN changes = {"role"} /\ changes.role \in Role
             /\ \A kind : DOMAIN Without(changes, kind) # {} => Without(changes, kind) = changes
  BY <1>2 DEF Without
<1>3. ASSUME NEW b \in BOOLEAN, changes = [isActive |-> b]
      PROVE  /\ DOMAIN changes = {"isActive"} /\ changes.isActive \in BOOLEAN
             /\ \A kind : DOMAIN Without(changes, kind) # {} => Without(changes, kind) = changes
  BY <1>3 DEF Without
<1>4. QED BY <1>1, <1>2, <1>3 DEF Changes

\* An account that exists is a row.
LEMMA KnownRows ==
  ASSUME OperatorsTyped, NEW a \in Known
  PROVE  a \in Operator /\ account[a] \in Account
BY DEF OperatorsTyped, Known

\* Who has no account has no rights.
LEMMA RightsNeedRow ==
  ASSUME NEW a, account[a] = NoAccount
  PROVE  a \notin ActiveSuperAdmins
BY DEF ActiveSuperAdmins, Known

\* A request that arrives comes from an active super-admin and waits its turn.
LEMMA ArriveTyped ==
  ASSUME OperatorsTyped, NEW q \in Request, NEW t \in Tab, NEW job \in UpdateJob \cup CreateJob,
         Arrive(q, t, job),
         job \in UpdateJob => job.target \in Known /\ job.by # job.target
  PROVE  OperatorsTyped'
BY DEF Arrive, OperatorsTyped, Known

\* Signing in and out changes neither accounts nor requests.
LEMMA SessionTyped ==
  ASSUME OperatorsTyped, NEW t \in Tab, NEW a \in Operator, Logout(t) \/ Reopen(t) \/ Login(t, a)
  PROVE  OperatorsTyped' /\ UNCHANGED <<account, request, crossed>>
<1>1. Home \in [Tab -> Browser]
  BY OperatorsAssumption
<1>2. CASE Logout(t)
  BY <1>1, <1>2 DEF Logout, OperatorsTyped, Known, Anyone
<1>3. CASE Reopen(t)
  BY <1>1, <1>3 DEF Reopen, OperatorsTyped, Known, Anyone
<1>4. CASE Login(t, a)
  BY <1>1, <1>4 DEF Login, OperatorsTyped, Known, Anyone
<1>5. QED BY <1>2, <1>3, <1>4

\* What the two kinds of requests ask for.
LEMMA UpdateAdminTyped ==
  ASSUME OperatorsTyped, NEW q \in Request, NEW t \in Tab, NEW a \in Operator, NEW changes \in Changes,
         UpdateAdmin(q, t, a, changes)
  PROVE  OperatorsTyped'
<1> DEFINE job == [pc |-> "lock", by |-> token[Home[t]], seen |-> shown[t], target |-> a, changes |-> changes]
<1>1. Arrive(q, t, job) /\ a \in Known /\ a # token[Home[t]]
  BY DEF UpdateAdmin
<1>2. token[Home[t]] \in Anyone /\ shown[t] \in Anyone
  BY OperatorsAssumption DEF OperatorsTyped
<1>3. job \in UpdateJob /\ job.target = a /\ job.by = token[Home[t]]
  BY <1>2 DEF UpdateJob
<1>4. QED BY <1>1, <1>3, ArriveTyped

LEMMA CreateAdministratorTyped ==
  ASSUME OperatorsTyped, NEW q \in Request, NEW t \in Tab, NEW a \in Operator, NEW role \in Role,
         CreateAdministrator(q, t, a, role)
  PROVE  OperatorsTyped'
<1> DEFINE job == [pc |-> "create", by |-> token[Home[t]], seen |-> shown[t], target |-> a, role |-> role]
<1>1. Arrive(q, t, job)
  BY DEF CreateAdministrator
<1>2. token[Home[t]] \in Anyone /\ shown[t] \in Anyone
  BY OperatorsAssumption DEF OperatorsTyped
<1>3. job \in CreateJob /\ job \notin UpdateJob
  BY <1>2 DEF CreateJob, UpdateJob
<1>4. QED BY <1>1, <1>3, ArriveTyped

\* A request whose job has a program counter of an update is one.
LEMMA JobOfPc ==
  ASSUME OperatorsTyped, NEW q \in Request
  PROVE  /\ request[q].pc \in {"lock", "write"} => request[q] \in UpdateJob
         /\ request[q].pc = "create" => request[q] \in CreateJob
BY DEF OperatorsTyped, Idle, UpdateJob, CreateJob

LEMMA LockAdminTyped ==
  ASSUME OperatorsTyped, NEW q \in Request, LockAdmin(q)
  PROVE  OperatorsTyped'
<1> DEFINE job == request[q]
<1>1. job \in UpdateJob
  BY JobOfPc DEF LockAdmin
<1>2. [job EXCEPT !.pc = "write"] \in UpdateJob
      /\ [job EXCEPT !.pc = "write"].target = job.target
      /\ [job EXCEPT !.pc = "write"].by = job.by
  BY <1>1 DEF UpdateJob
<1>3. Idle \notin UpdateJob
  BY DEF Idle, UpdateJob
<1>4. /\ UNCHANGED <<account, token, shown>>
      /\ \/ request' = [request EXCEPT ![q] = [job EXCEPT !.pc = "write"]]
         \/ request' = [request EXCEPT ![q] = Idle]
  BY DEF LockAdmin
<1>5. QED BY <1>1, <1>2, <1>3, <1>4 DEF OperatorsTyped, Known

\* A change that is written replaces one field of its target's row.
LEMMA WrittenRow ==
  ASSUME OperatorsTyped, NEW q \in Request, WriteAdmin(q)
  PROVE  LET job == request[q]
             next == [account[job.target] EXCEPT ![Kind(job)] = job.changes[Kind(job)]]
         IN  /\ job \in UpdateJob /\ job.target \in Known
             /\ account' = [account EXCEPT ![job.target] = next]
             /\ next \in Account
             /\ next.held = account[job.target].held
<1> DEFINE job == request[q]
           next == [account[job.target] EXCEPT ![Kind(job)] = job.changes[Kind(job)]]
<1>1. job \in UpdateJob /\ job.target \in Known
  BY JobOfPc DEF WriteAdmin, OperatorsTyped
<1>2. account[job.target] \in Account /\ job.changes \in Changes
  BY <1>1, KnownRows DEF UpdateJob
<1>3. account' = [account EXCEPT ![job.target] = next]
  BY DEF WriteAdmin
<1>4. \/ Kind(job) = "role" /\ job.changes[Kind(job)] \in Role
      \/ Kind(job) = "isActive" /\ job.changes[Kind(job)] \in BOOLEAN
  BY <1>2, ChangesType DEF Kind
<1>5. next \in Account /\ next.held = account[job.target].held
  BY <1>2, <1>4 DEF Account
<1>6. QED BY <1>1, <1>3, <1>5

LEMMA WriteAdminTyped ==
  ASSUME OperatorsTyped, NEW q \in Request, WriteAdmin(q)
  PROVE  OperatorsTyped'
<1> DEFINE job == request[q]
           rest == Without(job.changes, Kind(job))
           again == [job EXCEPT !.pc = "lock", !.changes = rest]
<1>1. job \in UpdateJob /\ job.target \in Known
  BY WrittenRow
<1>2. /\ account' \in [Operator -> Account \cup {NoAccount}]
      /\ Known \subseteq Known'
  <2>1. NoAccount \notin Account
    BY DEF NoAccount, Account
  <2>2. QED BY <2>1, WrittenRow DEF OperatorsTyped, Known
<1>3. /\ UNCHANGED <<token, shown>>
      /\ \/ request' = [request EXCEPT ![q] = Idle]
         \/ DOMAIN rest # {} /\ request' = [request EXCEPT ![q] = again]
  BY DEF WriteAdmin
<1>4. DOMAIN rest # {} => again \in UpdateJob /\ again.target = job.target /\ again.by = job.by
  <2>1. job.changes \in Changes
    BY <1>1 DEF UpdateJob
  <2>2. DOMAIN rest # {} => rest \in Changes
    BY <2>1, ChangesType
  <2>3. QED BY <1>1, <2>2 DEF UpdateJob
<1>5. Idle \notin UpdateJob
  BY DEF Idle, UpdateJob
<1>6. QED BY <1>1, <1>2, <1>3, <1>4, <1>5 DEF OperatorsTyped

\* A creation adds a row, or finds one and leaves all as it is.
LEMMA CreateAdminTyped ==
  ASSUME OperatorsTyped, NEW q \in Request, NEW answered \in BOOLEAN, CreateAdmin(q, answered)
  PROVE  /\ OperatorsTyped'
         /\ Known \subseteq Known' /\ \A a \in Known : account'[a] = account[a]
<1> DEFINE job == request[q]
           row == [role |-> job.role, isActive |-> TRUE, held |-> answered]
<1>1. job \in CreateJob
  BY JobOfPc DEF CreateAdmin
<1>2. row \in Account /\ job.target \in Operator
  BY <1>1 DEF CreateJob, Account
<1>3. /\ account' \in [Operator -> Account \cup {NoAccount}]
      /\ Known \subseteq Known' /\ \A a \in Known : account'[a] = account[a]
  <2>1. CASE job.target \in Known
    BY <2>1 DEF CreateAdmin, OperatorsTyped, Known
  <2>2. CASE job.target \notin Known
    <3>1. account' = [account EXCEPT ![job.target] = row]
      BY <2>2 DEF CreateAdmin
    <3>2. QED BY <1>2, <2>2, <3>1 DEF OperatorsTyped, Known
  <2>3. QED BY <2>1, <2>2
<1>4. Idle \notin UpdateJob
  BY DEF Idle, UpdateJob
<1>5. request' = [request EXCEPT ![q] = Idle] /\ UNCHANGED <<token, shown>>
  BY DEF CreateAdmin
<1>6. QED BY <1>3, <1>4, <1>5 DEF OperatorsTyped

LEMMA OperatorsInitTyped == OperatorsInit => OperatorsInv
<1> SUFFICES ASSUME OperatorsInit PROVE OperatorsInv
  OBVIOUS
<1>1. account[First] = [role |-> "SUPER_ADMIN", isActive |-> TRUE, held |-> TRUE]
  BY OperatorsAssumption DEF OperatorsInit
<1>2. account[First].role = "SUPER_ADMIN" /\ account[First].isActive
  BY <1>1
<1>3. First \in ActiveSuperAdmins
  BY <1>2, OperatorsAssumption DEF ActiveSuperAdmins, Known, NoAccount
<1>4. OperatorsTyped
  BY DEF OperatorsInit, OperatorsTyped, Account, NoAccount, Role, Anyone, Idle, UpdateJob
<1>5. QED BY <1>3, <1>4 DEF OperatorsInv, Sound, OperatorsInit, Writing, Idle

-----------------------------------------------------------------------------
(***************************************************************************)
(* Somebody is left.                                                       *)
(***************************************************************************)
\* Rights only become more as long as no row that exists is changed.
LEMMA RightsStay ==
  ASSUME Known \subseteq Known', \A a \in Known : account'[a] = account[a]
  PROVE  ActiveSuperAdmins \subseteq ActiveSuperAdmins'
BY DEF ActiveSuperAdmins

\* Whoever counts more than one active super-admin can spare any of them.
LEMMA SpareOne ==
  ASSUME NEW S, Cardinality(S) > 1, NEW a
  PROVE  S \ {a} # {}
<1>1. Cardinality({}) = 0 /\ Cardinality({a}) = 1
  BY FS_EmptySet, FS_Singleton
<1>2. S # {} /\ S # {a}
  BY <1>1
<1>3. QED BY <1>2

\* Steps that write nothing, let nobody begin to write and take no rights keep
\* what is sound.
LEMMA SoundStays ==
  ASSUME Sound, UNCHANGED crossed,
         ActiveSuperAdmins \subseteq ActiveSuperAdmins',
         \A p \in Request : Writing(p)' => Writing(p) /\ request'[p] = request[p]
  PROVE  Sound'
<1> SUFFICES ASSUME ~crossed
             PROVE  /\ (ActiveSuperAdmins # {})'
                    /\ \A p \in Request : Writing(p)' => Survived(p)'
                    /\ \A p, q \in Request : Writing(p)' /\ Writing(q)' => p = q
  BY DEF Sound
<1>1. (ActiveSuperAdmins # {})' /\ \A p, q \in Request : Writing(p)' /\ Writing(q)' => p = q
  BY DEF Sound
<1>2. ASSUME NEW p \in Request, Writing(p)'
      PROVE  Survived(p)'
  <2>1. Survived(p) /\ request'[p] = request[p]
    BY <1>2 DEF Sound
  <2>2. QED BY <2>1 DEF Survived, Retains, Kind
<1>3. QED BY <1>1, <1>2

\* Nobody is about to write because a request arrived.
LEMMA ArriveSound ==
  ASSUME OperatorsInv, NEW q \in Request, NEW t \in Tab, NEW job, Arrive(q, t, job), job.pc # "write"
  PROVE  Sound'
<1>1. request' = [request EXCEPT ![q] = job] /\ UNCHANGED <<account, crossed>>
  BY DEF Arrive
<1>2. request \in [Request -> {Idle} \cup UpdateJob \cup CreateJob]
  BY DEF OperatorsInv, OperatorsTyped
<1>3. \A p \in Request : Writing(p)' => Writing(p) /\ request'[p] = request[p]
  BY <1>1, <1>2 DEF Writing
<1>4. ActiveSuperAdmins \subseteq ActiveSuperAdmins'
  BY <1>1 DEF ActiveSuperAdmins, Known
<1>5. QED BY <1>1, <1>3, <1>4, SoundStays DEF OperatorsInv

\* The lock: what is about to be written has passed the check, and alone.
LEMMA LockAdminSound ==
  ASSUME OperatorsInv, NEW q \in Request, LockAdmin(q)
  PROVE  Sound'
<1> DEFINE job == request[q]
           kind == Kind(job)
           next == [account[job.target] EXCEPT ![kind] = job.changes[kind]]
           going == [job EXCEPT !.pc = "write"]
<1>1. job \in UpdateJob /\ job.target \in Known /\ job.pc = "lock"
  BY JobOfPc DEF LockAdmin, OperatorsInv, OperatorsTyped
<1>2. request \in [Request -> {Idle} \cup UpdateJob \cup CreateJob] /\ UNCHANGED account
  BY DEF LockAdmin, OperatorsInv, OperatorsTyped
<1>3. ActiveSuperAdmins' = ActiveSuperAdmins
  BY <1>2 DEF ActiveSuperAdmins, Known
<1> SUFFICES ASSUME ~crossed' PROVE Sound'
  BY DEF Sound
<1>4. ~crossed /\ \A p \in Request \ {q} : ~Writing(p)
  BY DEF LockAdmin
<1>5. CASE request' = [request EXCEPT ![q] = Idle]
  <2>1. \A p \in Request : ~Writing(p)'
    BY <1>2, <1>4, <1>5 DEF Writing, Idle
  <2>2. QED BY <1>3, <1>4, <2>1 DEF OperatorsInv, Sound
<1>6. CASE request' = [request EXCEPT ![q] = going] /\ AssertEstateSurvives(job.target, next)
  <2>1. going.target = job.target /\ going.changes = job.changes
    BY <1>1 DEF UpdateJob
  <2>2. request'[q] = going /\ \A p \in Request \ {q} : request'[p] = request[p]
    BY <1>2, <1>6
  <2>3. \A p \in Request : Writing(p)' => p = q
    BY <2>2, <1>4 DEF Writing
  <2>4. Survived(q)'
    <3>1. CASE ActiveSuperAdmins \ {job.target} # {}
      BY <3>1, <2>1, <2>2, <1>3 DEF Survived
    <3>2. CASE ActiveSuperAdmins \ {job.target} = {}
      <4>1. job.target \in ActiveSuperAdmins
        BY <3>2, <1>4 DEF OperatorsInv, Sound
      <4>2. next.role = "SUPER_ADMIN" /\ next.isActive
        BY <3>2, <4>1, <1>6, SpareOne DEF AssertEstateSurvives
      <4>3. account[job.target] \in Account /\ job.changes \in Changes
        BY <1>1, KnownRows DEF UpdateJob, OperatorsInv
      <4>4. CASE kind = "role"
        <5>1. next.role = job.changes.role
          BY <4>3, <4>4 DEF Account
        <5>2. Retains(job)
          BY <4>2, <4>4, <5>1 DEF Retains
        <5>3. QED BY <4>1, <5>2, <2>1, <2>2, <1>3 DEF Survived, Retains, Kind
      <4>5. CASE kind # "role"
        <5>1. kind = "isActive"
          BY <4>5 DEF Kind
        <5>2. next.isActive = job.changes.isActive
          BY <4>3, <5>1 DEF Account
        <5>3. Retains(job)
          BY <4>2, <4>5, <5>2 DEF Retains
        <5>4. QED BY <4>1, <5>3, <2>1, <2>2, <1>3 DEF Survived, Retains, Kind
      <4>6. QED BY <4>4, <4>5
    <3>3. QED BY <3>1, <3>2
  <2>5. QED BY <1>3, <1>4, <2>3, <2>4 DEF OperatorsInv, Sound
<1>7. QED BY <1>5, <1>6 DEF LockAdmin

\* The write: only the target's rights may go, and somebody else's or these stay.
LEMMA WriteAdminSound ==
  ASSUME OperatorsInv, NEW q \in Request, WriteAdmin(q)
  PROVE  Sound'
<1> DEFINE job == request[q]
           kind == Kind(job)
           next == [account[job.target] EXCEPT ![kind] = job.changes[kind]]
<1> SUFFICES ASSUME ~crossed' PROVE Sound'
  BY DEF Sound
<1>1. ~crossed /\ Writing(q)
  BY DEF WriteAdmin, Writing
<1>2. /\ job \in UpdateJob /\ job.target \in Known
      /\ account' = [account EXCEPT ![job.target] = next] /\ next \in Account
  BY WrittenRow DEF OperatorsInv
<1>3. \A p \in Request : ~Writing(p)'
  <2>1. request'[q].pc # "write" /\ \A p \in Request \ {q} : request'[p] = request[p]
    BY <1>2 DEF WriteAdmin, OperatorsInv, OperatorsTyped, Idle, UpdateJob
  <2>2. \A p \in Request \ {q} : ~Writing(p)
    BY <1>1 DEF OperatorsInv, Sound
  <2>3. QED BY <2>1, <2>2 DEF Writing
<1>4. \A a \in ActiveSuperAdmins \ {job.target} : a \in ActiveSuperAdmins'
  BY <1>2 DEF OperatorsInv, OperatorsTyped, ActiveSuperAdmins, Known
<1>5. job.target \in ActiveSuperAdmins /\ Retains(job) => job.target \in ActiveSuperAdmins'
  <2> SUFFICES ASSUME job.target \in ActiveSuperAdmins, Retains(job)
               PROVE  job.target \in ActiveSuperAdmins'
    OBVIOUS
  <2>1. account[job.target] \in Account /\ job.target \in Operator
    BY <1>2, KnownRows DEF OperatorsInv
  <2>2. account[job.target].role = "SUPER_ADMIN" /\ account[job.target].isActive
    BY DEF ActiveSuperAdmins
  <2>3. next.role = "SUPER_ADMIN" /\ next.isActive
    <3>1. CASE kind = "role"
      <4>1. next.role = job.changes.role /\ next.isActive = account[job.target].isActive
        BY <2>1, <3>1 DEF Account
      <4>2. job.changes.role = "SUPER_ADMIN"
        BY <3>1 DEF Retains
      <4>3. QED BY <4>1, <4>2, <2>2
    <3>2. CASE kind # "role"
      <4>1. kind = "isActive"
        BY <3>2 DEF Kind
      <4>2. next.isActive = job.changes.isActive /\ next.role = account[job.target].role
        BY <2>1, <4>1 DEF Account
      <4>3. job.changes.isActive
        BY <3>2 DEF Retains
      <4>4. QED BY <4>2, <4>3, <2>2
    <3>3. QED BY <3>1, <3>2
  <2>4. account'[job.target] = next /\ next # NoAccount
    <3>1. NoAccount \notin Account
      BY DEF NoAccount, Account
    <3>2. QED BY <1>2, <2>1, <3>1 DEF OperatorsInv, OperatorsTyped
  <2>5. QED BY <2>1, <2>3, <2>4 DEF ActiveSuperAdmins, Known
<1>6. Survived(q)
  BY <1>1 DEF OperatorsInv, Sound
<1>7. (ActiveSuperAdmins # {})'
  BY <1>4, <1>5, <1>6 DEF Survived
<1>8. QED BY <1>3, <1>7 DEF Sound

\* A creation takes nobody's rights.
LEMMA CreateAdminSound ==
  ASSUME OperatorsInv, NEW q \in Request, NEW answered \in BOOLEAN, CreateAdmin(q, answered)
  PROVE  Sound'
<1>1. ActiveSuperAdmins \subseteq ActiveSuperAdmins'
  BY CreateAdminTyped, RightsStay DEF OperatorsInv
<1>2. request' = [request EXCEPT ![q] = Idle] /\ UNCHANGED crossed
  BY DEF CreateAdmin
<1>3. \A p \in Request : Writing(p)' => Writing(p) /\ request'[p] = request[p]
  BY <1>2 DEF OperatorsInv, OperatorsTyped, Writing, Idle
<1>4. QED BY <1>1, <1>2, <1>3, SoundStays DEF OperatorsInv

-----------------------------------------------------------------------------
(***************************************************************************)
(* The theorems.                                                           *)
(***************************************************************************)
\* Every step keeps the invariant.
LEMMA OperatorsStep == OperatorsInv /\ [OperatorsNext]_operatorsVars => OperatorsInv'
<1> SUFFICES ASSUME OperatorsInv, [OperatorsNext]_operatorsVars PROVE OperatorsInv'
  OBVIOUS
<1>1. ASSUME NEW t \in Tab, NEW a \in Operator, Logout(t) \/ Reopen(t) \/ Login(t, a)
      PROVE  OperatorsInv'
  <2>1. OperatorsTyped' /\ UNCHANGED <<account, request, crossed>>
    BY <1>1, SessionTyped DEF OperatorsInv
  <2>2. Sound'
    BY <2>1 DEF OperatorsInv, Sound, ActiveSuperAdmins, Known, Writing, Survived, Retains, Kind
  <2>3. QED BY <2>1, <2>2 DEF OperatorsInv
<1>2. ASSUME NEW q \in Request, NEW t \in Tab, NEW a \in Operator, NEW changes \in Changes,
             UpdateAdmin(q, t, a, changes)
      PROVE  OperatorsInv'
  <2>1. PICK job : Arrive(q, t, job) /\ job.pc # "write"
    BY <1>2 DEF UpdateAdmin
  <2>2. QED BY <1>2, <2>1, UpdateAdminTyped, ArriveSound DEF OperatorsInv
<1>3. ASSUME NEW q \in Request, NEW t \in Tab, NEW a \in Operator, NEW role \in Role,
             CreateAdministrator(q, t, a, role)
      PROVE  OperatorsInv'
  <2>1. PICK job : Arrive(q, t, job) /\ job.pc # "write"
    BY <1>3 DEF CreateAdministrator
  <2>2. QED BY <1>3, <2>1, CreateAdministratorTyped, ArriveSound DEF OperatorsInv
<1>4. ASSUME NEW q \in Request, LockAdmin(q)
      PROVE  OperatorsInv'
  BY <1>4, LockAdminTyped, LockAdminSound DEF OperatorsInv
<1>5. ASSUME NEW q \in Request, WriteAdmin(q)
      PROVE  OperatorsInv'
  BY <1>5, WriteAdminTyped, WriteAdminSound DEF OperatorsInv
<1>6. ASSUME NEW q \in Request, NEW answered \in BOOLEAN, CreateAdmin(q, answered)
      PROVE  OperatorsInv'
  BY <1>6, CreateAdminTyped, CreateAdminSound DEF OperatorsInv
<1>7. CASE UNCHANGED operatorsVars
  BY <1>7 DEF operatorsVars, OperatorsInv, OperatorsTyped, Sound, ActiveSuperAdmins, Known, Writing,
              Survived, Retains, Kind
<1>8. First \in Operator
  BY OperatorsAssumption
<1>9. QED BY <1>1, <1>2, <1>3, <1>4, <1>5, <1>6, <1>7, <1>8 DEF OperatorsNext

\* As long as no two changes of accounts have overlapped, at most one is about to be
\* written, and it leaves somebody.
THEOREM OperatorsInvariant == OperatorsSpec => []OperatorsInv
<1>1. OperatorsInit => OperatorsInv
  BY OperatorsInitTyped
<1>2. OperatorsInv /\ [OperatorsNext]_operatorsVars => OperatorsInv'
  BY OperatorsStep
<1>3. QED BY <1>1, <1>2, PTL DEF OperatorsSpec

\* The check of the last super-admin (adminManagement.service.ts) does what it is
\* for whenever requests come one by one, with any number of operators, tabs and
\* tokens of accounts that lost their rights.
THEOREM SomeoneRunsAlways == OperatorsSpec => []SomeoneRunsUnlessCrossed
<1>1. OperatorsInv => SomeoneRunsUnlessCrossed
  BY DEF OperatorsInv, Sound, SomeoneRunsUnlessCrossed, SomeoneRuns
<1>2. QED BY <1>1, OperatorsInvariant, PTL

\* Nobody changes their own account, and no creation replaces one.
THEOREM ChangesAreOthersAlways == OperatorsSpec => ChangesAreOthers
<1> DEFINE Others ==
      \A a \in Known : account'[a] # account[a] =>
        /\ account'[a].held = account[a].held
        /\ \E q \in Request : /\ Writing(q) /\ request'[q] # request[q]
                              /\ request[q].target = a /\ request[q].by # a
<1>1. OperatorsTyped /\ [OperatorsNext]_operatorsVars => [Others]_account
  <2> SUFFICES ASSUME OperatorsTyped, OperatorsNext, account' # account
               PROVE  Others
    BY DEF operatorsVars
  <2>1. ASSUME NEW q \in Request, WriteAdmin(q)
        PROVE  Others
    <3>1. request[q] \in UpdateJob /\ Writing(q)
      BY <2>1, WrittenRow DEF WriteAdmin, Writing
    <3>2. request'[q] # request[q]
      <4> DEFINE again == [request[q] EXCEPT !.pc = "lock",
                             !.changes = Without(request[q].changes, Kind(request[q]))]
      <4>1. request' = [request EXCEPT ![q] = Idle] \/ request' = [request EXCEPT ![q] = again]
        BY <2>1 DEF WriteAdmin
      <4>2. Idle.pc # "write" /\ again.pc # "write"
        BY <3>1 DEF Idle, UpdateJob
      <4>3. QED BY <3>1, <4>1, <4>2 DEF OperatorsTyped, Writing
    <3>3. request[q].by # request[q].target
      BY <3>1 DEF OperatorsTyped
    <3>4. \A a \in Known : account'[a] # account[a] =>
            a = request[q].target /\ account'[a].held = account[a].held
      BY <2>1, WrittenRow DEF OperatorsTyped, Known
    <3>5. QED BY <3>1, <3>2, <3>3, <3>4
  <2>2. ASSUME NEW q \in Request, NEW answered \in BOOLEAN, CreateAdmin(q, answered)
        PROVE  Others
    BY <2>2, CreateAdminTyped
  <2>3. ASSUME NEW q \in Request, LockAdmin(q)
        PROVE  Others
    BY <2>3 DEF LockAdmin
  <2>4. QED
    BY <2>1, <2>2, <2>3
       DEF OperatorsNext, Logout, Reopen, Login, UpdateAdmin, CreateAdministrator, Arrive
<1>2. OperatorsInv => OperatorsTyped
  BY DEF OperatorsInv
<1>3. QED BY <1>1, <1>2, OperatorsInvariant, PTL DEF OperatorsSpec, ChangesAreOthers

\* Whoever begins a change is an active super-admin at that moment.
THEOREM RightsAreFreshAlways == OperatorsSpec => RightsAreFresh
<1> DEFINE Fresh == \A q \in Request : request[q] = Idle /\ request'[q] # Idle =>
                      request'[q].by \in ActiveSuperAdmins
<1>1. ASSUME OperatorsTyped, NEW q \in Request, NEW t \in Tab, NEW job, Arrive(q, t, job), job.by = token[Home[t]]
      PROVE  Fresh
  <2>1. request' = [request EXCEPT ![q] = job] /\ token[Home[t]] \in ActiveSuperAdmins
    BY <1>1 DEF Arrive, RequireSuperAdmin, RequireAdmin, ActiveSuperAdmins
  <2>2. QED BY <1>1, <2>1 DEF OperatorsTyped
<1>2. OperatorsTyped /\ [OperatorsNext]_operatorsVars => [Fresh]_request
  <2> SUFFICES ASSUME OperatorsTyped, OperatorsNext, request' # request
               PROVE  Fresh
    BY DEF operatorsVars
  <2>1. ASSUME NEW q \in Request, NEW t \in Tab, NEW a \in Operator, NEW changes \in Changes,
               UpdateAdmin(q, t, a, changes)
        PROVE  Fresh
    BY <2>1, <1>1 DEF UpdateAdmin
  <2>2. ASSUME NEW q \in Request, NEW t \in Tab, NEW a \in Operator, NEW role \in Role,
               CreateAdministrator(q, t, a, role)
        PROVE  Fresh
    BY <2>2, <1>1 DEF CreateAdministrator
  <2>3. ASSUME NEW q \in Request, request[q] # Idle, NEW next, request' = [request EXCEPT ![q] = next]
        PROVE  Fresh
    BY <2>3 DEF OperatorsTyped
  <2>4. ASSUME NEW q \in Request, LockAdmin(q) \/ WriteAdmin(q) \/ \E answered \in BOOLEAN : CreateAdmin(q, answered)
        PROVE  Fresh
    <3>1. request[q] # Idle
      <4>1. CASE LockAdmin(q)
        BY <4>1 DEF LockAdmin, Idle
      <4>2. CASE WriteAdmin(q)
        BY <4>2 DEF WriteAdmin, Idle
      <4>3. ASSUME NEW answered \in BOOLEAN, CreateAdmin(q, answered)
            PROVE  request[q] # Idle
        BY <4>3 DEF CreateAdmin, Idle
      <4>4. QED BY <2>4, <4>1, <4>2, <4>3
    <3>2. PICK next : request' = [request EXCEPT ![q] = next]
      BY <2>4 DEF LockAdmin, WriteAdmin, CreateAdmin
    <3>3. QED BY <2>3, <3>1, <3>2
  <2>5. QED BY <2>1, <2>2, <2>4 DEF OperatorsNext, Logout, Reopen, Login
<1>3. OperatorsInv => OperatorsTyped
  BY DEF OperatorsInv
<1>4. QED BY <1>2, <1>3, OperatorsInvariant, PTL DEF OperatorsSpec, RightsAreFresh

-----------------------------------------------------------------------------
(***************************************************************************)
(* Who tokens and tabs name.                                               *)
(***************************************************************************)
Named == Known \cup {"none"}

\* Tokens and tabs name accounts that exist, and no two requests write one row.
SessionsKnown ==
  /\ \A b \in Browser : token[b] \in Named
  /\ \A t \in Tab : shown[t] \in Named
  /\ \A q, p \in Request : q # p /\ Writing(q) /\ Writing(p) => request[q].target # request[p].target

\* Accounts are never removed.
LEMMA KnownStay ==
  ASSUME OperatorsTyped, [OperatorsNext]_operatorsVars
  PROVE  Known \subseteq Known'
<1>1. ASSUME NEW q \in Request, WriteAdmin(q) PROVE Known \subseteq Known'
  <2>1. NoAccount \notin Account
    BY DEF NoAccount, Account
  <2>2. QED BY <1>1, <2>1, WrittenRow DEF OperatorsTyped, Known
<1>2. ASSUME NEW q \in Request, NEW answered \in BOOLEAN, CreateAdmin(q, answered)
      PROVE  Known \subseteq Known'
  BY <1>2, CreateAdminTyped
<1>3. ASSUME account' = account PROVE Known \subseteq Known'
  BY <1>3 DEF Known
<1>4. ASSUME \/ \E t \in Tab : Logout(t) \/ Reopen(t) \/ \E a \in Operator : Login(t, a)
             \/ \E q \in Request :
                  \/ \E t \in Tab, a \in Operator :
                       \/ \E changes \in Changes : UpdateAdmin(q, t, a, changes)
                       \/ \E role \in Role : CreateAdministrator(q, t, a, role)
                  \/ LockAdmin(q)
             \/ UNCHANGED operatorsVars
      PROVE  account' = account
  BY <1>4 DEF Logout, Reopen, Login, UpdateAdmin, CreateAdministrator, Arrive, LockAdmin, operatorsVars
<1>5. QED BY <1>1, <1>2, <1>3, <1>4 DEF OperatorsNext

\* A step that leaves tokens and tabs alone, and starts writing no row.
LEMMA SessionsStay ==
  ASSUME SessionsKnown, Known \subseteq Known', UNCHANGED <<token, shown>>,
         \A q \in Request : Writing(q)' => Writing(q) /\ request'[q].target = request[q].target
  PROVE  SessionsKnown'
BY DEF SessionsKnown, Named

LEMMA SessionsHold ==
  ASSUME OperatorsInv, SessionsKnown, [OperatorsNext]_operatorsVars
  PROVE  SessionsKnown'
<1> USE DEF OperatorsInv
<1>1. OperatorsTyped /\ Known \subseteq Known' /\ Home \in [Tab -> Browser]
  BY KnownStay, OperatorsAssumption
<1>2. ASSUME NEW t \in Tab, NEW a \in Operator, Logout(t) \/ Reopen(t) \/ Login(t, a)
      PROVE  SessionsKnown'
  <2>1. UNCHANGED <<account, request>>
    BY <1>1, <1>2, SessionTyped
  <2>2. PICK n \in Named : /\ token' = [token EXCEPT ![Home[t]] = n] \/ token' = token
                           /\ shown' = [shown EXCEPT ![t] = n] \/ shown' = shown
    <3>1. CASE Logout(t)
      BY <3>1 DEF Logout, Named
    <3>2. CASE Reopen(t)
      <4>1. token[Home[t]] \in Named
        BY <1>1 DEF SessionsKnown
      <4>2. \/ shown' = [shown EXCEPT ![t] = token[Home[t]]] /\ token' = token
            \/ token' = [token EXCEPT ![Home[t]] = "none"] /\ shown' = shown
        BY <3>2 DEF Reopen
      <4>3. QED BY <4>1, <4>2 DEF Named
    <3>3. CASE Login(t, a)
      BY <3>3 DEF Login, Named
    <3>4. QED BY <1>2, <3>1, <3>2, <3>3
  <2>3. \A b \in Browser : token'[b] \in Named
    BY <1>1, <2>2 DEF OperatorsTyped, SessionsKnown
  <2>4. \A u \in Tab : shown'[u] \in Named
    BY <1>1, <2>2 DEF OperatorsTyped, SessionsKnown
  <2>5. Named' = Named
    BY <2>1 DEF Named, Known
  <2>6. QED BY <2>1, <2>3, <2>4, <2>5 DEF SessionsKnown, Writing
<1>3. ASSUME NEW q \in Request, NEW t \in Tab, NEW job, job.pc # "write", Arrive(q, t, job)
      PROVE  SessionsKnown'
  <2>1. \A p \in Request : Writing(p)' => Writing(p) /\ request'[p].target = request[p].target
    BY <1>1, <1>3 DEF Arrive, Writing, OperatorsTyped
  <2>2. QED BY <1>1, <1>3, <2>1, SessionsStay DEF Arrive
<1>4. ASSUME NEW q \in Request, LockAdmin(q) PROVE SessionsKnown'
  <2>1. UNCHANGED <<account, token, shown>> /\ ~LockedByOther(q)
    BY <1>4 DEF LockAdmin
  <2>2. PICK next : /\ request' = [request EXCEPT ![q] = next]
                    /\ next = Idle \/ next.target = request[q].target
    <3>1. [request[q] EXCEPT !.pc = "write"].target = request[q].target
      BY <1>1, <1>4, JobOfPc DEF LockAdmin, UpdateJob
    <3>2. QED BY <1>4, <3>1 DEF LockAdmin
  <2>3. request'[q] = next /\ \A p \in Request \ {q} : request'[p] = request[p]
    BY <1>1, <2>2 DEF OperatorsTyped
  <2>4. \A p \in Request \ {q} : Writing(p) => request[p].target # request[q].target
    BY <2>1 DEF LockedByOther
  <2>5. ASSUME Writing(q)' PROVE request'[q].target = request[q].target
    BY <2>2, <2>3, <2>5 DEF Writing, Idle
  <2>6. \A p, r \in Request : p # r /\ Writing(p)' /\ Writing(r)' => request'[p].target # request'[r].target
    BY <2>3, <2>4, <2>5 DEF SessionsKnown, Writing
  <2>7. QED BY <2>1, <2>6 DEF SessionsKnown, Named, Known
<1>5. ASSUME NEW q \in Request, NEW next, next.pc # "write", request' = [request EXCEPT ![q] = next],
             UNCHANGED <<token, shown>>
      PROVE  SessionsKnown'
  <2>1. \A p \in Request : Writing(p)' => Writing(p) /\ request'[p].target = request[p].target
    BY <1>1, <1>5 DEF Writing, OperatorsTyped
  <2>2. QED BY <1>1, <1>5, <2>1, SessionsStay
<1>6. ASSUME NEW q \in Request, WriteAdmin(q) \/ \E answered \in BOOLEAN : CreateAdmin(q, answered)
      PROVE  SessionsKnown'
  <2>1. UNCHANGED <<token, shown>>
    BY <1>6 DEF WriteAdmin, CreateAdmin
  <2>2. CASE request' = [request EXCEPT ![q] = Idle]
    BY <1>5, <2>1, <2>2 DEF Idle
  <2>3. CASE WriteAdmin(q) /\ request' # [request EXCEPT ![q] = Idle]
    <3> DEFINE again == [request[q] EXCEPT !.pc = "lock", !.changes = Without(request[q].changes, Kind(request[q]))]
    <3>1. request' = [request EXCEPT ![q] = again]
      BY <2>3 DEF WriteAdmin
    <3>2. again.pc = "lock"
      BY <2>3, WrittenRow DEF UpdateJob
    <3> HIDE DEF again
    <3>3. QED BY <1>5, <2>1, <3>1, <3>2
  <2>4. QED BY <1>6, <2>2, <2>3 DEF CreateAdmin
<1>7. ASSUME NEW q \in Request, NEW t \in Tab, NEW a \in Operator,
             \/ \E changes \in Changes : UpdateAdmin(q, t, a, changes)
             \/ \E role \in Role : CreateAdministrator(q, t, a, role)
      PROVE  \E job : job.pc # "write" /\ Arrive(q, t, job)
  BY <1>7 DEF UpdateAdmin, CreateAdministrator
<1>8. CASE UNCHANGED operatorsVars
  BY <1>8 DEF operatorsVars, SessionsKnown, Named, Known, Writing
<1>9. QED BY <1>2, <1>3, <1>4, <1>6, <1>7, <1>8, OperatorsAssumption DEF OperatorsNext

\* Accounts have their shape, tokens and tabs name accounts that exist, and no two
\* requests are about to write one row.
LEMMA OperatorsTypeCorrect == OperatorsSpec => []OperatorsTypeOK
<1>1. OperatorsInit => SessionsKnown
  BY DEF OperatorsInit, SessionsKnown, Named, Writing, Idle
<1>2. OperatorsInv /\ SessionsKnown /\ [OperatorsNext]_operatorsVars => SessionsKnown'
  BY SessionsHold
<1>3. OperatorsSpec => []SessionsKnown
  BY <1>1, <1>2, OperatorsInvariant, PTL DEF OperatorsSpec
<1>4. OperatorsInv /\ SessionsKnown => OperatorsTypeOK
  <2> SUFFICES ASSUME OperatorsInv, SessionsKnown PROVE OperatorsTypeOK
    OBVIOUS
  <2>1. \A q \in Request : request[q].pc \in {"idle", "lock", "write", "create"}
    BY DEF OperatorsInv, OperatorsTyped, Idle, UpdateJob, CreateJob
  <2>2. QED BY <2>1 DEF OperatorsInv, OperatorsTyped, SessionsKnown, Named, OperatorsTypeOK
<1>5. QED BY <1>3, <1>4, OperatorsInvariant, PTL
=============================================================================
