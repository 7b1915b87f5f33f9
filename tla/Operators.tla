----------------------------- MODULE Operators -----------------------------
(***************************************************************************)
(* Operator accounts and their sessions.                                   *)
(*                                                                         *)
(* An account is known by its mail address.  A token is stateless and      *)
(* names an account; a request looks the account up when it arrives and    *)
(* carries the role it found then.  The tabs of a browser share the token  *)
(* in storage, while each tab remembers who signed in.  A change of an     *)
(* account locks the target's row only, counts the super-admins, then      *)
(* writes: transactions on different rows run side by side.                *)
(***************************************************************************)
EXTENDS Naturals, FiniteSets

CONSTANTS Operator,     \* mail addresses of operators
          First,        \* the super-admin the seed script creates
          Browser, Tab,
          Home,         \* the browser of each tab
          Request,      \* requests that may run at the same time
          MaxRequests   \* bound: requests that change an account

ASSUME OperatorsAssumption ==
  /\ First \in Operator /\ Home \in [Tab -> Browser] /\ MaxRequests \in Nat

VARIABLES account,   \* [Operator -> its role, whether it is active and its password is known]
          token,     \* [Browser -> the account the stored token names, or "none"]
          shown,     \* [Tab -> who the tab says is signed in, or "none"]
          request,   \* [Request -> what it is doing]
          asked,     \* requests started
          crossed    \* two requests have changed accounts at the same time

operatorsVars == <<account, token, shown, request, asked, crossed>>

Role == {"SUPER_ADMIN", "REVIEWER"}
Account == [role : Role, isActive : BOOLEAN, held : BOOLEAN]
NoAccount == [role |-> "NONE"]
Idle == [pc |-> "idle"]

Known == {a \in Operator : account[a] # NoAccount}
ActiveSuperAdmins == {a \in Known : account[a].role = "SUPER_ADMIN" /\ account[a].isActive}

OperatorsInit ==
  /\ account = [a \in Operator |->
       IF a = First THEN [role |-> "SUPER_ADMIN", isActive |-> TRUE, held |-> TRUE] ELSE NoAccount]
  /\ token = [b \in Browser |-> "none"]
  /\ shown = [t \in Tab |-> "none"]
  /\ request = [q \in Request |-> Idle]
  /\ asked = 0
  /\ crossed = FALSE

-----------------------------------------------------------------------------
\* Sessions.  Whoever knows the password of an active account gets a token; it is
\* never revoked, so an expired token is one whose browser signed out.
Login(t, a) ==
  /\ shown[t] = "none"
  /\ a \in Known /\ account[a].isActive /\ account[a].held
  /\ token' = [token EXCEPT ![Home[t]] = a]
  /\ shown' = [shown EXCEPT ![t] = a]
  /\ UNCHANGED <<account, request, asked, crossed>>

Logout(t) ==
  /\ shown[t] # "none"
  /\ token' = [token EXCEPT ![Home[t]] = "none"]
  /\ shown' = [shown EXCEPT ![t] = "none"]
  /\ UNCHANGED <<account, request, asked, crossed>>

\* The account behind a token is loaded anew for every request.
RequireAdmin(b) == token[b] \in Known /\ account[token[b]].isActive

\* Variant: the role is taken from the token, as it was when it was signed.
RequireSuperAdminOfToken(b) == RequireAdmin(b)

RequireSuperAdmin(b) == RequireAdmin(b) /\ account[token[b]].role = "SUPER_ADMIN"

\* A page that is opened with a stored token asks who it names.
Reopen(t) ==
  LET b == Home[t]
  IN  /\ shown[t] = "none" /\ token[b] # "none"
      /\ IF RequireAdmin(b) THEN /\ shown' = [shown EXCEPT ![t] = token[b]]
                                 /\ UNCHANGED token
                            ELSE token' = [token EXCEPT ![b] = "none"] /\ UNCHANGED shown
      /\ UNCHANGED <<account, request, asked, crossed>>

-----------------------------------------------------------------------------
\* A request arrives from a tab that shows somebody signed in.
Arrive(q, t, job) ==
  /\ request[q] = Idle /\ asked < MaxRequests
  /\ shown[t] # "none"
  /\ RequireSuperAdmin(Home[t])
  /\ asked' = asked + 1
  /\ request' = [request EXCEPT ![q] = job]
  /\ UNCHANGED <<account, token, shown, crossed>>

\* The page disables the row of the operator it shows, the server the actor's own.
UpdateAdmin(q, t, target, changes) ==
  /\ target \in Known \ {shown[t], token[Home[t]]}
  /\ Arrive(q, t, [pc |-> "lock", by |-> token[Home[t]], seen |-> shown[t],
                   target |-> target, changes |-> changes])

\* Changes of one request are applied one after another, the role first.
Kind(job) == IF "role" \in DOMAIN job.changes THEN "role" ELSE "isActive"
Without(changes, kind) == [k \in DOMAIN changes \ {kind} |-> changes[k]]

\* Variant: the last super-admin may be switched off.
SurvivesDemotionOnly(target, next) ==
  target \notin ActiveSuperAdmins \/ next.role = "SUPER_ADMIN" \/ Cardinality(ActiveSuperAdmins) > 1

AssertEstateSurvives(target, next) ==
  \/ target \notin ActiveSuperAdmins
  \/ next.role = "SUPER_ADMIN" /\ next.isActive
  \/ Cardinality(ActiveSuperAdmins) > 1

Writing(q) == request[q].pc = "write"
LockedByOther(q) == \E p \in Request \ {q} : Writing(p) /\ request[p].target = request[q].target

\* The target's row is locked, the change has to be one, and the estate to survive it.
LockAdmin(q) ==
  LET job == request[q]
      row == account[job.target]
      kind == Kind(job)
      next == [row EXCEPT ![kind] = job.changes[kind]]
  IN  /\ job.pc = "lock" /\ ~LockedByOther(q)
      /\ crossed' = (crossed \/ \E p \in Request \ {q} : Writing(p))
      /\ request' = [request EXCEPT ![q] =
           IF next # row /\ AssertEstateSurvives(job.target, next)
             THEN [job EXCEPT !.pc = "write"] ELSE Idle]
      /\ UNCHANGED <<account, token, shown, asked>>

WriteAdmin(q) ==
  LET job == request[q]
      kind == Kind(job)
      rest == Without(job.changes, kind)
  IN  /\ job.pc = "write"
      /\ account' = [account EXCEPT ![job.target][kind] = job.changes[kind]]
      /\ request' = [request EXCEPT ![q] =
           IF DOMAIN rest = {} THEN Idle ELSE [job EXCEPT !.pc = "lock", !.changes = rest]]
      /\ UNCHANGED <<token, shown, asked, crossed>>

\* A new operator: the address is looked up, then inserted under its unique index.
\* The password is in the answer and nowhere else; the answer may be lost.
CreateAdministrator(q, t, a, role) ==
  /\ a \notin Known
  /\ Arrive(q, t, [pc |-> "create", by |-> token[Home[t]], seen |-> shown[t], target |-> a, role |-> role])

\* Variant: nothing but the look-up guards the address.
CreateAdminAnyway(q, answered) ==
  LET job == request[q]
  IN  /\ job.pc = "create"
      /\ account' = [account EXCEPT ![job.target] =
           [role |-> job.role, isActive |-> TRUE, held |-> answered]]
      /\ request' = [request EXCEPT ![q] = Idle]
      /\ UNCHANGED <<token, shown, asked, crossed>>

CreateAdmin(q, answered) ==
  LET job == request[q]
  IN  /\ job.pc = "create"
      /\ account' = IF job.target \in Known THEN account
                    ELSE [account EXCEPT ![job.target] =
                            [role |-> job.role, isActive |-> TRUE, held |-> answered]]
      /\ request' = [request EXCEPT ![q] = Idle]
      /\ UNCHANGED <<token, shown, asked, crossed>>

Changes == {[role |-> r] : r \in Role} \cup {[isActive |-> b] : b \in BOOLEAN}
           \cup [role : Role, isActive : BOOLEAN]

OperatorsNext ==
  \/ \E t \in Tab : Logout(t) \/ Reopen(t) \/ \E a \in Operator : Login(t, a)
  \/ \E q \in Request :
       \/ \E t \in Tab, a \in Operator :
            \/ \E changes \in Changes : UpdateAdmin(q, t, a, changes)
            \/ \E role \in Role : CreateAdministrator(q, t, a, role)
       \/ LockAdmin(q) \/ WriteAdmin(q)
       \/ \E answered \in BOOLEAN : CreateAdmin(q, answered)

OperatorsSpec == OperatorsInit /\ [][OperatorsNext]_operatorsVars
=============================================================================
