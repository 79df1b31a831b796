--------------------------- MODULE AccountsProofs ---------------------------
(***************************************************************************)
(* Proofs about Accounts, for any users, sessions and requests: the        *)
(* inductive invariant, that the configured owner is recognised, that a    *)
(* revoked session stays revoked and that an owner remains.                *)
(***************************************************************************)
EXTENDS Accounts, TLAPS

-----------------------------------------------------------------------------
(* What every step preserves of what the requests in progress rely on.     *)

\* accounts, rows of the role and sessions are never deleted
Advance ==
    /\ \A u \in Users : account[u] # "none" => account'[u] # "none"
    /\ \A u \in Users : role[u] # "absent" => role'[u] # "absent"
    /\ \A t \in Tokens : session[t].state # "none" =>
          session'[t].state # "none" /\ session'[t].user = session[t].user

\* the step of the request in slot s alone
Step(s) ==
    /\ TypeOK' /\ Advance /\ OwnerIsRecognised' /\ JobIsSound(s)'
    /\ \A r \in Slots \ {s} : job'[r] = job[r]

LEMMA JobFields ==
    ASSUME TypeOK, NEW s \in Slots
    PROVE  /\ job[s] \in Job /\ job[s].pc \in Pc
           /\ job[s].user \in Users \cup {NoUser} /\ job[s].target \in Users \cup {NoUser}
           /\ job[s].token \in Tokens \cup {NoToken} /\ job[s].tokens \subseteq Tokens
           /\ job[s].was \in {"absent", "active", "inactive"}
BY DEF TypeOK, Job

LEMMA KeptJob ==
    ASSUME IInv, Advance, NEW r \in Slots, job'[r] = job[r]
    PROVE  JobIsSound(r)'
<1>1. JobIsSound(r) /\ job[r].tokens \subseteq Tokens /\ OwnerMail \in Users
  BY OwnerAssumption, JobFields DEF IInv, JobsAreSound
<1> QED
  BY <1>1 DEF JobIsSound, Advance, Removals

LEMMA StepKeeps ==
    ASSUME IInv, NEW s \in Slots, Step(s)
    PROVE  IInv'
<1>1. \A r \in Slots : JobIsSound(r)'
  BY KeptJob DEF Step
<1> QED
  BY <1>1 DEF IInv, Step, JobsAreSound

\* a step that only changes what one request knows
LEMMA JobStep ==
    ASSUME IInv, NEW s \in Slots, UNCHANGED <<account, role, session>>,
           NEW j \in Job, job' = [job EXCEPT ![s] = j], JobIsSound(s)'
    PROVE  IInv'
<1>1. TypeOK' /\ Advance /\ OwnerIsRecognised'
  BY DEF IInv, TypeOK, Advance, OwnerIsRecognised
<1>2. \A r \in Slots \ {s} : job'[r] = job[r]
  BY DEF IInv, TypeOK
<1> QED
  BY <1>1, <1>2, StepKeeps DEF Step

LEMMA IdleJob == NoJob \in Job /\ NoJob.pc = "idle"
BY DEF NoJob, Job, Pc

LEMMA IdleIsSound ==
    ASSUME NEW s \in Slots, job'[s] = NoJob
    PROVE  JobIsSound(s)'
BY IdleJob DEF JobIsSound, Removals

-----------------------------------------------------------------------------
(* The actions                                                             *)

LEMMA LoadRegisterKeeps ==
    ASSUME IInv, NEW s \in Slots, NEW u \in Users, LoadRegister(s, u)
    PROVE  IInv'
<1> DEFINE j == [NoJob EXCEPT !.pc = "register", !.user = u]
<1>1. j \in Job /\ j.pc = "register" /\ j.user = u
  BY DEF NoJob, Job, Pc
<1>2. job' = [job EXCEPT ![s] = j] /\ job'[s] = j
  BY DEF LoadRegister, IInv, TypeOK
<1> HIDE DEF j
<1>3. JobIsSound(s)'
  BY <1>1, <1>2 DEF JobIsSound, Removals
<1> QED
  BY <1>1, <1>2, <1>3, JobStep DEF LoadRegister

LEMMA CommitRegisterKeeps ==
    ASSUME IInv, NEW s \in Slots, CommitRegister(s)
    PROVE  IInv'
<1> DEFINE u == job[s].user
           j == [job[s] EXCEPT !.pc = "ensure", !.was = role[u]]
<1>1. /\ u \in Users /\ TypeOK /\ OwnerIsRecognised /\ job[s] \in Job
      /\ role[u] \in {"absent", "active", "inactive"}
  BY DEF IInv, JobsAreSound, JobIsSound, CommitRegister, TypeOK
<1>2. CASE account[u] = "none" /\ account' = [account EXCEPT ![u] = "active"]
           /\ job' = [job EXCEPT ![s].pc = "ensure", ![s].was = role[u]]
  <2>1. UNCHANGED <<role, session>>
    BY DEF CommitRegister
  <2>2. j \in Job /\ j.pc = "ensure" /\ j.was = role[u] /\ j.user = u
    BY <1>1 DEF Job, Pc
  <2>3. job' = [job EXCEPT ![s] = j] /\ job'[s] = j
    BY <1>1, <1>2 DEF TypeOK
  <2> HIDE DEF j
  <2>4. TypeOK'
    BY <1>1, <1>2, <2>1, <2>2, <2>3 DEF TypeOK
  <2>5. Advance /\ OwnerIsRecognised'
    BY <1>1, <1>2, <2>1 DEF Advance, OwnerIsRecognised, TypeOK
  <2>6. JobIsSound(s)'
    BY <1>1, <1>2, <2>1, <2>2, <2>3 DEF JobIsSound, Removals, TypeOK
  <2> QED
    BY <1>1, <2>3, <2>4, <2>5, <2>6, StepKeeps DEF Step, TypeOK
<1>3. CASE account[u] # "none" /\ Close(s) /\ UNCHANGED account
  BY <1>3, <1>1, IdleJob, IdleIsSound, JobStep DEF CommitRegister, Close, TypeOK
<1> QED
  BY <1>2, <1>3 DEF CommitRegister

LEMMA LoadLoginKeeps ==
    ASSUME IInv, NEW s \in Slots, NEW u \in Users, LoadLogin(s, u)
    PROVE  IInv'
<1> DEFINE j == [NoJob EXCEPT !.pc = "ensure", !.user = u, !.was = role[u]]
<1>1. role[u] \in {"absent", "active", "inactive"}
  BY DEF IInv, TypeOK
<1>2. j \in Job /\ j.pc = "ensure" /\ j.user = u /\ j.was = role[u]
  BY <1>1 DEF NoJob, Job, Pc
<1>3. job' = [job EXCEPT ![s] = j] /\ job'[s] = j
  BY DEF LoadLogin, IInv, TypeOK
<1> HIDE DEF j
<1>4. JobIsSound(s)'
  BY <1>2, <1>3 DEF JobIsSound, Removals, LoadLogin
<1> QED
  BY <1>2, <1>3, <1>4, JobStep DEF LoadLogin

\* a step of a request that goes on
LEMMA GoesOn ==
    ASSUME IInv, NEW s \in Slots, NEW j \in Job, job' = [job EXCEPT ![s] = j],
           account' \in [Users -> {"none", "active", "inactive"}],
           role' \in [Users -> {"absent", "active", "inactive"}],
           session' \in [Tokens -> [user : Users \cup {NoUser},
                                    state : {"none", "live", "revoked", "expired"}]],
           Advance, OwnerIsRecognised', JobIsSound(s)'
    PROVE  IInv'
BY StepKeeps DEF Step, IInv, TypeOK

LEMMA Ends ==
    ASSUME IInv, NEW s \in Slots, Close(s),
           account' \in [Users -> {"none", "active", "inactive"}],
           role' \in [Users -> {"absent", "active", "inactive"}],
           session' \in [Tokens -> [user : Users \cup {NoUser},
                                    state : {"none", "live", "revoked", "expired"}]],
           Advance, OwnerIsRecognised'
    PROVE  IInv'
<1>1. job' = [job EXCEPT ![s] = NoJob] /\ job'[s] = NoJob
  BY DEF Close, IInv, TypeOK
<1> QED
  BY <1>1, IdleJob, IdleIsSound, GoesOn

LEMMA EnsureOwnerKeeps ==
    ASSUME IInv, NEW s \in Slots, EnsureOwner(s)
    PROVE  IInv'
<1> DEFINE u == job[s].user
           j == [job[s] EXCEPT !.pc = "open"]
<1>1. /\ u \in Users /\ TypeOK /\ OwnerIsRecognised /\ job[s] \in Job
      /\ account[u] # "none"
      /\ job[s].was # "absent" => role[u] # "absent"
      /\ UNCHANGED <<account, session>>
  BY DEF IInv, JobsAreSound, JobIsSound, EnsureOwner, TypeOK
<1>2. j \in Job /\ j.pc = "open" /\ j.user = u
  BY <1>1 DEF Job, Pc
<1>3. CASE /\ u # OwnerMail \/ job[s].was = "active"
           /\ job' = [job EXCEPT ![s].pc = "open"]
           /\ UNCHANGED role
  <2>1. job' = [job EXCEPT ![s] = j] /\ job'[s] = j
    BY <1>1, <1>3 DEF TypeOK
  <2> HIDE DEF j
  <2>2. JobIsSound(s)'
    BY <1>1, <1>2, <1>3, <2>1 DEF JobIsSound, Removals
  <2> QED
    BY <1>1, <1>2, <1>3, <2>1, <2>2, JobStep
<1>4. CASE /\ role' = [role EXCEPT ![u] = "active"]
           /\ job' = [job EXCEPT ![s].pc = "open"]
  <2>1. job' = [job EXCEPT ![s] = j] /\ job'[s] = j
    BY <1>1, <1>4 DEF TypeOK
  <2> HIDE DEF j
  <2>2. JobIsSound(s)'
    BY <1>1, <1>2, <1>4, <2>1 DEF JobIsSound, Removals, TypeOK
  <2>3. role' \in [Users -> {"absent", "active", "inactive"}]
        /\ Advance /\ OwnerIsRecognised'
    BY <1>1, <1>4 DEF Advance, OwnerIsRecognised, TypeOK
  <2> QED
    BY <1>1, <1>2, <2>1, <2>2, <2>3, GoesOn DEF TypeOK
<1>5. CASE Close(s) /\ UNCHANGED role
  BY <1>1, <1>5, Ends DEF Advance, OwnerIsRecognised, TypeOK
<1> QED
  BY <1>3, <1>4, <1>5 DEF EnsureOwner

LEMMA OpenSessionKeeps ==
    ASSUME IInv, NEW s \in Slots, OpenSession(s)
    PROVE  IInv'
<1>1. PICK t \in Tokens :
        /\ session[t].state = "none"
        /\ session' = [session EXCEPT ![t] = [user |-> job[s].user, state |-> "live"]]
  BY DEF OpenSession
<1>2. /\ job[s].user \in Users /\ account[job[s].user] # "none"
      /\ job[s].user = OwnerMail => role[OwnerMail] # "absent"
      /\ TypeOK /\ OwnerIsRecognised /\ Close(s) /\ UNCHANGED <<account, role>>
  BY DEF IInv, JobsAreSound, JobIsSound, OpenSession
<1>3. session' \in [Tokens -> [user : Users \cup {NoUser},
                               state : {"none", "live", "revoked", "expired"}]]
  BY <1>1, <1>2 DEF TypeOK
<1>4. Advance
  BY <1>1, <1>2 DEF Advance, TypeOK
<1>5. OwnerIsRecognised'
  BY <1>1, <1>2 DEF OwnerIsRecognised, TypeOK
<1> QED
  BY <1>2, <1>3, <1>4, <1>5, Ends DEF TypeOK

LEMMA LoadSessionKeeps ==
    ASSUME IInv, NEW s \in Slots, NEW t \in Tokens, LoadSession(s, t)
    PROVE  IInv'
<1> DEFINE j == [NoJob EXCEPT !.pc = "seen", !.token = t]
<1>1. j \in Job /\ j.pc = "seen" /\ j.token = t
  BY DEF NoJob, Job, Pc
<1>2. job' = [job EXCEPT ![s] = j] /\ job'[s] = j
  BY DEF LoadSession, IInv, TypeOK
<1> HIDE DEF j
<1>3. JobIsSound(s)'
  BY <1>1, <1>2 DEF JobIsSound, Removals, LoadSession, Live
<1> QED
  BY <1>1, <1>2, <1>3, JobStep DEF LoadSession

LEMMA SaveSeenKeeps ==
    ASSUME IInv, NEW s \in Slots, SaveSeen(s)
    PROVE  IInv'
<1> DEFINE u == session[job[s].token].user
           j == [job[s] EXCEPT !.pc = "signed", !.user = u]
<1>1. /\ TypeOK /\ OwnerIsRecognised /\ job[s] \in Job
      /\ job[s].token \in Tokens /\ u \in Users \cup {NoUser}
      /\ UNCHANGED <<account, role, session>>
  BY DEF IInv, JobsAreSound, JobIsSound, SaveSeen, TypeOK, Seen
<1>2. CASE account[u] = "active" /\ job' = [job EXCEPT ![s].pc = "signed", ![s].user = u]
  <2>1. u \in Users
    BY <1>1 DEF OwnerIsRecognised, IInv, JobsAreSound, JobIsSound, SaveSeen
  <2>2. j \in Job /\ j.pc = "signed" /\ j.user = u
    BY <1>1 DEF Job, Pc
  <2>3. job' = [job EXCEPT ![s] = j] /\ job'[s] = j
    BY <1>1, <1>2 DEF TypeOK
  <2> HIDE DEF j
  <2>4. JobIsSound(s)'
    BY <2>1, <2>2, <2>3 DEF JobIsSound, Removals
  <2> QED
    BY <1>1, <2>2, <2>3, <2>4, JobStep
<1>3. CASE Close(s)
  BY <1>1, <1>3, Ends DEF Advance, OwnerIsRecognised, TypeOK
<1> QED
  BY <1>2, <1>3 DEF SaveSeen

LEMMA LoadRevocationKeeps ==
    ASSUME IInv, NEW s \in Slots, LoadRevocation(s)
    PROVE  IInv'
<1>1. PICK T \in SUBSET Tokens :
        /\ \A t \in T : session[t].state = "live"
        /\ job' = [job EXCEPT ![s].pc = "revoke", ![s].tokens = T]
  BY DEF LoadRevocation, LiveOf, Live
<1> DEFINE j == [job[s] EXCEPT !.pc = "revoke", !.tokens = T]
<1>2. job[s] \in Job /\ job[s].user \in Users /\ TypeOK
  BY DEF IInv, JobsAreSound, JobIsSound, LoadRevocation, TypeOK
<1>3. j \in Job /\ j.pc = "revoke" /\ j.user \in Users /\ j.tokens = T
  BY <1>2 DEF Job, Pc
<1>4. job' = [job EXCEPT ![s] = j] /\ job'[s] = j
  BY <1>1, <1>2 DEF TypeOK
<1> HIDE DEF j
<1>5. JobIsSound(s)'
  BY <1>1, <1>3, <1>4 DEF JobIsSound, Removals, LoadRevocation
<1> QED
  BY <1>3, <1>4, <1>5, JobStep DEF LoadRevocation

LEMMA CommitRevocationKeeps ==
    ASSUME IInv, NEW s \in Slots, CommitRevocation(s)
    PROVE  IInv'
<1>1. /\ \A t \in job[s].tokens : session[t].state # "none"
      /\ TypeOK /\ OwnerIsRecognised /\ Close(s) /\ UNCHANGED <<account, role>>
      /\ session' = Revoked(job[s].tokens)
  BY DEF IInv, JobsAreSound, JobIsSound, CommitRevocation
<1>2. /\ session' \in [Tokens -> [user : Users \cup {NoUser},
                                  state : {"none", "live", "revoked", "expired"}]]
      /\ \A t \in Tokens : session'[t].user = session[t].user
                          /\ (session'[t].state = "none" <=> session[t].state = "none")
  BY <1>1 DEF TypeOK, Revoked
<1>3. Advance /\ OwnerIsRecognised'
  BY <1>1, <1>2 DEF Advance, OwnerIsRecognised
<1> QED
  BY <1>1, <1>2, <1>3, Ends DEF TypeOK

LEMMA LoadGrantKeeps ==
    ASSUME IInv, NEW s \in Slots, NEW u \in Users, LoadGrant(s, u)
    PROVE  IInv'
<1> DEFINE j == [job[s] EXCEPT !.pc = "grant", !.target = u, !.was = role[u]]
<1>1. job[s] \in Job /\ job[s].user \in Users /\ TypeOK
      /\ role[u] \in {"absent", "active", "inactive"}
  BY DEF IInv, JobsAreSound, JobIsSound, LoadGrant, TypeOK
<1>2. j \in Job /\ j.pc = "grant" /\ j.user \in Users /\ j.target = u
  BY <1>1 DEF Job, Pc
<1>3. job' = [job EXCEPT ![s] = j] /\ job'[s] = j
  BY <1>1 DEF TypeOK, LoadGrant
<1> HIDE DEF j
<1>4. JobIsSound(s)'
  BY <1>2, <1>3 DEF JobIsSound, Removals, LoadGrant
<1> QED
  BY <1>2, <1>3, <1>4, JobStep DEF LoadGrant

LEMMA CommitGrantKeeps ==
    ASSUME IInv, NEW s \in Slots, CommitGrant(s)
    PROVE  IInv'
<1>1. /\ job[s].target \in Users /\ account[job[s].target] # "none"
      /\ TypeOK /\ OwnerIsRecognised /\ Close(s) /\ UNCHANGED <<account, session>>
  BY DEF IInv, JobsAreSound, JobIsSound, CommitGrant
<1>2. role' \in [Users -> {"absent", "active", "inactive"}]
      /\ Advance /\ OwnerIsRecognised'
  BY <1>1 DEF CommitGrant, TypeOK, Advance, OwnerIsRecognised
<1> QED
  BY <1>1, <1>2, Ends DEF TypeOK

LEMMA LoadRemovalKeeps ==
    ASSUME IInv, NEW s \in Slots, NEW u \in Users, LoadRemoval(s, u)
    PROVE  IInv'
<1>1. PICK pc \in Removals :
        /\ pc = "revoke_role" => MayRevoke(job[s].user, u)
        /\ pc = "deactivate"  => MayDeactivate(job[s].user, u)
        /\ job' = [job EXCEPT ![s].pc = pc, ![s].target = u, ![s].was = role[u]]
  BY DEF LoadRemoval
<1> DEFINE j == [job[s] EXCEPT !.pc = pc, !.target = u, !.was = role[u]]
<1>2. /\ job[s] \in Job /\ job[s].user \in Users /\ TypeOK /\ OwnerIsRecognised
      /\ role[u] \in {"absent", "active", "inactive"}
      /\ UNCHANGED <<account, role, session>>
  BY DEF IInv, JobsAreSound, JobIsSound, LoadRemoval, TypeOK
<1>3. /\ j \in Job /\ j.pc = pc /\ j.user = job[s].user /\ j.target = u
      /\ j.was = role[u]
  BY <1>1, <1>2 DEF Job, Pc, Removals
<1>4. job' = [job EXCEPT ![s] = j] /\ job'[s] = j
  BY <1>1, <1>2 DEF TypeOK
<1>5. account[u] # "none"
  BY <1>1, <1>2 DEF Removals, MayRevoke, MayDeactivate, OwnerRole, OwnerIsRecognised
<1> HIDE DEF j
<1>6. JobIsSound(s)'
  BY <1>1, <1>2, <1>3, <1>4, <1>5
  DEF JobIsSound, Removals, MayRevoke, MayDeactivate, OwnerRole
<1> QED
  BY <1>2, <1>3, <1>4, <1>6, JobStep

LEMMA CommitRevokeRoleKeeps ==
    ASSUME IInv, NEW s \in Slots, CommitRevokeRole(s)
    PROVE  IInv'
<1>1. /\ job[s].target \in Users /\ account[job[s].target] # "none"
      /\ TypeOK /\ OwnerIsRecognised /\ Close(s) /\ UNCHANGED <<account, session>>
  BY DEF IInv, JobsAreSound, JobIsSound, CommitRevokeRole, Removals
<1>2. role' \in [Users -> {"absent", "active", "inactive"}]
      /\ Advance /\ OwnerIsRecognised'
  BY <1>1 DEF CommitRevokeRole, TypeOK, Advance, OwnerIsRecognised
<1> QED
  BY <1>1, <1>2, Ends DEF TypeOK

LEMMA CommitStatusKeeps ==
    ASSUME IInv, NEW s \in Slots, CommitDeactivate(s) \/ CommitActivation(s)
    PROVE  IInv'
<1>1. /\ job[s].target \in Users
      /\ TypeOK /\ OwnerIsRecognised /\ Close(s) /\ UNCHANGED <<role, session>>
  BY DEF IInv, JobsAreSound, JobIsSound, CommitDeactivate, CommitActivation, Removals
<1>2. account' \in [Users -> {"none", "active", "inactive"}]
      /\ Advance /\ OwnerIsRecognised'
  BY <1>1 DEF CommitDeactivate, CommitActivation, TypeOK, Advance, OwnerIsRecognised
<1> QED
  BY <1>1, <1>2, Ends DEF TypeOK

LEMMA LoadActivationKeeps ==
    ASSUME IInv, NEW s \in Slots, NEW u \in Users, LoadActivation(s, u)
    PROVE  IInv'
<1> DEFINE j == [job[s] EXCEPT !.pc = "activate", !.target = u]
<1>1. job[s] \in Job /\ job[s].user \in Users /\ TypeOK
  BY DEF IInv, JobsAreSound, JobIsSound, LoadActivation, TypeOK
<1>2. j \in Job /\ j.pc = "activate" /\ j.user \in Users /\ j.target = u
  BY <1>1 DEF Job, Pc
<1>3. job' = [job EXCEPT ![s] = j] /\ job'[s] = j
  BY <1>1 DEF TypeOK, LoadActivation
<1> HIDE DEF j
<1>4. JobIsSound(s)'
  BY <1>2, <1>3 DEF JobIsSound, Removals, LoadActivation
<1> QED
  BY <1>2, <1>3, <1>4, JobStep DEF LoadActivation

LEMMA EndKeeps ==
    ASSUME IInv, NEW s \in Slots, End(s)
    PROVE  IInv'
BY Ends DEF End, IInv, TypeOK, Advance, OwnerIsRecognised

\* a step of no request
LEMMA OutsideKeeps ==
    ASSUME IInv, UNCHANGED job, TypeOK', Advance, OwnerIsRecognised'
    PROVE  IInv'
BY KeptJob DEF IInv, JobsAreSound

LEMMA GrantByScriptKeeps ==
    ASSUME IInv, NEW u \in Users, GrantByScript(u)
    PROVE  IInv'
<1>1. TypeOK' /\ Advance /\ OwnerIsRecognised'
  BY DEF IInv, TypeOK, GrantByScript, Advance, OwnerIsRecognised
<1> QED
  BY <1>1, OutsideKeeps DEF GrantByScript

LEMMA ExpireKeeps ==
    ASSUME IInv, NEW t \in Tokens, Expire(t)
    PROVE  IInv'
<1>1. TypeOK'
  BY DEF IInv, TypeOK, Expire
<1>2. Advance /\ OwnerIsRecognised'
  BY DEF IInv, TypeOK, Expire, Live, Advance, OwnerIsRecognised
<1> QED
  BY <1>1, <1>2, OutsideKeeps DEF Expire

-----------------------------------------------------------------------------
(* The theorems                                                            *)

LEMMA InitHolds == Init => IInv
<1> SUFFICES ASSUME Init PROVE IInv
  OBVIOUS
<1>1. TypeOK
  BY IdleJob DEF Init, TypeOK
<1>2. OwnerIsRecognised
  BY DEF Init, OwnerIsRecognised
<1>3. JobsAreSound
  BY IdleJob DEF Init, JobsAreSound, JobIsSound, Removals
<1> QED
  BY <1>1, <1>2, <1>3 DEF IInv

LEMMA NextHolds == IInv /\ [Next]_vars => IInv'
<1> SUFFICES ASSUME IInv, [Next]_vars PROVE IInv'
  OBVIOUS
<1>1. CASE UNCHANGED vars
  BY <1>1, OutsideKeeps DEF vars, IInv, TypeOK, Advance, OwnerIsRecognised
<1>2. ASSUME NEW s \in Slots,
             \/ CommitRegister(s) \/ EnsureOwner(s) \/ OpenSession(s) \/ SaveSeen(s)
             \/ LoadRevocation(s) \/ CommitRevocation(s) \/ CommitGrant(s)
             \/ CommitRevokeRole(s) \/ CommitDeactivate(s) \/ CommitActivation(s) \/ End(s)
      PROVE  IInv'
  BY <1>2, CommitRegisterKeeps, EnsureOwnerKeeps, OpenSessionKeeps, SaveSeenKeeps,
     LoadRevocationKeeps, CommitRevocationKeeps, CommitGrantKeeps, CommitRevokeRoleKeeps,
     CommitStatusKeeps, EndKeeps
<1>3. ASSUME NEW s \in Slots, NEW u \in Users,
             \/ LoadRegister(s, u) \/ LoadLogin(s, u) \/ LoadGrant(s, u)
             \/ LoadRemoval(s, u) \/ LoadActivation(s, u)
      PROVE  IInv'
  BY <1>3, LoadRegisterKeeps, LoadLoginKeeps, LoadGrantKeeps, LoadRemovalKeeps,
     LoadActivationKeeps
<1> QED
  BY <1>1, <1>2, <1>3, LoadSessionKeeps, GrantByScriptKeeps, ExpireKeeps DEF Next

\* Accounts, the owner's role, the sessions and what the requests in progress
\* know of them always agree (authentication.py, sessions.py, admin_users.py).
THEOREM Invariance == Spec => []IInv
BY InitHolds, NextHolds, PTL DEF Spec

\* No session of the configured owner without a row for the owner's role, for any
\* users and any number of requests (ensure_owner_identity).
THEOREM OwnerRecognised == Spec => []OwnerIsRecognised
<1>1. IInv => OwnerIsRecognised
  BY DEF IInv
<1> QED
  BY <1>1, Invariance, PTL

\* the steps that change the role or the status of an account
LEMMA Changes ==
    ASSUME IInv, Next
    PROVE  \/ UNCHANGED <<account, role>>
           \/ /\ \A u \in Users : Owner(u) => Owner(u)'
              /\ \A t \in Tokens : session'[t] = session[t]
           \/ \E s \in Slots : CommitRevokeRole(s) \/ CommitDeactivate(s)
<1> USE DEF IInv, TypeOK, Owner, OwnerRole
<1>1. ASSUME NEW s \in Slots, CommitRegister(s)
      PROVE  (\A u \in Users : Owner(u) => Owner(u)') /\ UNCHANGED session
  BY <1>1 DEF CommitRegister
<1>2. ASSUME NEW s \in Slots, EnsureOwner(s)
      PROVE  (\A u \in Users : Owner(u) => Owner(u)') /\ UNCHANGED session
  BY <1>2 DEF EnsureOwner
<1>3. ASSUME NEW s \in Slots, CommitGrant(s)
      PROVE  (\A u \in Users : Owner(u) => Owner(u)') /\ UNCHANGED session
  BY <1>3 DEF CommitGrant
<1>4. ASSUME NEW s \in Slots, CommitActivation(s)
      PROVE  (\A u \in Users : Owner(u) => Owner(u)') /\ UNCHANGED session
  BY <1>4 DEF CommitActivation
<1>5. ASSUME NEW v \in Users, GrantByScript(v)
      PROVE  (\A u \in Users : Owner(u) => Owner(u)') /\ UNCHANGED session
  BY <1>5 DEF GrantByScript
<1> QED
  BY <1>1, <1>2, <1>3, <1>4, <1>5
  DEF Next, OpenSession, SaveSeen, LoadRevocation, CommitRevocation, End, LoadRegister,
      LoadLogin, LoadGrant, LoadRemoval, LoadActivation, LoadSession, Expire

\* An owner remains, for any users and any number of requests at once, unless a
\* removal was overtaken (revoke_user_role, change_user_status).
THEOREM OwnerStays == Spec => OwnerRemains
<1>1. ASSUME IInv, Next, HasOwner
      PROVE  HasOwner' \/ \E s \in Slots : Overtaken(s)
  <2>1. PICK o \in Users : Owner(o)
    BY <1>1 DEF HasOwner
  <2>2. CASE UNCHANGED <<account, role>>
    BY <2>1, <2>2 DEF HasOwner, Owner, OwnerRole
  <2>3. CASE \A u \in Users : Owner(u) => Owner(u)'
    BY <2>1, <2>3 DEF HasOwner
  <2>4. ASSUME NEW s \in Slots, CommitRevokeRole(s), ~Overtaken(s)
        PROVE  HasOwner'
    <3>1. PICK a \in Users, u \in Users : a = job[s].user /\ u = job[s].target
      BY <1>1, <2>4 DEF IInv, JobsAreSound, JobIsSound, Removals, CommitRevokeRole
    <3>2. u # a /\ Owner(a)
      BY <1>1, <2>4, <3>1
      DEF IInv, JobsAreSound, JobIsSound, Removals, CommitRevokeRole, Overtaken
    <3>3. Owner(a)'
      BY <1>1, <2>4, <3>1, <3>2 DEF IInv, TypeOK, CommitRevokeRole, Owner, OwnerRole
    <3> QED
      BY <3>3 DEF HasOwner
  <2>5. ASSUME NEW s \in Slots, CommitDeactivate(s), ~Overtaken(s)
        PROVE  HasOwner'
    <3>1. PICK a \in Users, u \in Users : a = job[s].user /\ u = job[s].target
      BY <1>1, <2>5 DEF IInv, JobsAreSound, JobIsSound, Removals, CommitDeactivate
    <3>2. UNCHANGED role /\ \A v \in Users : v # u => account'[v] = account[v]
      BY <1>1, <2>5, <3>1 DEF IInv, TypeOK, CommitDeactivate
    <3>3. /\ OwnerRole(u) <=> job[s].was = "active"
          /\ OwnerRole(u) => Owner(a) /\ u # a
      BY <1>1, <2>5, <3>1
      DEF IInv, JobsAreSound, JobIsSound, Removals, CommitDeactivate, Overtaken
    <3>4. CASE OwnerRole(u)
      BY <3>2, <3>3, <3>4 DEF HasOwner, Owner, OwnerRole
    <3>5. CASE ~OwnerRole(u)
      BY <2>1, <3>2, <3>5 DEF HasOwner, Owner, OwnerRole
    <3> QED
      BY <3>4, <3>5
  <2> QED
    BY <1>1, <2>2, <2>3, <2>4, <2>5, Changes
<1>2. IInv /\ [Next]_vars => [HasOwner => HasOwner' \/ \E s \in Slots : Overtaken(s)]_vars
  BY <1>1
<1> QED
  BY <1>2, Invariance, PTL DEF Spec, OwnerRemains

\* No request makes a revoked session live again, for any number of sessions and
\* requests (get_session, revoke_session).
THEOREM RevocationStays == Spec => RevocationIsFinal
<1> DEFINE Stays == \A t \in Tokens : session[t].state = "revoked" => session'[t].state = "revoked"
<1>1. ASSUME IInv, Next
      PROVE  Stays
  <2> USE DEF IInv, TypeOK
  <2>1. ASSUME NEW s \in Slots, OpenSession(s)
        PROVE  Stays
    BY <1>1, <2>1 DEF OpenSession
  <2>2. ASSUME NEW s \in Slots, CommitRevocation(s)
        PROVE  Stays
    BY <1>1, <2>2 DEF CommitRevocation, Revoked
  <2>3. ASSUME NEW t \in Tokens, Expire(t)
        PROVE  Stays
    BY <1>1, <2>3 DEF Expire, Live
  <2> QED
    BY <1>1, <2>1, <2>2, <2>3
    DEF Next, CommitRegister, EnsureOwner, SaveSeen, Seen, LoadRevocation, CommitGrant,
        CommitRevokeRole, CommitDeactivate, CommitActivation, End, LoadRegister,
        LoadLogin, LoadGrant, LoadRemoval, LoadActivation, LoadSession, GrantByScript
<1>2. IInv /\ [Next]_vars => [Stays]_vars
  BY <1>1
<1> QED
  BY <1>2, Invariance, PTL DEF Spec, RevocationIsFinal

-----------------------------------------------------------------------------
(* Nothing a removal relies on is changed while it is in progress.          *)

\* Nobody is about to deactivate the user of a signed-in request, nor to give or take
\* the role of the target of a removal, nor to take that of its actor.
Apart ==
    \A r, s \in Slots :
      r # s =>
        /\ job[r].pc = "deactivate" /\ job[s].pc \in {"signed"} \cup Removals
              => job[r].target # job[s].user
        /\ job[s].pc \in Removals =>
             /\ job[r].pc = "revoke_role" => job[r].target \notin {job[s].user, job[s].target}
             /\ job[r].pc = "grant" => job[r].target # job[s].target
             /\ job[r].pc = "ensure" => job[r].user # job[s].target

\* The bootstrap script does not give the role to the target of a removal in progress.
ScriptWaits ==
    \A u \in Users : GrantByScript(u) =>
      \A s \in Slots : job[s].pc \in Removals => job[s].target # u

\* What a request has read of accounts and roles is so until it commits.
Reads(j) ==
    /\ j.pc \in {"signed"} \cup Removals => account[j.user] = "active"
    /\ j.pc \in Removals => /\ OwnerRole(j.target) <=> j.was = "active"
                            /\ OwnerRole(j.target) => OwnerRole(j.user)

Fresh == \A s \in Slots : Reads(job[s])

\* What others do to the accounts and roles a request in progress relies on.
LEMMA KeptReads ==
    ASSUME IInv, Apart, Fresh, [Next]_vars, [ScriptWaits]_vars,
           NEW s \in Slots, job'[s] = job[s]
    PROVE  Reads(job[s])'
<1> DEFINE j == job[s]
<1> USE DEF Removals
<1>0. TypeOK /\ JobIsSound(s) /\ Reads(j)
  BY DEF IInv, JobsAreSound, Fresh
<1>1. CASE j.pc \notin {"signed"} \cup Removals
  BY <1>1 DEF Reads
<1>2. CASE j.pc \in {"signed"} \cup Removals
  <2>1. j.user \in Users /\ (j.pc \in Removals => j.target \in Users)
    BY <1>0, <1>2 DEF JobIsSound
  <2>2. ASSUME NEW r \in Slots, CommitDeactivate(r)
        PROVE  Reads(j)'
    <3>1. r # s
      BY <1>0, <2>2, IdleJob DEF CommitDeactivate, Close, TypeOK
    <3>2. job[r].target # j.user
      BY <1>2, <2>2, <3>1 DEF Apart, CommitDeactivate
    <3> QED
      BY <1>0, <2>1, <2>2, <3>2 DEF CommitDeactivate, Reads, OwnerRole, TypeOK
  <2>3. ASSUME NEW r \in Slots, CommitRegister(r) \/ CommitActivation(r)
        PROVE  Reads(j)'
    BY <1>0, <2>1, <2>3 DEF CommitRegister, CommitActivation, Reads, OwnerRole, TypeOK
  <2>4. ASSUME NEW r \in Slots, CommitRevokeRole(r)
        PROVE  Reads(j)'
    <3>1. r # s
      BY <1>0, <2>4, IdleJob DEF CommitRevokeRole, Close, TypeOK
    <3>2. j.pc \in Removals => job[r].target \notin {j.user, j.target}
      BY <2>4, <3>1 DEF Apart, CommitRevokeRole
    <3> QED
      BY <1>0, <2>1, <2>4, <3>2 DEF CommitRevokeRole, Reads, OwnerRole, TypeOK
  <2>5. ASSUME NEW u, account' = account, role' \in {role, [role EXCEPT ![u] = "active"]},
               j.pc \in Removals => j.target # u
        PROVE  Reads(j)'
    BY <1>0, <2>1, <2>5 DEF Reads, OwnerRole, TypeOK
  <2>6. ASSUME NEW r \in Slots, CommitGrant(r) \/ EnsureOwner(r)
        PROVE  Reads(j)'
    <3>1. r # s
      BY <1>2, <2>6 DEF CommitGrant, EnsureOwner
    <3>2. CASE CommitGrant(r)
      BY <2>5, <3>1, <3>2 DEF Apart, CommitGrant
    <3>3. CASE EnsureOwner(r)
      BY <2>5, <3>1, <3>3 DEF Apart, EnsureOwner
    <3> QED
      BY <2>6, <3>2, <3>3
  <2>7. ASSUME NEW u \in Users, GrantByScript(u)
        PROVE  Reads(j)'
    <3>1. CASE UNCHANGED vars
      BY <1>0, <3>1 DEF vars, Reads, OwnerRole
    <3>2. CASE ScriptWaits
      BY <2>5, <2>7, <3>2 DEF ScriptWaits, GrantByScript
    <3> QED
      BY <3>1, <3>2
  <2>8. CASE UNCHANGED <<account, role>>
    BY <1>0, <2>8 DEF Reads, OwnerRole
  <2> QED
    BY <2>2, <2>3, <2>4, <2>6, <2>7, <2>8
    DEF Next, vars, SaveSeen, LoadRevocation, CommitRevocation, OpenSession, End, Expire,
        LoadRegister, LoadLogin, LoadGrant, LoadRemoval, LoadActivation, LoadSession
<1> QED
  BY <1>1, <1>2

\* A request learns what it relies on when the account is read, and the roles.
LEMMA LearnedReads ==
    ASSUME IInv, Fresh, NEW s \in Slots,
           SaveSeen(s) \/ \E u \in Users : LoadRemoval(s, u)
    PROVE  Reads(job[s])'
<1> USE DEF Removals
<1>0. TypeOK
  BY DEF IInv
<1>1. CASE SaveSeen(s)
  <2> DEFINE u == session[job[s].token].user
  <2>1. CASE Close(s)
    BY <1>0, <2>1, IdleJob DEF Close, TypeOK, Reads
  <2>2. CASE ~Close(s)
    <3>1. /\ account[u] = "active" /\ account' = account
          /\ job' = [job EXCEPT ![s].pc = "signed", ![s].user = u]
      BY <1>1, <2>2 DEF SaveSeen
    <3>2. job'[s].pc = "signed" /\ job'[s].user = u
      BY <1>0, <3>1 DEF TypeOK, Job
    <3> QED
      BY <3>1, <3>2 DEF Reads
  <2> QED
    BY <2>1, <2>2
<1>2. ASSUME NEW u \in Users, LoadRemoval(s, u)
      PROVE  Reads(job[s])'
  <2>1. PICK pc \in Removals :
          /\ pc = "revoke_role" => MayRevoke(job[s].user, u)
          /\ pc = "deactivate"  => MayDeactivate(job[s].user, u)
          /\ job' = [job EXCEPT ![s].pc = pc, ![s].target = u, ![s].was = role[u]]
    BY <1>2 DEF LoadRemoval
  <2>2. /\ job'[s].pc = pc /\ job'[s].target = u /\ job'[s].was = role[u]
        /\ job'[s].user = job[s].user
    BY <1>0, <2>1 DEF TypeOK, Job
  <2>3. OwnerRole(u) => OwnerRole(job[s].user)
    BY <2>1 DEF MayRevoke, MayDeactivate
  <2>4. account[job[s].user] = "active" /\ account' = account /\ role' = role
    BY <1>2 DEF LoadRemoval, Fresh, Reads
  <2> QED
    BY <2>2, <2>3, <2>4 DEF Reads, OwnerRole
<1> QED
  BY <1>1, <1>2

\* All other steps of a request leave it without anything to rely on.
LEMMA OtherReads ==
    ASSUME IInv, [Next]_vars, NEW s \in Slots
    PROVE  \/ job'[s] = job[s]
           \/ SaveSeen(s) \/ \E u \in Users : LoadRemoval(s, u)
           \/ job'[s].pc \notin {"signed"} \cup Removals
<1> DEFINE Relies == job'[s].pc \in {"signed"} \cup Removals
<1> USE DEF Removals
<1>0. TypeOK
  BY DEF IInv
<1>1. ASSUME NEW r \in Slots,
             \/ OpenSession(r) \/ CommitRevocation(r) \/ CommitGrant(r) \/ CommitRevokeRole(r)
             \/ CommitDeactivate(r) \/ CommitActivation(r) \/ End(r)
      PROVE  job'[s] = job[s] \/ ~Relies
  BY <1>0, <1>1, IdleJob
  DEF OpenSession, CommitRevocation, CommitGrant, CommitRevokeRole, CommitDeactivate,
      CommitActivation, End, Close, TypeOK
<1>2. ASSUME NEW r \in Slots, r # s,
             \/ SaveSeen(r) \/ CommitRegister(r) \/ EnsureOwner(r) \/ LoadRevocation(r)
             \/ \E u \in Users : \/ LoadRegister(r, u) \/ LoadLogin(r, u) \/ LoadGrant(r, u)
                                 \/ LoadRemoval(r, u) \/ LoadActivation(r, u)
             \/ \E t \in Tokens : LoadSession(r, t)
      PROVE  job'[s] = job[s]
  BY <1>0, <1>2
  DEF SaveSeen, CommitRegister, EnsureOwner, LoadRevocation, LoadRegister, LoadLogin, LoadGrant,
      LoadRemoval, LoadActivation, LoadSession, Close, TypeOK
<1>3. ASSUME NEW pc, pc \notin {"signed"} \cup Removals,
             \E w : \/ job' = [job EXCEPT ![s].pc = pc]
                       \/ job' = [job EXCEPT ![s].pc = pc, ![s].was = w]
      PROVE  ~Relies
  BY <1>0, <1>3 DEF TypeOK, Job
<1>4. CASE Close(s)
  BY <1>0, <1>4, IdleJob DEF Close, TypeOK
<1>5. CASE CommitRegister(s)
  BY <1>3, <1>4, <1>5 DEF CommitRegister
<1>6. CASE EnsureOwner(s)
  BY <1>3, <1>4, <1>6 DEF EnsureOwner
<1>7. CASE LoadRevocation(s)
  <2>1. PICK T : job' = [job EXCEPT ![s].pc = "revoke", ![s].tokens = T]
    BY <1>7 DEF LoadRevocation
  <2> QED
    BY <1>0, <2>1 DEF TypeOK, Job
<1>8. ASSUME NEW u \in Users, LoadGrant(s, u) \/ LoadActivation(s, u)
      PROVE  ~Relies
  BY <1>0, <1>8 DEF LoadGrant, LoadActivation, TypeOK, Job
<1>9. CASE \/ \E u \in Users : LoadRegister(s, u) \/ LoadLogin(s, u)
           \/ \E t \in Tokens : LoadSession(s, t)
  BY <1>0, <1>9 DEF LoadRegister, LoadLogin, LoadSession, TypeOK, NoJob
<1>10. CASE UNCHANGED job
  BY <1>10
<1> QED
  BY <1>1, <1>2, <1>5, <1>6, <1>7, <1>8, <1>9, <1>10 DEF Next, vars, GrantByScript, Expire

\* An active owner remains as long as nothing a removal relies on is changed while it is
\* in progress, however many requests of other users overlap: a removal cannot take the
\* last owner, and only overlapping ones can (revoke_user_role, change_user_status).
THEOREM ApartOwner ==
    Spec /\ []Apart /\ [][ScriptWaits]_vars => [][HasOwner => HasOwner']_vars
<1>1. Init => Fresh
  BY IdleJob DEF Init, Fresh, Reads, Removals
<1>2. IInv /\ Apart /\ Fresh /\ [Next]_vars /\ [ScriptWaits]_vars => Fresh'
  <2> SUFFICES ASSUME IInv, Apart, Fresh, [Next]_vars, [ScriptWaits]_vars, NEW s \in Slots
               PROVE  Reads(job[s])'
    BY DEF Fresh
  <2>1. CASE job'[s].pc \notin {"signed"} \cup Removals
    BY <2>1 DEF Reads, Removals
  <2> QED
    BY <2>1, KeptReads, LearnedReads, OtherReads
<1>3. Fresh /\ [HasOwner => HasOwner' \/ \E s \in Slots : Overtaken(s)]_vars
        => [HasOwner => HasOwner']_vars
  <2>1. ASSUME Fresh, NEW s \in Slots
        PROVE  ~Overtaken(s)
    BY <2>1 DEF Fresh, Reads, Overtaken, Owner, OwnerRole
  <2> QED
    BY <2>1
<1> QED
  BY <1>1, <1>2, <1>3, Invariance, OwnerStays, PTL DEF Spec, OwnerRemains

=============================================================================
