------------------------------ MODULE Accounts ------------------------------
(***************************************************************************)
(* Accounts, their sessions and the owner role: registration and log-in by *)
(* e-mail, the look-up every authenticated request begins with, the        *)
(* revocation of sessions, and the administration of roles and accounts.   *)
(*                                                                         *)
(* Every request reads first and writes at its commit, with the changed    *)
(* columns only; the commits are short, so that waiting for the writer is  *)
(* not told apart from running later.  A role other than the owner's, a    *)
(* password and a display name decide nothing here.                        *)
(***************************************************************************)
EXTENDS Naturals

CONSTANTS
    Users,       \* e-mail addresses that may register
    OwnerMail,   \* TOFAN_OWNER_EMAIL
    Tokens,      \* sessions that may be opened
    Slots,       \* requests in progress at once
    NoUser, NoToken

ASSUME OwnerAssumption ==
    OwnerMail \in Users /\ NoUser \notin Users /\ NoToken \notin Tokens

VARIABLES
    account,     \* users.is_active, or none
    role,        \* UserRole rows of the owner's role: absent, active, inactive
    session,     \* AuthSession rows: the user and none, live, revoked, expired
    job          \* what the request in each slot is doing

vars == <<account, role, session, job>>

Removals == {"revoke_role", "deactivate"}

Pc == {"idle", "register", "ensure", "open", "seen", "signed", "revoke",
       "grant", "activate"} \cup Removals

\* user: who registers or acts; token: the session the request came with;
\* target: of an administrative request; was: the role as loaded (of the user
\* or the target); tokens: the live sessions loaded to be revoked
Job == [pc : Pc, user : Users \cup {NoUser}, token : Tokens \cup {NoToken},
        target : Users \cup {NoUser}, was : {"absent", "active", "inactive"},
        tokens : SUBSET Tokens]

NoJob == [pc |-> "idle", user |-> NoUser, token |-> NoToken,
          target |-> NoUser, was |-> "absent", tokens |-> {}]

TypeOK ==
    /\ account \in [Users -> {"none", "active", "inactive"}]
    /\ role \in [Users -> {"absent", "active", "inactive"}]
    /\ session \in [Tokens -> [user : Users \cup {NoUser},
                               state : {"none", "live", "revoked", "expired"}]]
    /\ job \in [Slots -> Job]

Init ==
    /\ account = [u \in Users |-> "none"]
    /\ role = [u \in Users |-> "absent"]
    /\ session = [t \in Tokens |-> [user |-> NoUser, state |-> "none"]]
    /\ job = [s \in Slots |-> NoJob]

-----------------------------------------------------------------------------
(* Helpers *)

Close(s) == job' = [job EXCEPT ![s] = NoJob]
Live(t)  == session[t].state = "live"
LiveOf(u) == {t \in Tokens : Live(t) /\ session[t].user = u}

\* _actor_is_owner, which does not ask for the account
OwnerRole(u) == role[u] = "active"

Revoked(T) == [t \in Tokens |-> IF t \in T THEN [session[t] EXCEPT !.state = "revoked"]
                                           ELSE session[t]]

-----------------------------------------------------------------------------
(* Registration and log-in by e-mail *)

LoadRegister(s, u) ==
    /\ job[s].pc = "idle" /\ account[u] = "none"
    /\ job' = [job EXCEPT ![s] = [NoJob EXCEPT !.pc = "register", !.user = u]]
    /\ UNCHANGED <<account, role, session>>

\* users.email is unique: the second of two registrations fails
CommitRegister(s) ==
    LET u == job[s].user IN
    /\ job[s].pc = "register"
    /\ \/ /\ account[u] = "none"
          /\ account' = [account EXCEPT ![u] = "active"]
          /\ job' = [job EXCEPT ![s].pc = "ensure", ![s].was = role[u]]
       \/ account[u] # "none" /\ Close(s) /\ UNCHANGED account
    /\ UNCHANGED <<role, session>>

\* login_email: the password is right and the account active
LoadLogin(s, u) ==
    /\ job[s].pc = "idle" /\ account[u] = "active"
    /\ job' = [job EXCEPT ![s] =
          [NoJob EXCEPT !.pc = "ensure", !.user = u, !.was = role[u]]]
    /\ UNCHANGED <<account, role, session>>

EnsureNobody(s) ==  \* variant: the session is opened without it
    /\ job[s].pc = "ensure"
    /\ job' = [job EXCEPT ![s].pc = "open"]
    /\ UNCHANGED <<account, role, session>>

\* ensure_owner_identity; uq_user_role refuses the second of two insertions
EnsureOwner(s) ==
    LET u == job[s].user IN
    /\ job[s].pc = "ensure"
    /\ \/ /\ u # OwnerMail \/ job[s].was = "active"
          /\ job' = [job EXCEPT ![s].pc = "open"]
          /\ UNCHANGED role
       \/ /\ u = OwnerMail /\ job[s].was # "active"
          /\ job[s].was = "absent" => role[u] = "absent"
          /\ role' = [role EXCEPT ![u] = "active"]
          /\ job' = [job EXCEPT ![s].pc = "open"]
       \/ /\ u = OwnerMail /\ job[s].was = "absent" /\ role[u] # "absent"
          /\ Close(s)
          /\ UNCHANGED role
    /\ UNCHANGED <<account, session>>

\* create_session
OpenSession(s) ==
    /\ job[s].pc = "open"
    /\ \E t \in Tokens :
         /\ session[t].state = "none"
         /\ session' = [session EXCEPT ![t] = [user |-> job[s].user, state |-> "live"]]
    /\ Close(s)
    /\ UNCHANGED <<account, role>>

\* the bootstrap script: grant_owner_by_email
GrantByScript(u) ==
    /\ account[u] = "active"
    /\ role' = [role EXCEPT ![u] = "active"]
    /\ UNCHANGED <<account, session, job>>

-----------------------------------------------------------------------------
(* The look-up of a session *)

\* get_session reads a row that is neither revoked nor expired
LoadSession(s, t) ==
    /\ job[s].pc = "idle" /\ Live(t)
    /\ job' = [job EXCEPT ![s] = [NoJob EXCEPT !.pc = "seen", !.token = t]]
    /\ UNCHANGED <<account, role, session>>

SeenWhole(t) == [session EXCEPT ![t].state = "live"]  \* variant: the row as loaded

\* last_seen_at alone is written
Seen(t) == session

\* the commit of last_seen_at; then get_current_user asks for the account
SaveSeen(s) ==
    LET t == job[s].token
        u == session[t].user
    IN  /\ job[s].pc = "seen"
        /\ session' = Seen(t)
        /\ IF account[u] = "active"
           THEN job' = [job EXCEPT ![s].pc = "signed", ![s].user = u]
           ELSE Close(s)
        /\ UNCHANGED <<account, role>>

-----------------------------------------------------------------------------
(* Handlers of a signed-in user *)

\* logout, revoke_my_session, revoke_all_other_sessions
LoadRevocation(s) ==
    LET j == job[s] IN
    /\ j.pc = "signed"
    /\ \E T \in {{t} : t \in LiveOf(j.user)} \cup {LiveOf(j.user) \ {j.token}} :
         job' = [job EXCEPT ![s].pc = "revoke", ![s].tokens = T]
    /\ UNCHANGED <<account, role, session>>

CommitRevocation(s) ==
    /\ job[s].pc = "revoke"
    /\ session' = Revoked(job[s].tokens)
    /\ Close(s)
    /\ UNCHANGED <<account, role>>

\* grant_user_role
LoadGrant(s, u) ==
    /\ job[s].pc = "signed"
    /\ account[u] # "none" /\ OwnerRole(job[s].user) /\ ~OwnerRole(u)
    /\ job' = [job EXCEPT ![s].pc = "grant", ![s].target = u, ![s].was = role[u]]
    /\ UNCHANGED <<account, role, session>>

CommitGrant(s) ==
    LET u == job[s].target IN
    /\ job[s].pc = "grant"
    /\ role' = IF job[s].was = "absent" /\ role[u] # "absent" THEN role  \* uq_user_role
               ELSE [role EXCEPT ![u] = "active"]
    /\ Close(s)
    /\ UNCHANGED <<account, session>>

MayRevokeAny(actor, u) == OwnerRole(actor) /\ OwnerRole(u)  \* variant: one's own too

\* revoke_user_role, for the owner's role
MayRevoke(actor, u) == OwnerRole(actor) /\ u # actor /\ OwnerRole(u)

\* change_user_status; an account loaded as inactive is not written
MayDeactivate(actor, u) ==
    account[u] = "active" /\ (OwnerRole(u) => OwnerRole(actor) /\ u # actor)

LoadRemoval(s, u) ==
    LET a == job[s].user IN
    /\ job[s].pc = "signed"
    /\ \E pc \in Removals :
         /\ pc = "revoke_role" => MayRevoke(a, u)
         /\ pc = "deactivate"  => MayDeactivate(a, u)
         /\ job' = [job EXCEPT ![s].pc = pc, ![s].target = u, ![s].was = role[u]]
    /\ UNCHANGED <<account, role, session>>

CommitRevokeRole(s) ==
    /\ job[s].pc = "revoke_role"
    /\ role' = [role EXCEPT ![job[s].target] = "inactive"]
    /\ Close(s)
    /\ UNCHANGED <<account, session>>

CommitDeactivate(s) ==
    /\ job[s].pc = "deactivate"
    /\ account' = [account EXCEPT ![job[s].target] = "inactive"]
    /\ Close(s)
    /\ UNCHANGED <<role, session>>

LoadActivation(s, u) ==
    /\ job[s].pc = "signed"
    /\ account[u] = "inactive" /\ (OwnerRole(u) => OwnerRole(job[s].user))
    /\ job' = [job EXCEPT ![s].pc = "activate", ![s].target = u]
    /\ UNCHANGED <<account, role, session>>

CommitActivation(s) ==
    /\ job[s].pc = "activate"
    /\ account' = [account EXCEPT ![job[s].target] = "active"]
    /\ Close(s)
    /\ UNCHANGED <<role, session>>

-----------------------------------------------------------------------------
(* Environment *)

\* a request of another kind, a failure, or a restart of the process
End(s) ==
    /\ job[s].pc # "idle"
    /\ Close(s)
    /\ UNCHANGED <<account, role, session>>

\* expires_at passes
Expire(t) ==
    /\ Live(t)
    /\ session' = [session EXCEPT ![t].state = "expired"]
    /\ UNCHANGED <<account, role, job>>

Next ==
    \/ \E s \in Slots :
         \/ CommitRegister(s) \/ EnsureOwner(s) \/ OpenSession(s) \/ SaveSeen(s)
         \/ LoadRevocation(s) \/ CommitRevocation(s) \/ CommitGrant(s)
         \/ CommitRevokeRole(s) \/ CommitDeactivate(s) \/ CommitActivation(s) \/ End(s)
         \/ \E u \in Users : \/ LoadRegister(s, u) \/ LoadLogin(s, u) \/ LoadGrant(s, u)
                             \/ LoadRemoval(s, u) \/ LoadActivation(s, u)
         \/ \E t \in Tokens : LoadSession(s, t)
    \/ \E u \in Users : GrantByScript(u)
    \/ \E t \in Tokens : Expire(t)

Spec == Init /\ [][Next]_vars

-----------------------------------------------------------------------------
(* Properties *)

Owner(u)  == account[u] = "active" /\ OwnerRole(u)
HasOwner  == \E u \in Users : Owner(u)

\* what the removal in slot s read of the two roles is no longer so
Overtaken(s) ==
    LET j == job[s] IN
    /\ j.pc \in Removals
    /\ \/ OwnerRole(j.target) # (j.was = "active")
       \/ j.was = "active" /\ ~Owner(j.user)

\* The academy keeps an active account with the owner's role once it has one;
\* only a removal that was overtaken by another change of the two roles or of
\* the actor's account can take the last one.
OwnerRemains == [][HasOwner => HasOwner' \/ \E s \in Slots : Overtaken(s)]_vars

\* A revoked session stays revoked, although every look-up writes its row.
RevocationIsFinal ==
    [][\A t \in Tokens : session[t].state = "revoked" => session'[t].state = "revoked"]_vars

\* The account of TOFAN_OWNER_EMAIL never has a session without a row for the
\* owner's role, on whatever way the account signed in, and rows and sessions
\* belong to registered accounts.
OwnerIsRecognised ==
    /\ \A t \in Tokens : session[t].state # "none" =>
          /\ session[t].user \in Users /\ account[session[t].user] # "none"
          /\ session[t].user = OwnerMail => role[OwnerMail] # "absent"
    /\ \A u \in Users : role[u] # "absent" => account[u] # "none"

-----------------------------------------------------------------------------
(* The inductive invariant *)

\* what the request in slot s knows of users and sessions
JobIsSound(s) ==
    LET j == job[s] IN
    /\ j.pc \in {"register", "ensure", "open"} => j.user \in Users
    /\ j.pc \in {"ensure", "open"} => account[j.user] # "none"
    /\ j.pc = "ensure" /\ j.was # "absent" => role[j.user] # "absent"
    /\ j.pc = "open" /\ j.user = OwnerMail => role[OwnerMail] # "absent"
    /\ j.pc = "seen" => j.token \in Tokens /\ session[j.token].state # "none"
    /\ j.pc \in {"signed", "revoke", "grant", "activate"} \cup Removals => j.user \in Users
    /\ j.pc = "revoke" => \A t \in j.tokens : session[t].state # "none"
    /\ j.pc \in {"grant", "activate"} \cup Removals =>
          j.target \in Users /\ account[j.target] # "none"
    /\ j.pc = "revoke_role" => j.was = "active" /\ j.target # j.user
    /\ j.pc = "deactivate" /\ j.was = "active" => j.target # j.user
    /\ j.pc = "revoke_role" => role[j.target] # "absent"

JobsAreSound == \A s \in Slots : JobIsSound(s)

\* Accounts, roles, sessions and the requests in progress agree: the invariant
\* the theorems are proved by.
IInv == TypeOK /\ OwnerIsRecognised /\ JobsAreSound

=============================================================================
