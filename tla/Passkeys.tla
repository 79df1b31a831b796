------------------------------ MODULE Passkeys ------------------------------
(***************************************************************************)
(* How one student proves who they are: passkeys registered and used with  *)
(* challenges of the server, the profile such a proof verifies, and        *)
(* one-time passwords.                                                     *)
(*                                                                         *)
(* A request loads its challenge, credential and profile, checks them, and *)
(* writes at its commit the columns it changed; in between others commit.  *)
(* The authenticator and its signatures are external: a response that does *)
(* not belong to its challenge is refused, and not modelled.  A device may *)
(* create several credentials in answer to one challenge.                  *)
(***************************************************************************)
EXTENDS Integers

CONSTANTS
    Challenges,   \* PasskeyChallenge and OtpChallenge rows there may be
    Credentials,  \* keys a device may create, named by their credential_id
    Slots,        \* requests in progress at once
    MaxCount,     \* bound on the signature counter of a device
    MaxEdits,     \* bound on the changes of the profile
    MaxAttempts,  \* max_attempts of consume_otp, 5 in the code
    NoChallenge,
    NoCredential

ASSUME BoundAssumption ==
    /\ MaxCount \in Nat \ {0} /\ MaxEdits \in Nat /\ MaxAttempts \in Nat
    /\ NoChallenge \notin Challenges /\ NoCredential \notin Credentials

Kinds   == {"none", "registration", "authentication", "otp"}
Counts  == -1 .. MaxCount     \* -1: there is no credential, or no signature
Columns == {"status", "verified", "stamped", "edit"}
Profile == [status : {"none", "pending", "verified"}, verified : BOOLEAN,
            stamped : BOOLEAN, edit : 0 .. MaxEdits]

VARIABLES
    challenge,   \* kind and state of each challenge, and the failed guesses
    cred,        \* BiometricCredentialRecord.sign_count of each credential
    device,      \* each key's own counter, and the challenge it was created for
    signed,      \* the device's answer to an authentication challenge
    profile,     \* the StudentProfile: status, biometric_verified, verified_at
    job,         \* what the request in each slot is doing
    uses,        \* history: how often a challenge was accepted
    guesses,     \* history: codes compared with a one-time password
    twice        \* history: challenges two requests were using at once

history == <<uses, guesses, twice>>
vars == <<challenge, cred, device, signed, profile, job, history>>

NoProfile == [status |-> "none", verified |-> FALSE, stamped |-> FALSE, edit |-> 0]

Pc  == {"idle", "register", "login", "verify", "edit", "guess"}
Key == [key : Credentials \cup {NoCredential}, count : Counts]
Job == [pc : Pc, challenge : Challenges \cup {NoChallenge}, answer : Key,
        tries : 0 .. MaxAttempts, profile : Profile]

NoKey == [key |-> NoCredential, count |-> -1]
NoJob == [pc |-> "idle", challenge |-> NoChallenge, answer |-> NoKey, tries |-> 0,
          profile |-> NoProfile]

TypeOK ==
    /\ challenge \in [Challenges -> [kind : Kinds, tries : 0 .. MaxAttempts,
                                     state : {"open", "consumed", "expired"}]]
    /\ cred \in [Credentials -> Counts]
    /\ device \in [Credentials -> [made : Challenges \cup {NoChallenge}, count : Counts]]
    /\ signed \in [Challenges -> Key]
    /\ profile \in Profile
    /\ job \in [Slots -> Job]
    /\ uses \in [Challenges -> 0 .. 2]
    /\ guesses \in [Challenges -> 0 .. MaxAttempts + 1]
    /\ twice \subseteq Challenges

Init ==
    /\ challenge = [c \in Challenges |-> [kind |-> "none", tries |-> 0, state |-> "open"]]
    /\ cred = [k \in Credentials |-> -1]
    /\ device = [k \in Credentials |-> [made |-> NoChallenge, count |-> -1]]
    /\ signed = [c \in Challenges |-> NoKey]
    /\ profile = NoProfile
    /\ job = [s \in Slots |-> NoJob]
    /\ uses = [c \in Challenges |-> 0] /\ guesses = [c \in Challenges |-> 0]
    /\ twice = {}

-----------------------------------------------------------------------------
(* Helpers *)

Close(s) == job' = [job EXCEPT ![s] = NoJob]

Usable(c, kind) == challenge[c].kind = kind /\ challenge[c].state = "open"

Registered == {k \in Credentials : cred[k] # -1}

\* a request begins to use challenge c; answer is the credential it is about, and
\* the counter it read
Take(s, c, pc, answer) ==
    /\ job[s].pc = "idle"
    /\ job' = [job EXCEPT ![s] = [NoJob EXCEPT !.pc = pc, !.challenge = c,
                  !.answer = answer, !.tries = challenge[c].tries, !.profile = profile]]
    /\ twice' = IF \E r \in Slots : job[r].challenge = c THEN twice \cup {c} ELSE twice

UnconsumedAuthentication(c) ==  \* variant: an accepted answer leaves the challenge open
    IF challenge[c].kind = "authentication" THEN challenge
    ELSE [challenge EXCEPT ![c].state = "consumed"]

Consumed(c) == [challenge EXCEPT ![c].state = "consumed"]

Used(c) == [uses EXCEPT ![c] = IF @ = 2 THEN 2 ELSE @ + 1]

-----------------------------------------------------------------------------
(* Challenges *)

\* _save_challenge for the options of a registration (which asks for a profile)
\* or an authentication (for a credential); create_otp
Create(c) ==
    /\ challenge[c].kind = "none"
    /\ \E kind \in Kinds \ {"none"} :
         /\ kind = "registration"   => profile.status # "none"
         /\ kind = "authentication" => Registered # {}
         /\ challenge' = [challenge EXCEPT ![c].kind = kind]
    /\ UNCHANGED <<cred, device, signed, profile, job, history>>

\* CHALLENGE_TTL_SECONDS, or the minutes of a one-time password, pass
Expire(c) ==
    /\ challenge[c].kind # "none" /\ challenge[c].state = "open"
    /\ challenge' = [challenge EXCEPT ![c].state = "expired"]
    /\ UNCHANGED <<cred, device, signed, profile, job, history>>

\* a device creates a key for the challenge; its counter may start at zero
CreateKey(c, k) ==
    /\ challenge[c].kind = "registration" /\ device[k].count = -1
    /\ \E n \in {0, 1} : device' = [device EXCEPT ![k] = [made |-> c, count |-> n]]
    /\ UNCHANGED <<challenge, cred, signed, profile, job, history>>

\* the device signs with a registered key; one that counts counts up
Sign(c) ==
    /\ challenge[c].kind = "authentication" /\ signed[c].count = -1
    /\ \E k \in Registered : \E n \in {device[k].count, device[k].count + 1} :
         /\ n <= MaxCount /\ (n = device[k].count => n = 0)
         /\ device' = [device EXCEPT ![k].count = n]
         /\ signed' = [signed EXCEPT ![c] = [key |-> k, count |-> n]]
    /\ UNCHANGED <<challenge, cred, profile, job, history>>

-----------------------------------------------------------------------------
(* finish_registration and finish_authentication *)

LoadRegistration(s, c, k) ==
    /\ Usable(c, "registration")
    /\ device[k].made = c /\ device[k].count # -1
    /\ Take(s, c, "register", [key |-> k, count |-> device[k].count])
    /\ UNCHANGED <<challenge, cred, device, signed, profile, uses, guesses>>

\* credential_id is unique, so the same key is stored once; a request that found the
\* challenge open consumes it again after another one did
CommitRegistration(s) ==
    LET j == job[s]
        k == j.answer.key
    IN  /\ j.pc = "register"
        /\ \/ /\ cred[k] = -1
              /\ cred' = [cred EXCEPT ![k] = j.answer.count]
              /\ challenge' = Consumed(j.challenge)
              /\ uses' = Used(j.challenge)
           \/ cred[k] # -1 /\ UNCHANGED <<cred, challenge, uses>>
        /\ Close(s)
        /\ UNCHANGED <<device, signed, profile, guesses, twice>>

AnyCount(previous, current) == TRUE  \* variant: the counter is stored unchecked

\* _validate_sign_count
ValidCount(previous, current) == previous = 0 \/ current > previous

\* log-in by passkey, or the verification of the profile, which must be there
LoadAssertion(s, c) ==
    LET k == signed[c].key IN
    /\ Usable(c, "authentication") /\ signed[c].count # -1
    /\ ValidCount(cred[k], signed[c].count)
    /\ \E pc \in {"login", "verify"} :
         /\ pc = "verify" => profile.status # "none"
         /\ Take(s, c, pc, [key |-> k, count |-> cred[k]])
    /\ UNCHANGED <<challenge, cred, device, signed, profile, uses, guesses>>

\* the row once a session that loaded `old' has written `new'
Written(old, new) == [c \in Columns |-> IF new[c] # old[c] THEN new[c] ELSE profile[c]]

\* the log-in does not set verified_at
Verified(j) ==
    IF j.profile.status = "none" THEN profile
    ELSE Written(j.profile, [j.profile EXCEPT !.status = "verified", !.verified = TRUE,
                                !.stamped = IF j.pc = "verify" THEN TRUE ELSE @])

\* counter, challenge, profile and session are one commit, but for the owner's
\* account: ensure_owner_identity may commit before the profile is set
CommitAssertion(s) ==
    LET j == job[s]
        c == j.challenge
    IN  /\ j.pc \in {"login", "verify"}
        /\ cred' = IF signed[c].count = j.answer.count THEN cred
                   ELSE [cred EXCEPT ![j.answer.key] = signed[c].count]
        /\ challenge' = Consumed(c)
        /\ profile' \in {Verified(j), profile}
        /\ uses' = Used(c)
        /\ Close(s)
        /\ UNCHANGED <<device, signed, guesses, twice>>

-----------------------------------------------------------------------------
(* create_or_update_profile *)

LoadProfile(s) ==
    /\ job[s].pc = "idle" /\ profile.edit < MaxEdits
    /\ job' = [job EXCEPT ![s] = [NoJob EXCEPT !.pc = "edit", !.profile = profile]]
    /\ UNCHANGED <<challenge, cred, device, signed, profile, history>>

ResetNothing(p) ==  \* variant: an edit keeps the verification
    IF p.status = "none" THEN [p EXCEPT !.status = "pending"] ELSE p

Reset(p) == [p EXCEPT !.status = "pending", !.verified = FALSE, !.stamped = FALSE]

\* one profile per user: the second of two first answers fails
CommitProfile(s) ==
    LET old == job[s].profile IN
    /\ job[s].pc = "edit" /\ profile.edit < MaxEdits
    /\ \/ /\ old.status = "none" => profile.status = "none"
          /\ profile' = [Written(old, Reset(old)) EXCEPT !.edit = profile.edit + 1]
       \/ old.status = "none" /\ profile.status # "none" /\ UNCHANGED profile
    /\ Close(s)
    /\ UNCHANGED <<challenge, cred, device, signed, history>>

-----------------------------------------------------------------------------
(* consume_otp *)

LoadOtp(s, c) ==
    /\ Usable(c, "otp") /\ challenge[c].tries < MaxAttempts
    /\ Take(s, c, "guess", NoKey)
    /\ UNCHANGED <<challenge, cred, device, signed, profile, uses, guesses>>

\* attempts is counted up before the code is compared
Counted(c, tries) == tries + 1

CommitOtp(s) ==
    LET j == job[s]
        c == j.challenge
    IN  /\ j.pc = "guess"
        /\ guesses' = [guesses EXCEPT ![c] = IF @ > MaxAttempts THEN @ ELSE @ + 1]
        /\ \/ /\ challenge' = [Consumed(c) EXCEPT ![c].tries = j.tries + 1]
              /\ uses' = Used(c)
           \/ /\ challenge' = [challenge EXCEPT ![c].tries = Counted(c, j.tries)]
              /\ UNCHANGED uses
        /\ Close(s)
        /\ UNCHANGED <<cred, device, signed, profile, twice>>

-----------------------------------------------------------------------------

\* a failed request, or a restart of the process
End(s) ==
    /\ job[s].pc # "idle"
    /\ Close(s)
    /\ UNCHANGED <<challenge, cred, device, signed, profile, history>>

Next ==
    \/ \E c \in Challenges : Create(c) \/ Expire(c) \/ Sign(c)
    \/ \E c \in Challenges, k \in Credentials :
         CreateKey(c, k) \/ \E s \in Slots : LoadRegistration(s, c, k)
    \/ \E s \in Slots :
         \/ CommitRegistration(s) \/ CommitAssertion(s) \/ LoadProfile(s)
         \/ CommitProfile(s) \/ CommitOtp(s) \/ End(s)
         \/ \E c \in Challenges : LoadAssertion(s, c) \/ LoadOtp(s, c)

Spec == Init /\ [][Next]_vars

-----------------------------------------------------------------------------
(* Properties *)

\* A challenge, and a one-time password, is accepted once, and a password is
\* compared with at most max_attempts codes, unless two requests were using it
\* at once: both then find it open, and both answers are accepted.
ChallengeIsUsedOnce ==
    \A c \in Challenges \ twice : uses[c] <= 1 /\ guesses[c] <= MaxAttempts

\* A stored signature counter only goes up, so that a response that was already
\* accepted is refused, unless the counter moved while a request held it.
CounterAdvances ==
    [][\A k \in Credentials : cred'[k] >= cred[k]
         \/ \E s \in Slots : /\ job[s].pc \in {"login", "verify"}
                             /\ job[s].answer.key = k
                             /\ job[s].answer.count # cred[k]]_vars

\* The flag and the status of a profile always agree, although each request
\* writes only the columns it saw change.
FlagMatchesStatus == profile.verified <=> profile.status = "verified"

\* An edited profile is unverified again, unless it was verified by a request
\* that committed while the edit was in progress.
EditNeedsVerification ==
    [][profile'.edit # profile.edit => \/ profile'.status = "pending"
                                       \/ \E s \in Slots : job[s].pc = "edit" /\ job[s].profile # profile]_vars

-----------------------------------------------------------------------------
(* The inductive invariant *)

KindOf(pc) == CASE pc = "register" -> "registration"
                [] pc \in {"login", "verify"} -> "authentication"
                [] pc = "guess" -> "otp"
                [] pc \in {"idle", "edit"} -> "none"

\* what the request in slot s holds is of the kind it needs, and not yet accepted
JobIsSound(s) ==
    LET j == job[s]
        c == j.challenge
    IN  /\ j.pc \in {"idle", "edit"} <=> c = NoChallenge
        /\ c # NoChallenge =>
             /\ challenge[c].kind = KindOf(j.pc)
             /\ (c \notin twice => uses[c] = 0 /\ challenge[c].state # "consumed")
             /\ \A r \in Slots \ {s} : job[r].challenge = c => c \in twice
        /\ j.pc = "register" => j.answer.key \in Credentials /\ j.answer.count >= 0
        /\ j.pc \in {"login", "verify"} =>
             /\ signed[c].count >= 0 /\ signed[c].key = j.answer.key
             /\ ValidCount(j.answer.count, signed[c].count)
        /\ j.pc = "guess" => /\ j.tries < MaxAttempts
                            /\ (c \notin twice => j.tries = challenge[c].tries)
        /\ j.profile.verified <=> j.profile.status = "verified"

JobsAreSound == \A s \in Slots : JobIsSound(s)

\* what became of challenge c
ChallengeIsSound(c) ==
    /\ c \notin twice => /\ uses[c] <= 1 /\ guesses[c] = challenge[c].tries
                         /\ (uses[c] = 1 => challenge[c].state = "consumed")
    /\ challenge[c].kind = "none" => uses[c] = 0
    /\ challenge[c].kind # "otp" => guesses[c] = 0
    /\ signed[c].count # -1 => signed[c].key \in Credentials /\ cred[signed[c].key] # -1

ChallengesAreSound == \A c \in Challenges : ChallengeIsSound(c)

\* Requests, challenges and credentials agree: the invariant the theorems are
\* proved by.
IInv == TypeOK /\ JobsAreSound /\ ChallengesAreSound /\ FlagMatchesStatus

=============================================================================
