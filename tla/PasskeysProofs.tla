--------------------------- MODULE PasskeysProofs ---------------------------
(***************************************************************************)
(* Proofs about Passkeys, for any challenges and requests and any bounds:  *)
(* the inductive invariant, that a challenge is used once, that a counter  *)
(* advances and that an edited profile is unverified.                      *)
(***************************************************************************)
EXTENDS Passkeys, TLAPS

-----------------------------------------------------------------------------
(* What every step preserves of what the requests in progress rely on.     *)

\* what a request knows of challenge c is still so, or c is used twice
Kept(c) ==
    /\ challenge[c].kind # "none" => challenge'[c].kind = challenge[c].kind
    /\ c \notin twice' =>
         /\ c \notin twice
         /\ uses'[c] = uses[c] /\ challenge'[c].tries = challenge[c].tries
         /\ challenge'[c].state = "consumed" => challenge[c].state = "consumed"
    /\ signed[c].count # -1 => signed'[c] = signed[c]

LEMMA JobFields ==
    ASSUME TypeOK, NEW s \in Slots
    PROVE  /\ job[s] \in Job /\ job[s].pc \in Pc
           /\ job[s].challenge \in Challenges \cup {NoChallenge}
           /\ job[s].answer \in Key /\ job[s].tries \in 0 .. MaxAttempts
           /\ job[s].answer.key \in Credentials \cup {NoCredential}
           /\ job[s].answer.count \in Counts
           /\ job[s].profile \in Profile
BY DEF TypeOK, Job, Key

LEMMA Kinds4 ==
    ASSUME NEW pc \in Pc
    PROVE  /\ KindOf(pc) \in Kinds
           /\ pc = "register" <=> KindOf(pc) = "registration"
           /\ pc \in {"login", "verify"} <=> KindOf(pc) = "authentication"
           /\ pc = "guess" <=> KindOf(pc) = "otp"
           /\ pc \in {"idle", "edit"} <=> KindOf(pc) = "none"
BY DEF KindOf, Pc, Kinds

\* the challenge of a request in progress
LEMMA HeldChallenge ==
    ASSUME IInv, NEW s \in Slots, job[s].pc \notin {"idle", "edit"}
    PROVE  /\ job[s].challenge \in Challenges
           /\ challenge[job[s].challenge].kind = KindOf(job[s].pc)
           /\ challenge[job[s].challenge].kind # "none"
<1>1. job[s].pc \in Pc /\ job[s].challenge \in Challenges \cup {NoChallenge} /\ JobIsSound(s)
  BY JobFields DEF IInv, JobsAreSound
<1> QED
  BY <1>1, Kinds4 DEF JobIsSound

LEMMA KeptJob ==
    ASSUME IInv, NEW r \in Slots, job'[r] = job[r],
           job[r].challenge # NoChallenge => Kept(job[r].challenge),
           \A s \in Slots \ {r} : job'[s].challenge = job[r].challenge
              /\ job[r].challenge # NoChallenge
              => job[s].challenge = job[r].challenge \/ job[r].challenge \in twice',
           twice \subseteq twice'
    PROVE  JobIsSound(r)'
<1>1. JobIsSound(r) /\ job[r].pc \in Pc /\ job[r].challenge \in Challenges \cup {NoChallenge}
  BY JobFields DEF IInv, JobsAreSound
<1>2. job[r].pc \notin {"idle", "edit"} =>
        job[r].challenge \in Challenges /\ challenge[job[r].challenge].kind # "none"
  BY HeldChallenge
<1> QED
  BY <1>1, <1>2 DEF JobIsSound, Kept, ValidCount

\* a request that has ended
LEMMA IdleJob == NoJob \in Job /\ NoJob.pc = "idle" /\ NoJob.challenge = NoChallenge
                 /\ NoJob.profile = NoProfile /\ NoProfile \in Profile /\ NoKey \in Key
BY BoundAssumption DEF NoJob, NoKey, Key, Job, Pc, NoProfile, Profile, Counts

LEMMA IdleIsSound ==
    ASSUME NEW s \in Slots, job'[s] = NoJob
    PROVE  JobIsSound(s)'
BY IdleJob DEF JobIsSound, NoProfile

\* the step of the request in slot s alone, which ends
LEMMA CloseStep ==
    ASSUME IInv, NEW s \in Slots, Close(s), twice' = twice,
           \A r \in Slots \ {s} : job[r].challenge # NoChallenge => Kept(job[r].challenge)
    PROVE  JobsAreSound' /\ job' \in [Slots -> Job]
<1>1. job' = [job EXCEPT ![s] = NoJob] /\ job \in [Slots -> Job]
  BY DEF Close, IInv, TypeOK
<1>2. job' \in [Slots -> Job]
  BY <1>1, IdleJob
<1>3. JobIsSound(s)'
  BY <1>1, IdleIsSound
<1>4. ASSUME NEW r \in Slots \ {s}
      PROVE  JobIsSound(r)'
  BY <1>1, <1>4, KeptJob, IdleJob
<1> QED
  BY <1>2, <1>3, <1>4 DEF JobsAreSound

\* nothing changes but the jobs
LEMMA SameChallenges ==
    ASSUME IInv, UNCHANGED <<challenge, cred, signed, uses, guesses>>, twice \subseteq twice'
    PROVE  ChallengesAreSound'
BY DEF IInv, ChallengesAreSound, ChallengeIsSound

-----------------------------------------------------------------------------
(* Challenges and devices                                                  *)

\* the requests in progress stay sound when only unused challenges change
LEMMA OutsideStep ==
    ASSUME IInv, UNCHANGED <<job, twice>>,
           \A r \in Slots : job[r].challenge # NoChallenge => Kept(job[r].challenge)
    PROVE  JobsAreSound'
<1>1. ASSUME NEW r \in Slots
      PROVE  JobIsSound(r)'
  BY <1>1, KeptJob
<1> QED
  BY <1>1 DEF JobsAreSound

LEMMA CreateKeeps ==
    ASSUME IInv, NEW c \in Challenges, Create(c)
    PROVE  IInv'
<1> USE DEF IInv
<1>1. PICK kind \in Kinds \ {"none"} : challenge' = [challenge EXCEPT ![c].kind = kind]
  BY DEF Create
<1>2. challenge[c].kind = "none" /\ UNCHANGED <<cred, device, signed, profile, job, history>>
  BY DEF Create
<1>3. TypeOK'
  BY <1>1, <1>2 DEF TypeOK, history
<1>4. \A r \in Slots : job[r].challenge # NoChallenge => Kept(job[r].challenge)
  <2> SUFFICES ASSUME NEW r \in Slots, job[r].challenge # NoChallenge
               PROVE  Kept(job[r].challenge)
    OBVIOUS
  <2>1. job[r].challenge \in Challenges /\ job[r].challenge # c
    BY <1>2, HeldChallenge, JobFields DEF JobsAreSound, JobIsSound
  <2> QED
    BY <1>1, <1>2, <2>1 DEF Kept, TypeOK, history
<1>5. JobsAreSound'
  BY <1>2, <1>4, OutsideStep DEF history
<1>6. ChallengesAreSound'
  BY <1>1, <1>2 DEF ChallengesAreSound, ChallengeIsSound, TypeOK, Kinds, history
<1> QED
  BY <1>2, <1>3, <1>5, <1>6 DEF FlagMatchesStatus

LEMMA ExpireKeeps ==
    ASSUME IInv, NEW c \in Challenges, Expire(c)
    PROVE  IInv'
<1> USE DEF IInv
<1>1. /\ challenge' = [challenge EXCEPT ![c].state = "expired"]
      /\ challenge[c].state = "open"
      /\ UNCHANGED <<cred, device, signed, profile, job, history>>
  BY DEF Expire
<1>2. TypeOK'
  BY <1>1 DEF TypeOK, history
<1>3. \A d \in Challenges : Kept(d)
  BY <1>1 DEF Kept, TypeOK, history
<1>4. JobsAreSound'
  BY <1>1, <1>3, OutsideStep, JobFields DEF history
<1>5. ChallengesAreSound'
  BY <1>1 DEF ChallengesAreSound, ChallengeIsSound, TypeOK, history
<1> QED
  BY <1>1, <1>2, <1>4, <1>5 DEF FlagMatchesStatus

LEMMA CreateKeyKeeps ==
    ASSUME IInv, NEW c \in Challenges, NEW k \in Credentials, CreateKey(c, k)
    PROVE  IInv'
<1> USE DEF IInv
<1>1. UNCHANGED <<challenge, cred, signed, profile, job, history>>
  BY DEF CreateKey
<1>2. TypeOK'
  BY <1>1, BoundAssumption DEF CreateKey, TypeOK, Counts, history
<1>3. \A d \in Challenges : Kept(d)
  BY <1>1 DEF Kept, history
<1>4. JobsAreSound'
  BY <1>1, <1>3, OutsideStep, JobFields DEF history
<1>5. ChallengesAreSound'
  BY <1>1, SameChallenges DEF history
<1> QED
  BY <1>1, <1>2, <1>4, <1>5 DEF FlagMatchesStatus

LEMMA SignKeeps ==
    ASSUME IInv, NEW c \in Challenges, Sign(c)
    PROVE  IInv'
<1> USE DEF IInv
<1>1. PICK k \in Registered : \E n \in {device[k].count, device[k].count + 1} :
         /\ n <= MaxCount /\ (n = device[k].count => n = 0)
         /\ device' = [device EXCEPT ![k].count = n]
         /\ signed' = [signed EXCEPT ![c] = [key |-> k, count |-> n]]
  BY DEF Sign
<1>2. PICK n \in {device[k].count, device[k].count + 1} :
         /\ n <= MaxCount /\ (n = device[k].count => n = 0)
         /\ device' = [device EXCEPT ![k].count = n]
         /\ signed' = [signed EXCEPT ![c] = [key |-> k, count |-> n]]
  BY <1>1
<1>3. signed[c].count = -1 /\ UNCHANGED <<challenge, cred, profile, job, history>>
  BY DEF Sign
<1>4. k \in Credentials /\ cred[k] # -1 /\ n \in Counts
  BY <1>2, BoundAssumption DEF Registered, TypeOK, Counts
<1>5. TypeOK'
  BY <1>2, <1>3, <1>4 DEF TypeOK, Key, history
<1>6. \A d \in Challenges : Kept(d)
  BY <1>2, <1>3 DEF Kept, TypeOK, history
<1>7. JobsAreSound'
  BY <1>3, <1>6, OutsideStep, JobFields DEF history
<1>8. ChallengesAreSound'
  BY <1>2, <1>3, <1>4 DEF ChallengesAreSound, ChallengeIsSound, TypeOK, history
<1> QED
  BY <1>3, <1>5, <1>7, <1>8 DEF FlagMatchesStatus

-----------------------------------------------------------------------------
(* Requests                                                                *)

LEMMA TakeKeeps ==
    ASSUME IInv, NEW s \in Slots, NEW c \in Challenges, NEW pc \in Pc, NEW answer \in Key,
           Take(s, c, pc, answer), challenge[c].state = "open", KindOf(pc) # "none",
           challenge[c].kind = KindOf(pc),
           pc = "register" => answer.key \in Credentials /\ answer.count >= 0,
           pc \in {"login", "verify"} => signed[c].count >= 0 /\ signed[c].key = answer.key
                                         /\ ValidCount(answer.count, signed[c].count),
           pc = "guess" => challenge[c].tries < MaxAttempts,
           UNCHANGED <<challenge, cred, device, signed, profile, uses, guesses>>
    PROVE  IInv'
<1> USE DEF IInv
<1> DEFINE j == [NoJob EXCEPT !.pc = pc, !.challenge = c, !.answer = answer,
                              !.tries = challenge[c].tries, !.profile = profile]
<1>1. /\ j \in Job /\ j.pc = pc /\ j.challenge = c /\ j.answer = answer
      /\ j.tries = challenge[c].tries /\ j.profile = profile
  BY DEF NoJob, Job, TypeOK
<1>2. job' = [job EXCEPT ![s] = j] /\ job[s].pc = "idle"
  BY DEF Take
<1> HIDE DEF j
<1>3. job'[s] = j /\ \A r \in Slots \ {s} : job'[r] = job[r]
  BY <1>2 DEF TypeOK
<1>4. twice' = IF \E r \in Slots : job[r].challenge = c THEN twice \cup {c} ELSE twice
  BY DEF Take
<1>5. TypeOK'
  BY <1>1, <1>2, <1>4 DEF TypeOK
<1>6. \A r \in Slots \ {s} : JobIsSound(r)'
  <2> SUFFICES ASSUME NEW r \in Slots \ {s} PROVE JobIsSound(r)'
    OBVIOUS
  <2>1. job[r].challenge # NoChallenge => Kept(job[r].challenge)
    BY <1>4 DEF Kept
  <2> QED
    BY <1>1, <1>3, <1>4, <2>1, KeptJob
<1>7. JobIsSound(s)'
  <2>1. c # NoChallenge /\ pc \notin {"idle", "edit"}
    BY BoundAssumption, Kinds4
  <2>2. c \notin twice' => uses[c] = 0
    BY <1>4 DEF ChallengesAreSound, ChallengeIsSound, TypeOK
  <2>3. \A r \in Slots \ {s} : job'[r].challenge = c => c \in twice'
    BY <1>3, <1>4
  <2> QED
    BY <1>1, <1>3, <2>1, <2>2, <2>3 DEF JobIsSound, FlagMatchesStatus
<1>8. ChallengesAreSound'
  BY <1>4, SameChallenges
<1> QED
  BY <1>5, <1>6, <1>7, <1>8 DEF JobsAreSound, FlagMatchesStatus

LEMMA LoadRegistrationKeeps ==
    ASSUME IInv, NEW s \in Slots, NEW c \in Challenges, NEW k \in Credentials,
           LoadRegistration(s, c, k)
    PROVE  IInv'
<1> DEFINE answer == [key |-> k, count |-> device[k].count]
<1>1. answer \in Key /\ answer.key \in Credentials /\ answer.count >= 0
  BY BoundAssumption DEF LoadRegistration, IInv, TypeOK, Counts, Key
<1>2. KindOf("register") = "registration" /\ "register" \in Pc
  BY DEF KindOf, Pc
<1> QED
  BY <1>1, <1>2, TakeKeeps DEF LoadRegistration, Usable

LEMMA LoadAssertionKeeps ==
    ASSUME IInv, NEW s \in Slots, NEW c \in Challenges, LoadAssertion(s, c)
    PROVE  IInv'
<1> DEFINE k == signed[c].key
<1>1. /\ k \in Credentials /\ cred[k] \in Counts /\ signed[c].count \in Counts
      /\ [key |-> k, count |-> cred[k]] \in Key
  BY DEF LoadAssertion, IInv, TypeOK, Key, ChallengesAreSound, ChallengeIsSound
<1>2. signed[c].count >= 0
  BY <1>1, BoundAssumption DEF LoadAssertion, Counts
<1>3. PICK pc \in {"login", "verify"} : Take(s, c, pc, [key |-> k, count |-> cred[k]])
  BY DEF LoadAssertion
<1>4. KindOf(pc) = "authentication" /\ pc \in Pc /\ pc # "register" /\ pc # "guess"
  BY DEF KindOf, Pc
<1> QED
  BY <1>1, <1>2, <1>3, <1>4, TakeKeeps DEF LoadAssertion, Usable

LEMMA LoadOtpKeeps ==
    ASSUME IInv, NEW s \in Slots, NEW c \in Challenges, LoadOtp(s, c)
    PROVE  IInv'
<1>1. KindOf("guess") = "otp" /\ "guess" \in Pc /\ NoKey \in Key
  BY IdleJob DEF KindOf, Pc
<1> QED
  BY <1>1, TakeKeeps DEF LoadOtp, Usable

\* a commit that accepts or counts challenge c, which the request in slot s holds
LEMMA CommitKeepsOthers ==
    ASSUME IInv, NEW s \in Slots, job[s].pc \notin {"idle", "edit"}, Close(s), twice' = twice,
           signed' = signed,
           NEW v, challenge' = [challenge EXCEPT ![job[s].challenge] = v],
           v.kind = challenge[job[s].challenge].kind,
           \A d \in Challenges \ {job[s].challenge} : uses'[d] = uses[d]
    PROVE  JobsAreSound' /\ job' \in [Slots -> Job]
<1> USE DEF IInv
<1> DEFINE c == job[s].challenge
<1>1. c \in Challenges /\ c # NoChallenge
  BY HeldChallenge, BoundAssumption
<1>2. ASSUME NEW r \in Slots \ {s}, job[r].challenge # NoChallenge
      PROVE  Kept(job[r].challenge)
  <2>1. job[r].challenge \in Challenges
    BY <1>2, JobFields
  <2>2. CASE job[r].challenge = c
    <3>1. c \in twice
      BY <1>1, <2>2 DEF JobsAreSound, JobIsSound
    <3> QED
      BY <1>1, <2>2, <3>1 DEF Kept, TypeOK
  <2>3. CASE job[r].challenge # c
    BY <1>1, <2>1, <2>3 DEF Kept, TypeOK
  <2> QED
    BY <2>2, <2>3
<1> QED
  BY <1>2, CloseStep

LEMMA CommitRegistrationKeeps ==
    ASSUME IInv, NEW s \in Slots, CommitRegistration(s)
    PROVE  IInv'
<1> USE DEF IInv
<1> DEFINE c == job[s].challenge
           k == job[s].answer.key
<1>1. /\ job[s].pc = "register" /\ Close(s)
      /\ UNCHANGED <<device, signed, profile, guesses, twice>>
  BY DEF CommitRegistration
<1>2. c \in Challenges /\ challenge[c].kind = "registration" /\ KindOf("register") = "registration"
  BY <1>1, HeldChallenge DEF KindOf
<1>3. /\ k \in Credentials
      /\ job[s].answer.count \in Counts /\ job[s].answer.count # -1
  BY <1>1, JobFields, BoundAssumption DEF JobsAreSound, JobIsSound, Counts
<1>4. CASE cred[k] # -1 /\ UNCHANGED <<cred, challenge, uses>>
  <2>1. JobsAreSound' /\ job' \in [Slots -> Job]
    <3>1. \A r \in Slots \ {s} : job[r].challenge # NoChallenge => Kept(job[r].challenge)
      BY <1>1, <1>4 DEF Kept
    <3> QED
      BY <1>1, <3>1, CloseStep
  <2>2. ChallengesAreSound'
    BY <1>1, <1>4, SameChallenges
  <2> QED
    BY <1>1, <1>4, <2>1, <2>2 DEF TypeOK, FlagMatchesStatus
<1>5. CASE /\ cred[k] = -1 /\ cred' = [cred EXCEPT ![k] = job[s].answer.count]
           /\ challenge' = Consumed(c) /\ uses' = Used(c)
  <2> DEFINE v == [challenge[c] EXCEPT !.state = "consumed"]
  <2>1. /\ challenge' = [challenge EXCEPT ![c] = v] /\ v.kind = "registration"
        /\ v.state = "consumed" /\ v.tries = challenge[c].tries
    BY <1>2, <1>5 DEF Consumed, TypeOK
  <2>2. \A d \in Challenges \ {c} : uses'[d] = uses[d]
    BY <1>2, <1>5 DEF Used, TypeOK
  <2>3. c \notin twice => uses'[c] = 1
    <3>1. c \notin twice => uses[c] = 0
      BY <1>1, <1>2, BoundAssumption DEF JobsAreSound, JobIsSound
    <3> QED
      BY <1>2, <1>5, <3>1 DEF Used, TypeOK
  <2>4. JobsAreSound' /\ job' \in [Slots -> Job]
    BY <1>1, <1>2, <2>1, <2>2, CommitKeepsOthers DEF TypeOK
  <2>5. TypeOK'
    <3>1. uses' \in [Challenges -> 0 .. 2] /\ cred' \in [Credentials -> Counts]
      BY <1>2, <1>3, <1>5 DEF Used, TypeOK
    <3> QED
      BY <1>1, <1>2, <2>1, <2>4, <3>1 DEF TypeOK
  <2>6. ChallengesAreSound'
    <3> SUFFICES ASSUME NEW d \in Challenges PROVE ChallengeIsSound(d)'
      BY DEF ChallengesAreSound
    <3>1. ChallengeIsSound(d) /\ \A e \in Credentials : cred[e] # -1 => cred'[e] # -1
      BY <1>3, <1>5 DEF ChallengesAreSound, TypeOK
    <3>2. challenge'[d] = IF d = c THEN v ELSE challenge[d]
      BY <1>2, <2>1 DEF TypeOK
    <3> HIDE DEF v
    <3> QED
      BY <1>1, <1>2, <2>1, <2>2, <2>3, <3>1, <3>2 DEF ChallengeIsSound
  <2> QED
    BY <1>1, <2>4, <2>5, <2>6 DEF FlagMatchesStatus
<1> QED
  BY <1>4, <1>5 DEF CommitRegistration

\* what a request writes leaves the flag and the status in agreement
LEMMA WrittenProfile ==
    ASSUME profile \in Profile, NEW old \in Profile, NEW new \in Profile, FlagMatchesStatus,
           old.verified <=> old.status = "verified",
           new.verified <=> new.status = "verified",
           old.status = "none" => profile.status = "none",
           new.status # "none"
    PROVE  /\ Written(old, new) \in Profile
           /\ Written(old, new).verified <=> Written(old, new).status = "verified"
           /\ Written(old, new).edit = IF new.edit # old.edit THEN new.edit ELSE profile.edit
BY DEF Written, Profile, Columns, FlagMatchesStatus

\* the profile a proof of identity writes, for a request that holds the old one
LEMMA VerifiedProfile ==
    ASSUME IInv, NEW s \in Slots
    PROVE  /\ Verified(job[s]) \in Profile /\ Verified(job[s]).edit = profile.edit
           /\ Verified(job[s]).verified <=> Verified(job[s]).status = "verified"
<1> DEFINE old == job[s].profile
           new == [old EXCEPT !.status = "verified", !.verified = TRUE,
                              !.stamped = IF job[s].pc = "verify" THEN TRUE ELSE @]
<1>1. old \in Profile /\ profile \in Profile /\ (old.verified <=> old.status = "verified")
  BY JobFields DEF IInv, JobsAreSound, JobIsSound, TypeOK
<1>2. CASE old.status = "none"
  BY <1>1, <1>2 DEF Verified, IInv, FlagMatchesStatus
<1>3. CASE old.status # "none"
  <2>1. Verified(job[s]) = Written(old, new)
    BY <1>3 DEF Verified
  <2>2. new \in Profile /\ new.status = "verified" /\ new.verified = TRUE /\ new.edit = old.edit
    BY <1>1 DEF Profile
  <2> HIDE DEF old, new
  <2> QED
    BY <1>1, <1>3, <2>1, <2>2, WrittenProfile DEF IInv
<1> QED
  BY <1>2, <1>3

LEMMA CommitAssertionKeeps ==
    ASSUME IInv, NEW s \in Slots, CommitAssertion(s)
    PROVE  IInv'
<1> USE DEF IInv
<1> DEFINE c == job[s].challenge
           k == job[s].answer.key
           v == [challenge[c] EXCEPT !.state = "consumed"]
<1>1. /\ job[s].pc \in {"login", "verify"} /\ Close(s) /\ challenge' = Consumed(c)
      /\ profile' \in {Verified(job[s]), profile} /\ uses' = Used(c)
      /\ cred' = IF signed[c].count = job[s].answer.count THEN cred
                 ELSE [cred EXCEPT ![k] = signed[c].count]
      /\ UNCHANGED <<device, signed, guesses, twice>>
  BY DEF CommitAssertion
<1>2. c \in Challenges /\ challenge[c].kind = "authentication" /\ c # NoChallenge
  BY <1>1, HeldChallenge, BoundAssumption DEF KindOf
<1>3. signed[c].count \in Counts /\ signed[c].count >= 0 /\ signed[c].count # -1
  BY <1>1, <1>2, BoundAssumption DEF JobsAreSound, JobIsSound, TypeOK, Key, Counts
<1>4. k \in Credentials /\ cred[k] # -1 /\ signed[c].key = k
  BY <1>1, <1>2, <1>3 DEF JobsAreSound, JobIsSound, ChallengesAreSound, ChallengeIsSound
<1>5. challenge' = [challenge EXCEPT ![c] = v] /\ v.kind = "authentication"
      /\ v.state = "consumed" /\ v.tries = challenge[c].tries
  BY <1>1, <1>2 DEF Consumed, TypeOK
<1>6. JobsAreSound' /\ job' \in [Slots -> Job]
  <2>1. \A d \in Challenges \ {c} : uses'[d] = uses[d]
    BY <1>1, <1>2 DEF Used, TypeOK
  <2>2. job[s].pc \notin {"idle", "edit"}
    BY <1>1
  <2> QED
    BY <1>1, <1>2, <1>5, <2>1, <2>2, CommitKeepsOthers
<1>7. TypeOK' /\ FlagMatchesStatus'
  <2>1. cred' \in [Credentials -> Counts] /\ uses' \in [Challenges -> 0 .. 2]
    BY <1>1, <1>2, <1>3, <1>4 DEF TypeOK, Used
  <2>2. profile' \in Profile /\ FlagMatchesStatus'
    BY <1>1, VerifiedProfile DEF TypeOK, FlagMatchesStatus
  <2> QED
    BY <1>1, <1>2, <1>5, <1>6, <2>1, <2>2 DEF TypeOK
<1>8. ChallengesAreSound'
  <2> SUFFICES ASSUME NEW d \in Challenges PROVE ChallengeIsSound(d)'
    BY DEF ChallengesAreSound
  <2>1. ChallengeIsSound(d)
    BY DEF ChallengesAreSound
  <2>2. \A e \in Credentials : cred'[e] # -1 <=> cred[e] # -1
    BY <1>1, <1>3, <1>4 DEF TypeOK
  <2>3. d # c => challenge'[d] = challenge[d] /\ uses'[d] = uses[d]
    BY <1>1, <1>2, <1>5 DEF TypeOK, Used
  <2>4. d = c => challenge'[c] = v /\ (c \notin twice => uses'[c] = 1)
    <3>1. c \notin twice => uses[c] = 0
      BY <1>2 DEF JobsAreSound, JobIsSound
    <3>2. c \notin twice => uses'[c] = 1
      BY <1>1, <1>2, <3>1 DEF TypeOK, Used
    <3>3. challenge'[c] = v
      BY <1>2, <1>5 DEF TypeOK
    <3> QED
      BY <3>2, <3>3
  <2> HIDE DEF v
  <2> QED
    BY <1>1, <1>2, <1>5, <2>1, <2>2, <2>3, <2>4 DEF ChallengeIsSound
<1> QED
  BY <1>6, <1>7, <1>8

LEMMA CommitOtpKeeps ==
    ASSUME IInv, NEW s \in Slots, CommitOtp(s)
    PROVE  IInv'
<1> USE DEF IInv
<1> DEFINE c == job[s].challenge
<1>1. /\ job[s].pc = "guess" /\ Close(s) /\ UNCHANGED <<cred, device, signed, profile, twice>>
      /\ guesses' = [guesses EXCEPT ![c] = IF @ > MaxAttempts THEN @ ELSE @ + 1]
  BY DEF CommitOtp
<1>2. c \in Challenges /\ challenge[c].kind = "otp" /\ c # NoChallenge
  BY <1>1, HeldChallenge, BoundAssumption DEF KindOf
<1>3. job[s].tries \in 0 .. MaxAttempts /\ job[s].tries + 1 \in 0 .. MaxAttempts
  BY <1>1, JobFields, BoundAssumption DEF JobsAreSound, JobIsSound
<1>4. PICK v \in [kind : Kinds, tries : 0 .. MaxAttempts,
                   state : {"open", "consumed", "expired"}] :
        /\ challenge' = [challenge EXCEPT ![c] = v]
        /\ v.kind = "otp" /\ v.tries = job[s].tries + 1
        /\ \/ v.state = "consumed" /\ uses' = Used(c)
           \/ v.state = challenge[c].state /\ uses' = uses
  <2> DEFINE accepted == [challenge[c] EXCEPT !.state = "consumed", !.tries = job[s].tries + 1]
             refused == [challenge[c] EXCEPT !.tries = job[s].tries + 1]
  <2>1. CASE challenge' = [Consumed(c) EXCEPT ![c].tries = job[s].tries + 1] /\ uses' = Used(c)
    <3>1. /\ challenge' = [challenge EXCEPT ![c] = accepted]
          /\ accepted \in [kind : Kinds, tries : 0 .. MaxAttempts,
                           state : {"open", "consumed", "expired"}]
          /\ accepted.kind = "otp" /\ accepted.tries = job[s].tries + 1
          /\ accepted.state = "consumed"
      BY <1>2, <1>3, <2>1 DEF Consumed, TypeOK
    <3> QED
      BY <2>1, <3>1
  <2>2. CASE challenge' = [challenge EXCEPT ![c].tries = Counted(c, job[s].tries)] /\ uses' = uses
    <3>1. /\ challenge' = [challenge EXCEPT ![c] = refused]
          /\ refused \in [kind : Kinds, tries : 0 .. MaxAttempts,
                          state : {"open", "consumed", "expired"}]
          /\ refused.kind = "otp" /\ refused.tries = job[s].tries + 1
          /\ refused.state = challenge[c].state
      BY <1>2, <1>3, <2>2 DEF Counted, TypeOK
    <3> QED
      BY <2>2, <3>1
  <2> QED
    BY <2>1, <2>2 DEF CommitOtp
<1>6. JobsAreSound' /\ job' \in [Slots -> Job]
  <2>1. \A d \in Challenges \ {c} : uses'[d] = uses[d]
    BY <1>2, <1>4 DEF Used, TypeOK
  <2>2. job[s].pc \notin {"idle", "edit"}
    BY <1>1
  <2> QED
    BY <1>1, <1>2, <1>4, <2>1, <2>2, CommitKeepsOthers
<1>7. TypeOK'
  <2>1. uses' \in [Challenges -> 0 .. 2] /\ guesses' \in [Challenges -> 0 .. MaxAttempts + 1]
    BY <1>1, <1>2, <1>4, BoundAssumption DEF TypeOK, Used
  <2>2. challenge' \in [Challenges -> [kind : Kinds, tries : 0 .. MaxAttempts,
                                       state : {"open", "consumed", "expired"}]]
    BY <1>2, <1>4 DEF TypeOK
  <2> QED
    BY <1>1, <1>6, <2>1, <2>2 DEF TypeOK
<1>8. ChallengesAreSound'
  <2> SUFFICES ASSUME NEW d \in Challenges PROVE ChallengeIsSound(d)'
    BY DEF ChallengesAreSound
  <2>1. ChallengeIsSound(d)
    BY DEF ChallengesAreSound
  <2>2. CASE d # c
    <3>1. challenge'[d] = challenge[d] /\ uses'[d] = uses[d] /\ guesses'[d] = guesses[d]
      BY <1>1, <1>2, <1>4, <2>2 DEF TypeOK, Used
    <3> QED
      BY <1>1, <2>1, <3>1 DEF ChallengeIsSound
  <2>3. CASE d = c
    <3>1. challenge'[c] = v
      BY <1>2, <1>4 DEF TypeOK
    <3>2. c \notin twice => uses[c] = 0 /\ guesses[c] = challenge[c].tries
                            /\ job[s].tries = challenge[c].tries
      BY <1>1, <1>2, <2>1, <2>3 DEF JobsAreSound, JobIsSound, ChallengeIsSound
    <3>3. c \notin twice => guesses'[c] = v.tries /\ uses'[c] \in {0, 1}
                            /\ (uses'[c] = 1 => v.state = "consumed")
      <4> SUFFICES ASSUME c \notin twice
                   PROVE  /\ guesses'[c] = v.tries /\ uses'[c] \in {0, 1}
                          /\ (uses'[c] = 1 => v.state = "consumed")
        OBVIOUS
      <4>1. guesses'[c] = guesses[c] + 1
        BY <1>1, <1>2, <1>3, <3>2, BoundAssumption DEF TypeOK
      <4>2. uses'[c] = 0 \/ (uses'[c] = 1 /\ v.state = "consumed")
        <5>1. Used(c)[c] = 1
          BY <1>2, <3>2 DEF TypeOK, Used
        <5> QED
          BY <1>4, <3>2, <5>1
      <4> QED
        BY <1>4, <3>2, <4>1, <4>2
    <3> QED
      BY <1>1, <1>2, <1>4, <2>1, <2>3, <3>1, <3>3 DEF ChallengeIsSound
  <2> QED
    BY <2>2, <2>3
<1> QED
  BY <1>1, <1>6, <1>7, <1>8 DEF FlagMatchesStatus

LEMMA LoadProfileKeeps ==
    ASSUME IInv, NEW s \in Slots, LoadProfile(s)
    PROVE  IInv'
<1> USE DEF IInv
<1> DEFINE j == [NoJob EXCEPT !.pc = "edit", !.profile = profile]
<1>1. /\ j \in Job /\ j.pc = "edit" /\ j.challenge = NoChallenge /\ j.profile = profile
  BY IdleJob DEF NoJob, Job, TypeOK, Pc
<1>2. job' = [job EXCEPT ![s] = j] /\ UNCHANGED <<challenge, cred, device, signed, profile, history>>
  BY DEF LoadProfile
<1> HIDE DEF j
<1>3. job'[s] = j /\ (\A r \in Slots \ {s} : job'[r] = job[r]) /\ TypeOK'
  BY <1>1, <1>2 DEF TypeOK, history
<1>4. \A r \in Slots \ {s} : JobIsSound(r)'
  <2>1. \A d : Kept(d)
    BY <1>2 DEF Kept, history
  <2> QED
    BY <1>1, <1>2, <1>3, <2>1, KeptJob DEF history
<1>5. JobIsSound(s)'
  BY <1>1, <1>3 DEF JobIsSound, FlagMatchesStatus
<1>6. ChallengesAreSound'
  BY <1>2, SameChallenges DEF history
<1> QED
  BY <1>2, <1>3, <1>4, <1>5, <1>6 DEF JobsAreSound, FlagMatchesStatus

LEMMA CommitProfileKeeps ==
    ASSUME IInv, NEW s \in Slots, CommitProfile(s)
    PROVE  IInv'
<1> USE DEF IInv
<1> DEFINE old == job[s].profile
           written == Written(old, Reset(old))
<1>1. Close(s) /\ UNCHANGED <<challenge, cred, device, signed, history>> /\ profile.edit < MaxEdits
  BY DEF CommitProfile
<1>2. JobsAreSound' /\ job' \in [Slots -> Job] /\ ChallengesAreSound'
  <2>1. \A d : Kept(d)
    BY <1>1 DEF Kept, history
  <2> QED
    BY <1>1, <2>1, CloseStep, SameChallenges DEF history
<1>3. profile' \in Profile /\ FlagMatchesStatus'
  <2>1. CASE UNCHANGED profile
    BY <2>1 DEF TypeOK, FlagMatchesStatus
  <2>2. CASE /\ old.status = "none" => profile.status = "none"
             /\ profile' = [written EXCEPT !.edit = profile.edit + 1]
    <3>1. old \in Profile /\ profile \in Profile /\ (old.verified <=> old.status = "verified")
      BY JobFields DEF JobsAreSound, JobIsSound, TypeOK
    <3>2. /\ Reset(old) \in Profile /\ Reset(old).status = "pending"
          /\ Reset(old).verified = FALSE
      BY <3>1 DEF Reset, Profile
    <3>3. written \in Profile /\ (written.verified <=> written.status = "verified")
      BY <2>2, <3>1, <3>2, WrittenProfile
    <3>4. profile.edit + 1 \in 0 .. MaxEdits
      BY <1>1, <3>1, BoundAssumption DEF Profile
    <3> HIDE DEF written
    <3> QED
      BY <2>2, <3>3, <3>4 DEF Profile, FlagMatchesStatus
  <2> QED
    BY <2>1, <2>2 DEF CommitProfile
<1> QED
  BY <1>1, <1>2, <1>3 DEF TypeOK, history

LEMMA EndKeeps ==
    ASSUME IInv, NEW s \in Slots, End(s)
    PROVE  IInv'
<1> USE DEF IInv
<1>1. Close(s) /\ UNCHANGED <<challenge, cred, device, signed, profile, history>>
  BY DEF End
<1>2. \A d : Kept(d)
  BY <1>1 DEF Kept, history
<1>3. JobsAreSound' /\ job' \in [Slots -> Job] /\ ChallengesAreSound'
  BY <1>1, <1>2, CloseStep, SameChallenges DEF history
<1> QED
  BY <1>1, <1>3 DEF TypeOK, FlagMatchesStatus, history

-----------------------------------------------------------------------------
(* The theorems                                                            *)

LEMMA InitHolds == Init => IInv
<1> SUFFICES ASSUME Init PROVE IInv
  OBVIOUS
<1>1. TypeOK
  BY IdleJob, BoundAssumption DEF Init, TypeOK, Counts, Kinds
<1>2. JobsAreSound
  BY IdleJob DEF Init, JobsAreSound, JobIsSound, NoProfile
<1>3. ChallengesAreSound /\ FlagMatchesStatus
  BY DEF Init, ChallengesAreSound, ChallengeIsSound, FlagMatchesStatus, NoProfile, NoKey
<1> QED
  BY <1>1, <1>2, <1>3 DEF IInv

LEMMA NextHolds == IInv /\ [Next]_vars => IInv'
<1> SUFFICES ASSUME IInv, [Next]_vars PROVE IInv'
  OBVIOUS
<1>1. CASE UNCHANGED vars
  BY <1>1 DEF vars, history, IInv, TypeOK, JobsAreSound, JobIsSound, ChallengesAreSound,
              ChallengeIsSound, FlagMatchesStatus
<1>2. ASSUME NEW c \in Challenges, Create(c) \/ Expire(c) \/ Sign(c)
      PROVE  IInv'
  BY <1>2, CreateKeeps, ExpireKeeps, SignKeeps
<1>3. ASSUME NEW s \in Slots,
             \/ CommitRegistration(s) \/ CommitAssertion(s) \/ LoadProfile(s)
             \/ CommitProfile(s) \/ CommitOtp(s) \/ End(s)
      PROVE  IInv'
  BY <1>3, CommitRegistrationKeeps, CommitAssertionKeeps, LoadProfileKeeps,
     CommitProfileKeeps, CommitOtpKeeps, EndKeeps
<1>4. ASSUME NEW s \in Slots, NEW c \in Challenges, LoadAssertion(s, c) \/ LoadOtp(s, c)
      PROVE  IInv'
  BY <1>4, LoadAssertionKeeps, LoadOtpKeeps
<1>5. ASSUME NEW c \in Challenges, NEW k \in Credentials,
             CreateKey(c, k) \/ \E s \in Slots : LoadRegistration(s, c, k)
      PROVE  IInv'
  BY <1>5, CreateKeyKeeps, LoadRegistrationKeeps
<1> QED
  BY <1>1, <1>2, <1>3, <1>4, <1>5 DEF Next

\* Challenges, credentials, the profile and what the requests in progress know of
\* them always agree (webauthn.py, otp.py, create_or_update_profile).
THEOREM Invariance == Spec => []IInv
BY InitHolds, NextHolds, PTL DEF Spec

\* A challenge is accepted once and a password compared with at most max_attempts
\* codes, unless two requests used it at once (finish_registration,
\* finish_authentication, consume_otp).
THEOREM ChallengeUsedOnce == Spec => []ChallengeIsUsedOnce
<1>1. IInv => ChallengeIsUsedOnce
  <2> SUFFICES ASSUME IInv, NEW c \in Challenges \ twice
               PROVE  uses[c] <= 1 /\ guesses[c] <= MaxAttempts
    BY DEF ChallengeIsUsedOnce
  <2>1. ChallengeIsSound(c) /\ challenge[c].tries \in 0 .. MaxAttempts
    BY DEF IInv, TypeOK, ChallengesAreSound
  <2> QED
    BY <2>1, BoundAssumption DEF ChallengeIsSound
<1> QED
  BY <1>1, Invariance, PTL

\* A stored counter only goes up, unless it moved while a request held it
\* (_validate_sign_count, finish_authentication).
THEOREM CounterOnlyAdvances == Spec => CounterAdvances
<1>1. ASSUME IInv, [Next]_vars, NEW k \in Credentials, cred' # cred
      PROVE  \/ cred'[k] >= cred[k]
             \/ \E s \in Slots : /\ job[s].pc \in {"login", "verify"}
                                 /\ job[s].answer.key = k
                                 /\ job[s].answer.count # cred[k]
  <2>1. PICK s \in Slots : CommitRegistration(s) \/ CommitAssertion(s)
    BY <1>1 DEF Next, vars, Create, Expire, CreateKey, Sign, LoadProfile, CommitProfile,
       CommitOtp, End, LoadRegistration, LoadAssertion, LoadOtp
  <2> DEFINE c == job[s].challenge
  <2>2. cred[k] \in Counts /\ job[s].answer.count \in Counts
    BY <1>1, JobFields DEF IInv, TypeOK
  <2>3. CASE CommitRegistration(s)
    <3>1. job[s].answer.count >= 0 /\ job[s].answer.key \in Credentials
      BY <1>1, <2>3, HeldChallenge DEF CommitRegistration, IInv, JobsAreSound, JobIsSound
    <3> QED
      BY <1>1, <2>2, <2>3, <3>1, BoundAssumption DEF CommitRegistration, IInv, TypeOK, Counts
  <2>4. CASE CommitAssertion(s)
    <3>1. c \in Challenges /\ job[s].pc \in {"login", "verify"}
      BY <1>1, <2>4, HeldChallenge DEF CommitAssertion
    <3>2. signed[c].count >= 0 /\ ValidCount(job[s].answer.count, signed[c].count)
      BY <1>1, <3>1 DEF IInv, JobsAreSound, JobIsSound
    <3>3. signed[c].count \in Counts
      BY <1>1, <3>1 DEF IInv, TypeOK, Key
    <3>4. cred' = [cred EXCEPT ![job[s].answer.key] = signed[c].count]
      BY <1>1, <2>4 DEF CommitAssertion
    <3> QED
      BY <1>1, <2>2, <3>1, <3>2, <3>3, <3>4, BoundAssumption
      DEF ValidCount, IInv, TypeOK, Counts
  <2> QED
    BY <2>1, <2>3, <2>4
<1>2. IInv /\ [Next]_vars =>
        [\A k \in Credentials : cred'[k] >= cred[k]
           \/ \E s \in Slots : /\ job[s].pc \in {"login", "verify"}
                               /\ job[s].answer.key = k
                               /\ job[s].answer.count # cred[k]]_vars
  <2> SUFFICES ASSUME IInv, [Next]_vars, NEW k \in Credentials
               PROVE  \/ cred'[k] >= cred[k]
                      \/ \E s \in Slots : /\ job[s].pc \in {"login", "verify"}
                                          /\ job[s].answer.key = k
                                          /\ job[s].answer.count # cred[k]
    OBVIOUS
  <2>1. CASE cred' = cred
    BY <2>1, BoundAssumption DEF IInv, TypeOK, Counts
  <2>2. CASE cred' # cred
    BY <2>2, <1>1
  <2> QED
    BY <2>1, <2>2
<1> QED
  BY <1>2, Invariance, PTL DEF Spec, CounterAdvances

\* An edited profile is unverified, unless it changed while the edit was in
\* progress (create_or_update_profile).
THEOREM EditedIsUnverified == Spec => EditNeedsVerification
<1>1. ASSUME IInv, [Next]_vars, profile'.edit # profile.edit
      PROVE  \/ profile'.status = "pending"
             \/ \E s \in Slots : job[s].pc = "edit" /\ job[s].profile # profile
  <2>1. PICK s \in Slots : CommitProfile(s) \/ CommitAssertion(s)
    BY <1>1 DEF Next, vars, Create, Expire, CreateKey, Sign, LoadProfile, CommitRegistration,
       CommitOtp, End, LoadRegistration, LoadAssertion, LoadOtp, Take
  <2>2. CASE CommitAssertion(s)
    BY <1>1, <2>2, VerifiedProfile DEF CommitAssertion
  <2>3. CASE CommitProfile(s) /\ job[s].profile = profile
    <3>1. Reset(profile).status = "pending" /\ profile \in Profile
      BY <1>1 DEF Reset, IInv, TypeOK, Profile
    <3>2. Written(profile, Reset(profile)).status = "pending"
      BY <3>1 DEF Written, Columns, Profile
    <3>3. profile' = [Written(profile, Reset(profile)) EXCEPT !.edit = profile.edit + 1]
      BY <1>1, <2>3 DEF CommitProfile
    <3> QED
      BY <3>2, <3>3 DEF Written, Columns
  <2>4. CASE CommitProfile(s) /\ job[s].profile # profile
    BY <2>4 DEF CommitProfile
  <2> QED
    BY <2>1, <2>2, <2>3, <2>4
<1> QED
  BY <1>1, Invariance, PTL DEF Spec, EditNeedsVerification

-----------------------------------------------------------------------------
(* No two requests work on one challenge, credential or profile at a time.  *)

\* A slot keeps its request, ends it, or begins one with what it then reads.
LEMMA SameRequest ==
    ASSUME IInv, [Next]_vars, NEW s \in Slots
    PROVE  \/ job'[s] = job[s] \/ job'[s] = NoJob
           \/ /\ job[s].pc = "idle" /\ UNCHANGED <<cred, signed, profile>>
              /\ job'[s].profile = profile
              /\ job'[s].pc \in {"login", "verify"} =>
                    job'[s].answer.count = cred[job'[s].answer.key]
<1>0. TypeOK
  BY DEF IInv
<1>1. ASSUME NEW r \in Slots,
             \/ CommitRegistration(r) \/ CommitAssertion(r) \/ CommitProfile(r)
             \/ CommitOtp(r) \/ End(r)
      PROVE  job'[s] = job[s] \/ job'[s] = NoJob
  BY <1>0, <1>1
  DEF CommitRegistration, CommitAssertion, CommitProfile, CommitOtp, End, Close, TypeOK
<1>2. ASSUME NEW r \in Slots, LoadProfile(r)
      PROVE  \/ job'[s] = job[s]
             \/ /\ job[s].pc = "idle" /\ UNCHANGED <<cred, signed, profile>>
                /\ job'[s].profile = profile /\ job'[s].pc = "edit"
  BY <1>0, <1>2 DEF LoadProfile, TypeOK, NoJob
<1>3. ASSUME NEW r \in Slots, NEW c \in Challenges, NEW pc, NEW n, Take(r, c, pc, n)
      PROVE  \/ job'[s] = job[s]
             \/ /\ job[s].pc = "idle" /\ job'[s].profile = profile
                /\ job'[s].pc = pc /\ job'[s].challenge = c /\ job'[s].answer = n
  BY <1>0, <1>3 DEF Take, TypeOK, NoJob
<1>4. ASSUME NEW r \in Slots, NEW c \in Challenges,
             LoadOtp(r, c) \/ \E k \in Credentials : LoadRegistration(r, c, k)
      PROVE  \/ job'[s] = job[s]
             \/ /\ job[s].pc = "idle" /\ UNCHANGED <<cred, signed, profile>>
                /\ job'[s].profile = profile /\ job'[s].pc \in {"register", "guess"}
  BY <1>3, <1>4 DEF LoadRegistration, LoadOtp
<1>5. ASSUME NEW r \in Slots, NEW c \in Challenges, LoadAssertion(r, c)
      PROVE  \/ job'[s] = job[s]
             \/ /\ job[s].pc = "idle" /\ UNCHANGED <<cred, signed, profile>>
                /\ job'[s].profile = profile
                /\ job'[s].answer.count = cred[job'[s].answer.key]
  BY <1>3, <1>5 DEF LoadAssertion
<1>6. ASSUME NEW c \in Challenges,
             Create(c) \/ Expire(c) \/ Sign(c) \/ \E k \in Credentials : CreateKey(c, k)
      PROVE  job'[s] = job[s]
  BY <1>6 DEF Create, Expire, CreateKey, Sign
<1>7. CASE UNCHANGED vars
  BY <1>7 DEF vars
<1> QED
  BY <1>1, <1>2, <1>4, <1>5, <1>6, <1>7 DEF Next

\* At most one request at a time uses challenge c.
ChallengeApart(c) == \A r, s \in Slots : job[r].challenge = c /\ job[s].challenge = c => r = s

LEMMA NotTwice ==
    ASSUME NEW c \in Challenges, IInv, c \notin twice, ChallengeApart(c)', [Next]_vars
    PROVE  c \notin twice'
<1>1. ASSUME NEW s \in Slots, NEW d \in Challenges, NEW pc, NEW n, Take(s, d, pc, n)
      PROVE  c \notin twice'
  <2>1. job'[s].challenge = d
    BY <1>1 DEF Take, IInv, TypeOK, NoJob
  <2>2. \A r \in Slots : job[r].challenge = d => r # s /\ job'[r] = job[r]
    BY <1>1, BoundAssumption DEF Take, IInv, TypeOK, JobsAreSound, JobIsSound
  <2>3. \A r \in Slots : job[r].challenge = d => c # d
    BY <2>1, <2>2 DEF ChallengeApart
  <2> QED
    BY <1>1, <2>3 DEF Take
<1>2. ASSUME NEW s \in Slots, NEW d \in Challenges,
             \/ LoadAssertion(s, d) \/ LoadOtp(s, d)
             \/ \E k \in Credentials : LoadRegistration(s, d, k)
      PROVE  c \notin twice'
  BY <1>1, <1>2 DEF LoadRegistration, LoadAssertion, LoadOtp
<1> QED
  BY <1>2
  DEF Next, vars, history, Create, Expire, CreateKey, Sign, CommitRegistration, CommitAssertion,
      LoadProfile, CommitProfile, CommitOtp, End

\* A challenge that no two requests use at once is accepted at most once, and a one-time
\* password compared with at most max_attempts codes (webauthn.py, otp.py).
THEOREM ApartChallenges ==
    ASSUME NEW c \in Challenges
    PROVE  Spec /\ []ChallengeApart(c) => [](uses[c] <= 1 /\ guesses[c] <= MaxAttempts)
<1> DEFINE Once == c \notin twice
<1>1. Init => Once
  BY DEF Init
<1>2. IInv /\ Once /\ ChallengeApart(c)' /\ [Next]_vars => Once'
  BY NotTwice
<1>3. Once /\ ChallengeIsUsedOnce => uses[c] <= 1 /\ guesses[c] <= MaxAttempts
  BY DEF ChallengeIsUsedOnce
<1> HIDE DEF Once
<1> QED
  BY <1>1, <1>2, <1>3, Invariance, ChallengeUsedOnce, PTL DEF Spec

\* The request in s has read the counter of key k.
Holds(s, k) == job[s].pc \in {"login", "verify"} /\ job[s].answer.key = k

KeyApart(k) == \A r, s \in Slots : Holds(r, k) /\ Holds(s, k) => r = s

CountIsFresh(k) == \A s \in Slots : Holds(s, k) => job[s].answer.count = cred[k]

LEMMA CountIsFreshNext ==
    ASSUME NEW k \in Credentials, IInv, KeyApart(k), CountIsFresh(k), [Next]_vars
    PROVE  CountIsFresh(k)'
<1> SUFFICES ASSUME NEW s \in Slots, Holds(s, k)'
             PROVE  job'[s].answer.count = cred'[k]
  BY DEF CountIsFresh
<1>1. CASE job'[s] = job[s]
  <2> DEFINE c == job[s].challenge
  <2>1. /\ Holds(s, k) /\ c \in Challenges
        /\ signed[c].count >= 0 /\ signed[c].key = k
    BY <1>1, HeldChallenge DEF Holds, IInv, JobsAreSound, JobIsSound
  <2>4. cred[k] # -1
    BY <2>1 DEF IInv, ChallengesAreSound, ChallengeIsSound
  <2>5. ASSUME NEW r \in Slots, CommitRegistration(r)
        PROVE  cred'[k] = cred[k]
    BY <2>4, <2>5 DEF CommitRegistration, IInv, TypeOK
  <2>6. ASSUME NEW r \in Slots, CommitAssertion(r)
        PROVE  cred'[k] = cred[k]
    <3>1. r # s
      BY <1>1, <2>1, <2>6, IdleJob DEF Holds, CommitAssertion, Close, IInv, TypeOK
    <3>2. job[r].answer.key # k
      BY <2>1, <2>6, <3>1 DEF KeyApart, Holds, CommitAssertion
    <3> QED
      BY <2>6, <3>2 DEF CommitAssertion, IInv, TypeOK
  <2>7. cred'[k] = cred[k]
    BY <2>5, <2>6
    DEF Next, vars, Create, Expire, CreateKey, Sign, CommitOtp, LoadProfile, CommitProfile, End,
        LoadRegistration, LoadAssertion, LoadOtp
  <2> QED
    BY <1>1, <2>1, <2>7 DEF CountIsFresh
<1>2. CASE job'[s] # job[s]
  BY <1>2, SameRequest, IdleJob DEF Holds
<1> QED
  BY <1>1, <1>2

\* The stored counter of a credential that no two requests check at once never falls
\* (_validate_sign_count, finish_authentication).
THEOREM ApartCounters ==
    ASSUME NEW x \in Credentials
    PROVE  Spec /\ []KeyApart(x) => [][cred'[x] >= cred[x]]_vars
<1>1. Init => CountIsFresh(x)
  BY IdleJob DEF Init, CountIsFresh, Holds
<1>2. IInv /\ KeyApart(x) /\ CountIsFresh(x) /\ [Next]_vars => CountIsFresh(x)'
  BY CountIsFreshNext
<1>3. Spec /\ []KeyApart(x) => []CountIsFresh(x)
  BY <1>1, <1>2, Invariance, PTL DEF Spec
<1>4. CountIsFresh(x) /\ [\A k \in Credentials : cred'[k] >= cred[k]
                            \/ \E s \in Slots : /\ job[s].pc \in {"login", "verify"}
                                                /\ job[s].answer.key = k
                                                /\ job[s].answer.count # cred[k]]_vars
        => [cred'[x] >= cred[x]]_vars
  BY DEF CountIsFresh, Holds
<1> QED
  BY <1>3, <1>4, CounterOnlyAdvances, PTL DEF CounterAdvances

\* While a request edits the profile no other one edits or verifies it.
EditApart ==
    \A r, s \in Slots :
      job[s].pc = "edit" /\ job[r].pc \in {"edit", "login", "verify"} => r = s

EditIsFresh == \A s \in Slots : job[s].pc = "edit" => job[s].profile = profile

LEMMA EditIsFreshNext == IInv /\ EditApart /\ EditIsFresh /\ [Next]_vars => EditIsFresh'
<1> SUFFICES ASSUME IInv, EditApart, EditIsFresh, [Next]_vars,
                    NEW s \in Slots, job'[s].pc = "edit"
             PROVE  job'[s].profile = profile'
  BY DEF EditIsFresh
<1>1. CASE job'[s] = job[s]
  <2>1. ASSUME NEW r \in Slots, CommitAssertion(r) \/ CommitProfile(r)
        PROVE  FALSE
    <3>1. r = s
      BY <1>1, <2>1 DEF EditApart, CommitAssertion, CommitProfile
    <3> QED
      BY <1>1, <2>1, <3>1, IdleJob DEF CommitAssertion, CommitProfile, Close, IInv, TypeOK
  <2>2. profile' = profile
    BY <2>1
    DEF Next, vars, Create, Expire, CreateKey, Sign, CommitOtp, LoadProfile, CommitRegistration,
        End, LoadRegistration, LoadAssertion, LoadOtp
  <2> QED
    BY <1>1, <2>2 DEF EditIsFresh
<1>2. CASE job'[s] # job[s]
  BY <1>2, SameRequest, IdleJob
<1> QED
  BY <1>1, <1>2

\* If no edit overlaps another edit or a verification of the profile, every edit takes
\* the verification back (create_or_update_profile).
THEOREM ApartEdits ==
    Spec /\ []EditApart => [][profile'.edit # profile.edit => profile'.status = "pending"]_vars
<1>1. Init => EditIsFresh
  BY IdleJob DEF Init, EditIsFresh
<1>2. IInv /\ EditApart /\ EditIsFresh /\ [Next]_vars => EditIsFresh'
  BY EditIsFreshNext
<1>3. EditIsFresh /\ [profile'.edit # profile.edit =>
                         \/ profile'.status = "pending"
                         \/ \E s \in Slots : job[s].pc = "edit" /\ job[s].profile # profile]_vars
        => [profile'.edit # profile.edit => profile'.status = "pending"]_vars
  BY DEF EditIsFresh
<1> QED
  BY <1>1, <1>2, <1>3, Invariance, EditedIsUnverified, PTL DEF Spec, EditNeedsVerification

=============================================================================
