------------------------- MODULE ConversationsProofs -------------------------
(***************************************************************************)
(* Proofs about Conversations, for any conversations, facts, items and     *)
(* requests: the inductive invariant, the numbers of the messages, what a  *)
(* deletion leaves, and what becomes of removed items and revoked          *)
(* permissions.                                                            *)
(***************************************************************************)
EXTENDS Conversations, TLAPS, WellFoundedInduction

-----------------------------------------------------------------------------
(* The last message.  A set of numbers has a least element because < is    *)
(* well-founded on the naturals; this stands for induction here.           *)

LEMMA LeastNumber ==
    ASSUME NEW T \in SUBSET Nat, T # {}
    PROVE  \E x \in T : \A y \in T : x <= y
<1> DEFINE R == {p \in Nat \X Nat : p[1] < p[2]}
<1>1. IsWellFoundedOn(R, Nat)
  BY NatLessThanWellFounded DEF OpToRel
<1>2. \E x \in T : \A y \in T : ~ (<<y, x>> \in R)
  <2> HIDE DEF R
  <2> QED
    BY <1>1, WFMin
<1>3. PICK x \in T : \A y \in T : ~ (<<y, x>> \in R)
  BY <1>2
<1>4. x \in T /\ \A y \in T : y \in Nat
  OBVIOUS
<1>5. \A y \in T : x <= y
  <2> SUFFICES ASSUME NEW y \in T PROVE x <= y
    OBVIOUS
  <2>1. <<y, x>> \in Nat \X Nat /\ ~(<<y, x>> \in R)
    BY <1>3, <1>4
  <2>2. ~(y < x)
    BY <2>1
  <2> QED
    BY <1>4, <2>2
<1> QED
  BY <1>4, <1>5

\* a function to Nat has a maximum on a set of numbers up to N
LEMMA Greatest ==
    ASSUME NEW N \in Nat, NEW f, NEW S \in SUBSET (1 .. N), S # {},
           \A n \in S : f[n] \in Nat
    PROVE  \E m \in S : \A n \in S : f[n] <= f[m]
<1> DEFINE Below(k) == S \cap 1 .. k
           HasMax(k) == \E m \in Below(k) : \A n \in Below(k) : f[n] <= f[m]
           T == {k \in 1 .. N : Below(k) # {} /\ ~HasMax(k)}
<1>1. SUFFICES ASSUME T # {} PROVE FALSE
  <2>1. PICK n \in S : TRUE
    OBVIOUS
  <2>2. N \in 1 .. N
    BY <2>1
  <2>3. Below(N) = S
    OBVIOUS
  <2> QED
    BY <2>2, <2>3
<1>2. PICK k \in T : \A l \in T : k <= l
  <2>1. T \in SUBSET Nat
    OBVIOUS
  <2> HIDE DEF T
  <2> QED
    BY <1>1, <2>1, LeastNumber
<1>3. k \in 1 .. N /\ Below(k) # {} /\ ~HasMax(k)
  OBVIOUS
<1>4. CASE Below(k - 1) = {}
  <2>1. \A n \in Below(k) : n = k
    BY <1>3, <1>4
  <2> QED
    BY <1>3, <2>1
<1>5. CASE Below(k - 1) # {}
  <2>1. k - 1 \in 1 .. N /\ k - 1 \notin T
    BY <1>2, <1>3, <1>5
  <2>2. PICK m \in Below(k - 1) : \A n \in Below(k - 1) : f[n] <= f[m]
    BY <1>5, <2>1
  <2>3. \A n \in Below(k) : n \in Below(k - 1) \/ n = k
    BY <1>3
  <2>4. CASE k \in S /\ f[m] <= f[k]
    <3>1. k \in Below(k) /\ \A n \in Below(k) : f[n] <= f[k]
      BY <1>3, <2>2, <2>3, <2>4
    <3> QED
      BY <1>3, <3>1
  <2>5. CASE ~(k \in S /\ f[m] <= f[k])
    <3>1. m \in Below(k) /\ \A n \in Below(k) : f[n] <= f[m]
      BY <1>3, <2>2, <2>3, <2>5
    <3> QED
      BY <1>3, <3>1
  <2> QED
    BY <2>4, <2>5
<1> QED
  BY <1>4, <1>5

LEMMA LastIsGreatest ==
    ASSUME TypeOK, NEW s \in Slots
    PROVE  /\ Last(s) \in Nat
           /\ \A m \in Visible(s) : message[m].seq <= Last(s)
           /\ Last(s) # 0 => \E m \in Visible(s) : message[m].seq = Last(s)
<1>1. CASE Visible(s) = {}
  BY <1>1 DEF Last
<1>2. CASE Visible(s) # {}
  <2> DEFINE f == [m \in Messages |-> message[m].seq]
  <2>1. Visible(s) \in SUBSET (1 .. MaxMessages) /\ \A m \in Visible(s) : f[m] \in Nat
    BY DEF Visible, TypeOK, Message, Messages
  <2>2. \A m \in Visible(s) : f[m] = message[m].seq
    BY <2>1 DEF Messages
  <2> HIDE DEF f
  <2>3. \E m \in Visible(s) : \A n \in Visible(s) : f[n] <= f[m]
    BY <1>2, <2>1, Greatest, BoundAssumption
  <2>4. \E m \in Visible(s) : \A n \in Visible(s) : message[n].seq <= message[m].seq
    BY <2>2, <2>3
  <2> DEFINE last == CHOOSE m \in Visible(s) :
                        \A n \in Visible(s) : message[n].seq <= message[m].seq
  <2>5. last \in Visible(s) /\ \A n \in Visible(s) : message[n].seq <= message[last].seq
    BY <2>4
  <2>6. Last(s) = message[last].seq
    BY <1>2 DEF Last
  <2> HIDE DEF last
  <2> QED
    BY <2>1, <2>2, <2>5, <2>6
<1> QED
  BY <1>1, <1>2

-----------------------------------------------------------------------------
(* What every step preserves of what the requests in progress rely on.     *)

LEMMA JobFields ==
    ASSUME TypeOK, NEW s \in Slots
    PROVE  /\ job[s] \in Job /\ job[s].pc \in Pc /\ job[s].conv \in Convs \cup {NoConv}
           /\ job[s].new \in BOOLEAN /\ job[s].pending \subseteq Messages
           /\ job[s].facts \subseteq Facts /\ job[s].item \in Items \cup {NoItem}
           /\ job[s].was \in Permission /\ job[s].gone \in BOOLEAN
BY DEF TypeOK, Job

LEMMA IdleJob ==
    /\ NoJob \in Job /\ NoJob.pc = "idle" /\ NoJob.conv = NoConv /\ NoJob.pending = {}
    /\ NoJob.facts = {}
BY DEF NoJob, Job, Pc, NoPermission, Permission

LEMMA IdleIsSound ==
    ASSUME NEW s \in Slots, job'[s] = NoJob
    PROVE  JobIsSound(s)'
BY IdleJob, BoundAssumption DEF JobIsSound, Chatting

LEMMA Closed ==
    ASSUME IInv, NEW s \in Slots, Close(s)
    PROVE  /\ job' \in [Slots -> Job] /\ job'[s] = NoJob
           /\ \A x \in Slots \ {s} : job'[x] = job[x]
BY IdleJob DEF Close, IInv, TypeOK

\* a request whose conversation is its own, or shared, and whose pending messages
\* are untouched stays sound
LEMMA KeptJob ==
    ASSUME IInv, NEW x \in Slots, shared \subseteq shared',
           job'[x].pc = job[x].pc, job'[x].conv = job[x].conv, job'[x].new = job[x].new,
           job'[x].pending = job[x].pending, job'[x].facts = job[x].facts,
           job'[x].item = job[x].item,
           \A i \in Items : item[i].state # "none" => item'[i].state # "none",
           \A m \in job[x].pending : message'[m] = message[m],
           job[x].conv \in Convs \ shared' =>
             /\ conv'[job[x].conv] = conv[job[x].conv]
             /\ \A i \in Items : item'[i].state = "active" /\ item'[i].conv = job[x].conv
                                   => item'[i] = item[i] \/ item'[i].edited
    PROVE  JobIsSound(x)'
<1>1. JobIsSound(x) /\ job[x].item \in Items \cup {NoItem}
  BY JobFields DEF IInv, JobsAreSound
<1> QED
  BY <1>1 DEF JobIsSound

\* a step of one request that writes no conversation, message or item
LEMMA QuietStep ==
    ASSUME IInv, NEW s \in Slots, UNCHANGED <<conv, message, item>>,
           perm' \in [Items -> Permission], job' \in [Slots -> Job],
           shared \subseteq shared', shared' \subseteq Convs,
           JobIsSound(s)', job'[s].pending = job[s].pending,
           \/ job'[s].conv \in {job[s].conv, NoConv} \cup shared'
           \/ \A x \in Slots : job[x].conv # job'[s].conv,
           \A x \in Slots \ {s} :
             /\ job'[x].pc = job[x].pc /\ job'[x].conv = job[x].conv
             /\ job'[x].new = job[x].new /\ job'[x].pending = job[x].pending
             /\ job'[x].facts = job[x].facts /\ job'[x].item = job[x].item
    PROVE  IInv'
<1>1. TypeOK'
  BY DEF IInv, TypeOK
<1>2. JobsAreSound'
  BY KeptJob DEF JobsAreSound
<1>3. HeldOnce'
  BY BoundAssumption DEF IInv, HeldOnce
<1>4. RowsAreSound'
  BY DEF IInv, RowsAreSound
<1>5. StoredAreNumbered' /\ MessagesAreNumbered'
  BY DEF IInv, StoredAreNumbered, MessagesAreNumbered
<1>6. DeletedIsForgotten' /\ MemoryIsUnique'
  BY DEF IInv, DeletedIsForgotten, MemoryIsUnique
<1> QED
  BY <1>1, <1>2, <1>3, <1>4, <1>5, <1>6 DEF IInv

-----------------------------------------------------------------------------
(* A chat with the agent                                                   *)

LEMMA OpenChatKeeps ==
    ASSUME IInv, NEW s \in Slots, OpenChat(s)
    PROVE  IInv'
<1>1. PICK c \in Convs, new \in BOOLEAN :
        /\ IF new THEN There = {} /\ conv[c] = "none" /\ \A r \in Slots : job[r].conv # c
                  ELSE c \in There
        /\ job' = [job EXCEPT ![s] = [NoJob EXCEPT !.pc = "open", !.conv = c, !.new = new]]
        /\ shared' = IF \E r \in Slots : job[r].conv = c THEN shared \cup {c} ELSE shared
  BY DEF OpenChat
<1> DEFINE j == [NoJob EXCEPT !.pc = "open", !.conv = c, !.new = new]
<1>2. /\ j \in Job /\ j.pc = "open" /\ j.conv = c /\ j.new = new /\ j.pending = {}
      /\ j.facts = {}
  BY IdleJob DEF NoJob, Job, Pc, Chatting
<1>3. /\ UNCHANGED <<conv, message, item>> /\ perm' = perm /\ job[s].pc = "idle"
      /\ job' = [job EXCEPT ![s] = j]
  BY <1>1 DEF OpenChat, rows
<1> HIDE DEF j
<1>4. job' \in [Slots -> Job] /\ job'[s] = j /\ \A x \in Slots \ {s} : job'[x] = job[x]
  BY <1>2, <1>3 DEF IInv, TypeOK
<1>5. shared \subseteq shared' /\ shared' \subseteq Convs
  BY <1>1 DEF IInv, TypeOK
<1>6. JobIsSound(s)'
  BY <1>1, <1>2, <1>3, <1>4, BoundAssumption DEF JobIsSound, Chatting, There
<1>7. job[s].pending = {}
  <2>1. job[s].conv = NoConv /\ JobIsSound(s)
    BY <1>3 DEF IInv, JobsAreSound, JobIsSound, Chatting
  <2>2. \A m \in job[s].pending : m \in Messages
    BY JobFields DEF IInv
  <2> QED
    BY <2>1, <2>2 DEF IInv, RowsAreSound, JobIsSound
<1>8. job'[s].conv \in shared' \/ \A x \in Slots : job[x].conv # job'[s].conv
  BY <1>1, <1>2, <1>4
<1> QED
  BY <1>2, <1>3, <1>4, <1>5, <1>6, <1>7, <1>8, QuietStep DEF IInv, TypeOK

\* a request outside a chat has no message and no conversation
LEMMA OutsideChat ==
    ASSUME IInv, NEW s \in Slots, job[s].pc \notin Chatting
    PROVE  job[s].conv = NoConv /\ job[s].pending = {}
<1>1. job[s].conv = NoConv /\ JobIsSound(s)
  BY DEF IInv, JobsAreSound, JobIsSound
<1>2. \A m \in job[s].pending : m \in Messages
  BY JobFields DEF IInv
<1> QED
  BY <1>1, <1>2 DEF IInv, RowsAreSound, JobIsSound

\* the conversation of a chat
LEMMA InsideChat ==
    ASSUME IInv, NEW s \in Slots, job[s].pc \in Chatting
    PROVE  /\ job[s].conv \in Convs /\ JobIsSound(s) /\ job[s] \in Job
           /\ job[s].pending \subseteq Messages
BY JobFields DEF IInv, JobsAreSound, JobIsSound

\* all a chat sees of a conversation it does not share
LEMMA SeesItsConversation ==
    ASSUME IInv, NEW s \in Slots, job[s].pc \in Chatting, job[s].conv \notin shared,
           NEW m \in Messages, message[m].conv = job[s].conv
    PROVE  m \in Visible(s)
<1>1. job[s].conv \in Convs /\ message[m].state # "none"
  BY InsideChat, BoundAssumption DEF IInv, RowsAreSound
<1>2. message[m].state \in {"none", "pending", "stored"}
  BY DEF IInv, TypeOK, Message
<1>3. CASE message[m].state = "pending"
  <2>1. PICK x \in Slots : m \in job[x].pending
    BY <1>3 DEF IInv, RowsAreSound
  <2>2. job[x].conv = job[s].conv
    BY <2>1 DEF IInv, JobsAreSound, JobIsSound
  <2> QED
    BY <1>1, <2>1, <2>2 DEF IInv, HeldOnce, Visible
<1> QED
  BY <1>1, <1>2, <1>3 DEF Visible

LEMMA AppendMessageKeeps ==
    ASSUME IInv, NEW s \in Slots, NEW role \in {"user", "assistant"}, AppendMessage(s, role)
    PROVE  IInv'
<1> DEFINE c == job[s].conv
<1>1. PICK m \in Messages :
        /\ message[m].state = "none"
        /\ message' = [message EXCEPT ![m] = [state |-> "pending", conv |-> c,
                                              seq |-> NextNumber(s), role |-> role]]
        /\ job' = [job EXCEPT ![s].pc = IF role = "user" THEN "asked" ELSE "answered",
                              ![s].pending = @ \cup {m}]
  BY DEF AppendMessage
<1> DEFINE j == [job[s] EXCEPT !.pc = IF role = "user" THEN "asked" ELSE "answered",
                               !.pending = @ \cup {m}]
<1>2. job[s].pc \in Chatting /\ UNCHANGED <<conv, item, perm, shared>>
  BY DEF AppendMessage, Chatting
<1>3. c \in Convs /\ JobIsSound(s) /\ job[s] \in Job /\ job[s].pending \subseteq Messages
  BY <1>2, InsideChat
<1>4. /\ j \in Job /\ j.pc \in Chatting /\ j.conv = c /\ j.new = job[s].new
      /\ j.pending = job[s].pending \cup {m} /\ j.facts = job[s].facts /\ j.pc # "remove"
  BY <1>3 DEF Job, Pc, Chatting
<1>5. job' = [job EXCEPT ![s] = j]
  BY <1>1
<1> HIDE DEF j
<1>6. job' \in [Slots -> Job] /\ job'[s] = j /\ \A x \in Slots \ {s} : job'[x] = job[x]
  BY <1>4, <1>5 DEF IInv, TypeOK
<1>7. NextNumber(s) \in Nat /\ NextNumber(s) = Last(s) + 1 /\ Last(s) \in Nat
  BY LastIsGreatest DEF IInv, NextNumber
<1>8. /\ message'[m].state = "pending" /\ message'[m].conv = c
      /\ message'[m].seq = Last(s) + 1 /\ \A n \in Messages \ {m} : message'[n] = message[n]
      /\ message' \in [Messages -> Message]
  BY <1>1, <1>3, <1>7 DEF IInv, TypeOK, Message
<1>9. TypeOK'
  BY <1>2, <1>6, <1>8 DEF IInv, TypeOK
<1>10. \A x \in Slots : m \notin job[x].pending
  BY <1>1 DEF IInv, JobsAreSound, JobIsSound
<1>11. JobsAreSound'
  <2>1. JobIsSound(s)'
    BY <1>2, <1>3, <1>4, <1>6, <1>8, BoundAssumption DEF JobIsSound
  <2>2. \A x \in Slots \ {s} : JobIsSound(x)'
    BY <1>2, <1>6, <1>8, <1>10, KeptJob, JobFields DEF IInv
  <2> QED
    BY <2>1, <2>2 DEF JobsAreSound
<1>12. HeldOnce'
  BY <1>2, <1>4, <1>6, <1>10 DEF IInv, HeldOnce
<1>13. RowsAreSound'
  BY <1>2, <1>3, <1>4, <1>6, <1>8, BoundAssumption DEF IInv, RowsAreSound
<1>14. message[m].conv = NoConv
  BY <1>1 DEF IInv, RowsAreSound
<1>15. StoredAreNumbered'
  BY <1>1, <1>2, <1>8 DEF IInv, StoredAreNumbered
<1>16. MessagesAreNumbered'
  <2> SUFFICES ASSUME NEW d \in Convs \ shared', NEW a \in Messages, message'[a].conv = d
               PROVE  /\ \A n \in Messages : message'[n].conv = d /\
                            message'[n].seq = message'[a].seq => n = a
                      /\ message'[a].seq > 1 => \E n \in Messages :
                            message'[n].conv = d /\ message'[n].seq = message'[a].seq - 1
    BY DEF MessagesAreNumbered
  <2>1. CASE d # c
    <3>1. \A n \in Messages : message[n].conv = d \/ message'[n].conv = d =>
                                 n # m /\ message'[n] = message[n]
      BY <1>8, <1>14, <2>1, BoundAssumption
    <3>2. /\ \A n \in Messages : message[n].conv = d /\ message[n].seq = message[a].seq => n = a
          /\ message[a].seq > 1 => \E n \in Messages :
                message[n].conv = d /\ message[n].seq = message[a].seq - 1
      BY <1>2, <3>1 DEF IInv, MessagesAreNumbered
    <3> QED
      BY <3>1, <3>2
  <2>2. CASE d = c
    <3>1. \A n \in Messages \ {m} : message[n].conv = c => n \in Visible(s)
      BY <1>2, <2>2, SeesItsConversation
    <3>2. \A n \in Messages \ {m} : message[n].conv = c => message[n].seq # Last(s) + 1
      <4> SUFFICES ASSUME NEW n \in Messages \ {m}, message[n].conv = c
                   PROVE  message[n].seq # Last(s) + 1
        OBVIOUS
      <4>1. message[n].seq <= Last(s) /\ message[n].seq \in Nat
        BY <3>1, LastIsGreatest DEF IInv, TypeOK, Message
      <4> QED
        BY <1>7, <4>1
    <3>3. Last(s) # 0 => \E n \in Messages \ {m} : message[n].conv = c /\ message[n].seq = Last(s)
      <4>1. \A n \in Visible(s) : n \in Messages /\ message[n].conv = c
        BY DEF Visible
      <4>2. m \notin Visible(s)
        BY <1>3, <1>14, <4>1, BoundAssumption
      <4> QED
        BY <4>1, <4>2, LastIsGreatest DEF IInv
    <3>4. CASE a = m
      BY <1>7, <1>8, <2>2, <3>2, <3>3, <3>4
    <3>5. CASE a # m
      <4>1. \A n \in Messages : message[n].conv = c /\ message[n].seq = message[a].seq => n = a
        BY <1>2, <1>8, <2>2, <3>5 DEF IInv, MessagesAreNumbered
      <4>2. message[a].seq > 1 => \E n \in Messages : message[n].conv = c
                                    /\ message[n].seq = message[a].seq - 1
        BY <1>2, <1>8, <2>2, <3>5 DEF IInv, MessagesAreNumbered
      <4>3. \A n \in Messages : message[n].conv = c => n # m
        BY <1>3, <1>14, BoundAssumption
      <4> QED
        BY <1>8, <2>2, <3>2, <3>5, <4>1, <4>2, <4>3
    <3> QED
      BY <3>4, <3>5
  <2> QED
    BY <2>1, <2>2
<1>17. DeletedIsForgotten'
  <2>1. conv[c] = "deleted" => c \in shared
    BY <1>3 DEF JobIsSound
  <2> QED
    BY <1>2, <1>8, <2>1 DEF IInv, DeletedIsForgotten
<1>18. MemoryIsUnique'
  BY <1>2 DEF IInv, MemoryIsUnique
<1> QED
  BY <1>9, <1>11, <1>12, <1>13, <1>15, <1>16, <1>17, <1>18 DEF IInv

\* the rows of a chat once they are stored
LEMMA StoredRows ==
    ASSUME IInv, NEW s \in Slots, job[s].pc \in Chatting, StoreMessages(s), shared' = shared,
           job'[s].pending = {}, \A x \in Slots \ {s} : job'[x] = job[x]
    PROVE  /\ message' \in [Messages -> Message]
           /\ conv' \in [Convs -> {"none", "there", "deleted"}]
           /\ \A m \in Messages :
                /\ message'[m].conv = message[m].conv /\ message'[m].seq = message[m].seq
                /\ m \notin job[s].pending => message'[m] = message[m]
                /\ m \in job[s].pending => message[m].state = "pending"
                                           /\ message'[m].state = "stored"
           /\ \A c \in Convs \ {job[s].conv} : conv'[c] = conv[c]
           /\ job[s].conv \notin shared => conv'[job[s].conv] = "there"
           /\ \A m \in Messages :
                /\ message'[m].state = "none" <=> message'[m].conv = NoConv
                /\ message'[m].state = "pending" => \E x \in Slots : m \in job'[x].pending
           /\ MessagesAreNumbered' /\ StoredAreNumbered'
<1>1. /\ job[s].conv \in Convs /\ JobIsSound(s) /\ job[s] \in Job
      /\ job[s].pending \subseteq Messages
  BY InsideChat
<1>2. message' \in [Messages -> Message]
      /\ conv' \in [Convs -> {"none", "there", "deleted"}]
  BY <1>1 DEF StoreMessages, IInv, TypeOK, Message
<1>3. \A m \in Messages :
        /\ message'[m].conv = message[m].conv /\ message'[m].seq = message[m].seq
        /\ m \notin job[s].pending => message'[m] = message[m]
        /\ m \in job[s].pending => message[m].state = "pending" /\ message'[m].state = "stored"
  BY <1>1 DEF StoreMessages, IInv, TypeOK, Message, JobIsSound
<1>4. /\ \A c \in Convs \ {job[s].conv} : conv'[c] = conv[c]
      /\ job[s].conv \notin shared => conv'[job[s].conv] = "there"
  BY <1>1 DEF StoreMessages, IInv, TypeOK, JobIsSound
<1>5. \A m \in Messages :
        /\ message'[m].state = "none" <=> message'[m].conv = NoConv
        /\ message'[m].state = "pending" => \E x \in Slots : m \in job'[x].pending
  <2> SUFFICES ASSUME NEW m \in Messages
               PROVE  /\ message'[m].state = "none" <=> message'[m].conv = NoConv
                      /\ message'[m].state = "pending" => \E x \in Slots : m \in job'[x].pending
    OBVIOUS
  <2>1. CASE m \in job[s].pending
    BY <1>3, <2>1 DEF IInv, RowsAreSound
  <2>2. CASE m \notin job[s].pending
    BY <1>3, <2>2 DEF IInv, RowsAreSound
  <2> QED
    BY <2>1, <2>2
<1>6. MessagesAreNumbered'
  BY <1>3 DEF IInv, MessagesAreNumbered
<1>7. StoredAreNumbered'
  <2> SUFFICES ASSUME NEW m \in Messages, message'[m].state = "stored",
                      message'[m].conv \notin shared', message'[m].seq > 1
               PROVE  \E n \in Messages : /\ message'[n].state = "stored"
                                          /\ message'[n].conv = message'[m].conv
                                          /\ message'[n].seq = message'[m].seq - 1
    BY DEF StoredAreNumbered
  <2>1. CASE message[m].conv = job[s].conv
    <3>1. PICK n \in Messages : message[n].conv = job[s].conv
                                /\ message[n].seq = message[m].seq - 1
      BY <1>1, <1>3, <2>1 DEF IInv, MessagesAreNumbered
    <3>2. n \in Visible(s)
      BY <1>3, <2>1, <3>1, SeesItsConversation
    <3> QED
      BY <1>3, <2>1, <3>1, <3>2 DEF Visible
  <2>2. CASE message[m].conv # job[s].conv
    <3>1. m \notin job[s].pending
      BY <1>1, <2>2 DEF JobIsSound
    <3>2. PICK n \in Messages : /\ message[n].state = "stored"
                                /\ message[n].conv = message[m].conv
                                /\ message[n].seq = message[m].seq - 1
      BY <1>3, <3>1 DEF IInv, StoredAreNumbered
    <3> QED
      BY <1>3, <3>2
  <2> QED
    BY <2>1, <2>2
<1> QED
  BY <1>2, <1>3, <1>4, <1>5, <1>6, <1>7

\* the requests that a stored chat leaves alone
LEMMA OthersKeep ==
    ASSUME IInv, NEW s \in Slots, job[s].pc \in Chatting, shared' = shared,
           NEW x \in Slots \ {s}, job'[x] = job[x],
           \A m \in Messages \ job[s].pending : message'[m] = message[m],
           \A c \in Convs \ {job[s].conv} : conv'[c] = conv[c],
           \A i \in Items : item'[i].conv # job[s].conv => item'[i] = item[i],
           \A i \in Items : item[i].state # "none" => item'[i].state # "none"
    PROVE  JobIsSound(x)'
<1>1. /\ job[x].pending \subseteq Messages /\ job[x].pending \cap job[s].pending = {}
  BY JobFields DEF IInv, HeldOnce
<1>2. job[x].conv \in Convs \ shared => job[x].conv # job[s].conv
  BY DEF IInv, HeldOnce
<1> QED
  BY <1>1, <1>2, KeptJob

LEMMA CallToolKeeps ==
    ASSUME IInv, NEW s \in Slots, CallTool(s)
    PROVE  IInv'
<1> DEFINE j == [job[s] EXCEPT !.pending = {}, !.new = FALSE]
<1>1. /\ job[s].pc \in Chatting /\ StoreMessages(s) /\ UNCHANGED <<item, perm, shared>>
      /\ job' = [job EXCEPT ![s] = j] /\ job[s].pc = "asked"
  BY DEF CallTool, Chatting
<1>2. job[s].conv \in Convs /\ JobIsSound(s) /\ job[s] \in Job
  BY <1>1, InsideChat
<1>3. /\ j \in Job /\ j.pc = "asked" /\ j.conv = job[s].conv /\ j.new = FALSE
      /\ j.pending = {} /\ j.facts = job[s].facts
  BY <1>1, <1>2 DEF Job
<1> HIDE DEF j
<1>4. job' \in [Slots -> Job] /\ job'[s] = j /\ \A x \in Slots \ {s} : job'[x] = job[x]
  BY <1>1, <1>3 DEF IInv, TypeOK
<1>5. /\ message' \in [Messages -> Message]
      /\ conv' \in [Convs -> {"none", "there", "deleted"}]
      /\ \A m \in Messages :
           /\ message'[m].conv = message[m].conv /\ message'[m].seq = message[m].seq
           /\ m \notin job[s].pending => message'[m] = message[m]
      /\ \A c \in Convs \ {job[s].conv} : conv'[c] = conv[c]
      /\ job[s].conv \notin shared => conv'[job[s].conv] = "there"
      /\ MessagesAreNumbered' /\ StoredAreNumbered'
  BY <1>1, <1>3, <1>4, StoredRows
<1>6. TypeOK'
  BY <1>1, <1>4, <1>5 DEF IInv, TypeOK
<1>7. JobsAreSound'
  <2>1. JobIsSound(s)'
    BY <1>1, <1>2, <1>3, <1>4, <1>5 DEF JobIsSound
  <2>2. \A x \in Slots \ {s} : JobIsSound(x)'
    BY <1>1, <1>4, <1>5, OthersKeep
  <2> QED
    BY <2>1, <2>2 DEF JobsAreSound
<1>8. HeldOnce'
  BY <1>1, <1>3, <1>4 DEF IInv, HeldOnce
<1>9. RowsAreSound'
  <2>1. \A m \in Messages :
          /\ message'[m].state = "none" <=> message'[m].conv = NoConv
          /\ message'[m].state = "pending" => \E x \in Slots : m \in job'[x].pending
    BY <1>1, <1>3, <1>4, StoredRows
  <2> QED
    BY <1>1, <2>1 DEF IInv, RowsAreSound
<1>10. DeletedIsForgotten'
  <2>1. \A c \in Convs : conv'[c] = "deleted" /\ c \notin shared => conv[c] = "deleted"
    BY <1>5
  <2> QED
    BY <1>1, <1>5, <2>1 DEF IInv, DeletedIsForgotten
<1>11. MemoryIsUnique'
  BY <1>1 DEF IInv, MemoryIsUnique
<1> QED
  BY <1>5, <1>6, <1>7, <1>8, <1>9, <1>10, <1>11 DEF IInv

LEMMA ExtractKeeps ==
    ASSUME IInv, NEW s \in Slots, Extract(s)
    PROVE  IInv'
<1>1. PICK found \in SUBSET Facts :
        job' = [job EXCEPT ![s].pc = "extract", ![s].facts = {f \in found : ~Known(s, f)}]
  BY DEF Extract
<1> DEFINE F == {f \in found : ~Known(s, f)}
           j == [job[s] EXCEPT !.pc = "extract", !.facts = F]
<1>2. /\ job[s].pc \in Chatting /\ UNCHANGED <<conv, message, item, perm, shared>>
  BY DEF Extract, Chatting, rows
<1>3. job[s].conv \in Convs /\ JobIsSound(s) /\ job[s] \in Job
  BY <1>2, InsideChat
<1>4. /\ j \in Job /\ j.pc = "extract" /\ j.conv = job[s].conv /\ j.new = job[s].new
      /\ j.pending = job[s].pending /\ j.facts = F
  BY <1>3 DEF Job, Pc, Chatting
<1>5. job' = [job EXCEPT ![s] = j]
  BY <1>1
<1> HIDE DEF j
<1>6. job' \in [Slots -> Job] /\ job'[s] = j /\ \A x \in Slots \ {s} : job'[x] = job[x]
  BY <1>4, <1>5 DEF IInv, TypeOK
<1>7. JobIsSound(s)'
  BY <1>2, <1>3, <1>4, <1>6, BoundAssumption DEF JobIsSound, Known, Chatting
<1> QED
  BY <1>2, <1>4, <1>6, <1>7, QuietStep DEF IInv, TypeOK

\* the items and permissions that a chat inserts
LEMMA InsertedItems ==
    ASSUME IInv, NEW s \in Slots, CommitChat(s)
    PROVE  /\ item' \in [Items -> Item] /\ perm' \in [Items -> Permission]
           /\ \A i \in Items :
                \/ item'[i] = item[i] /\ perm'[i] = perm[i]
                \/ /\ item[i].state = "none" /\ item'[i].state = "active"
                   /\ item'[i].conv = job[s].conv /\ item'[i].content \in job[s].facts
           /\ \A i, k \in Items :
                /\ item'[i] # item[i] /\ item'[k] # item[k]
                /\ item'[i].content = item'[k].content
                => i = k
<1> DEFINE F == job[s].facts
<1>1. PICK new \in [F -> {i \in Items : item[i].state = "none"}] :
        /\ \A f, g \in F : f # g => new[f] # new[g]
        /\ item' = [i \in Items |->
              IF \E f \in F : new[f] = i
              THEN [state |-> "active", conv |-> job[s].conv, edited |-> FALSE,
                    content |-> CHOOSE f \in F : new[f] = i]
              ELSE item[i]]
        /\ perm' = [i \in Items |->
              IF \E f \in F : new[f] = i
              THEN [there |-> TRUE, rights |-> Rights] ELSE perm[i]]
  BY DEF CommitChat
<1>2. job[s].pc \in Chatting
  BY DEF CommitChat, Chatting
<1>3. job[s].conv \in Convs /\ F \subseteq Facts
  BY <1>2, InsideChat, JobFields DEF IInv
<1>4. ASSUME NEW i \in Items, NEW f \in F, new[f] = i
      PROVE  /\ item[i].state = "none" /\ item'[i].state = "active"
             /\ item'[i].conv = job[s].conv /\ item'[i].content = f
             /\ item'[i] \in Item /\ perm'[i] \in Permission
  <2>1. (CHOOSE g \in F : new[g] = i) = f
    BY <1>1, <1>4
  <2>2. item'[i] = [state |-> "active", conv |-> job[s].conv, edited |-> FALSE, content |-> f]
    BY <1>1, <1>4, <2>1
  <2>3. perm'[i] = [there |-> TRUE, rights |-> Rights]
    BY <1>1, <1>4
  <2> QED
    BY <1>1, <1>3, <1>4, <2>2, <2>3 DEF Item, Permission
<1>5. \A i \in Items : ~(\E f \in F : new[f] = i) => item'[i] = item[i] /\ perm'[i] = perm[i]
  BY <1>1
<1>6. item' \in [Items -> Item] /\ perm' \in [Items -> Permission]
  <2>1. \A i \in Items : item'[i] \in Item /\ perm'[i] \in Permission
    BY <1>4, <1>5 DEF IInv, TypeOK
  <2>2. item' = [i \in Items |-> item'[i]] /\ perm' = [i \in Items |-> perm'[i]]
    BY <1>1
  <2> QED
    BY <2>1, <2>2
<1>7. \A i \in Items :
        \/ item'[i] = item[i] /\ perm'[i] = perm[i]
        \/ /\ item[i].state = "none" /\ item'[i].state = "active"
           /\ item'[i].conv = job[s].conv /\ item'[i].content \in F
  BY <1>4, <1>5
<1>8. ASSUME NEW i \in Items, NEW k \in Items, item'[i] # item[i], item'[k] # item[k],
             item'[i].content = item'[k].content
      PROVE  i = k
  <2>1. PICK f \in F : new[f] = i
    BY <1>5, <1>8
  <2>2. PICK g \in F : new[g] = k
    BY <1>5, <1>8
  <2>3. item'[i].content = f /\ item'[k].content = g
    BY <1>4, <2>1, <2>2
  <2> QED
    BY <1>8, <2>1, <2>2, <2>3
<1> QED
  BY <1>6, <1>7, <1>8

LEMMA CommitChatKeeps ==
    ASSUME IInv, NEW s \in Slots, CommitChat(s)
    PROVE  IInv'
<1> DEFINE c == job[s].conv
<1>1. job[s].pc \in Chatting /\ StoreMessages(s) /\ Close(s) /\ shared' = shared
  BY DEF CommitChat, Chatting
<1>2. c \in Convs /\ JobIsSound(s) /\ c # NoConv
  BY <1>1, InsideChat, BoundAssumption
<1>3. job' \in [Slots -> Job] /\ job'[s] = NoJob /\ \A x \in Slots \ {s} : job'[x] = job[x]
  BY <1>1, Closed
<1>4. /\ item' \in [Items -> Item] /\ perm' \in [Items -> Permission]
      /\ \A i \in Items :
           \/ item'[i] = item[i]
           \/ /\ item[i].state = "none" /\ item'[i].state = "active"
              /\ item'[i].conv = c /\ item'[i].content \in job[s].facts
  BY InsertedItems
<1>5. /\ message' \in [Messages -> Message]
      /\ conv' \in [Convs -> {"none", "there", "deleted"}]
      /\ \A m \in Messages :
           /\ message'[m].conv = message[m].conv /\ message'[m].seq = message[m].seq
           /\ m \notin job[s].pending => message'[m] = message[m]
      /\ \A d \in Convs \ {c} : conv'[d] = conv[d]
      /\ c \notin shared => conv'[c] = "there"
      /\ MessagesAreNumbered' /\ StoredAreNumbered'
  BY <1>1, <1>3, IdleJob, StoredRows
<1>6. TypeOK'
  BY <1>1, <1>3, <1>4, <1>5 DEF IInv, TypeOK
<1>7. JobsAreSound'
  <2>1. \A x \in Slots \ {s} : JobIsSound(x)'
    BY <1>1, <1>3, <1>4, <1>5, OthersKeep
  <2> QED
    BY <1>3, <2>1, IdleIsSound DEF JobsAreSound
<1>8. HeldOnce'
  BY <1>1, <1>3, IdleJob, BoundAssumption DEF IInv, HeldOnce
<1>9. RowsAreSound'
  <2>1. \A m \in Messages :
          /\ message'[m].state = "none" <=> message'[m].conv = NoConv
          /\ message'[m].state = "pending" => \E x \in Slots : m \in job'[x].pending
    BY <1>1, <1>3, IdleJob, StoredRows
  <2> QED
    BY <1>2, <1>4, <2>1 DEF IInv, RowsAreSound
<1>10. DeletedIsForgotten'
  <2>1. \A d \in Convs : conv'[d] = "deleted" /\ d \notin shared => conv[d] = "deleted" /\ d # c
    BY <1>5
  <2>2. \A d \in Convs \ {c}, i \in Items : item'[i].conv = d => item'[i] = item[i]
    BY <1>4
  <2> QED
    BY <1>1, <1>5, <2>1, <2>2 DEF IInv, DeletedIsForgotten
<1>11. MemoryIsUnique'
  <2> SUFFICES ASSUME NEW i \in Items, NEW k \in Items,
                      item'[i].state = "active", item'[k].state = "active",
                      item'[i].conv = item'[k].conv, item'[i].conv \notin shared,
                      item'[i].content = item'[k].content,
                      ~item'[i].edited, ~item'[k].edited
               PROVE  i = k
    BY <1>1 DEF MemoryIsUnique
  <2>1. CASE item'[i] = item[i] /\ item'[k] = item[k]
    BY <2>1 DEF IInv, MemoryIsUnique
  <2>2. CASE item'[i] # item[i] /\ item'[k] # item[k]
    BY <2>2, InsertedItems
  <2>3. CASE item'[i] # item[i] /\ item'[k] = item[k]
    BY <1>2, <1>4, <2>3 DEF JobIsSound
  <2>4. CASE item'[i] = item[i] /\ item'[k] # item[k]
    BY <1>2, <1>4, <2>4 DEF JobIsSound
  <2> QED
    BY <2>1, <2>2, <2>3, <2>4
<1> QED
  BY <1>5, <1>6, <1>7, <1>8, <1>9, <1>10, <1>11 DEF IInv

LEMMA EndKeeps ==
    ASSUME IInv, NEW s \in Slots, End(s)
    PROVE  IInv'
<1>1. /\ Close(s) /\ UNCHANGED <<conv, item, perm, shared>>
      /\ message' = [m \in Messages |-> IF m \in job[s].pending THEN NoMessage ELSE message[m]]
  BY DEF End
<1>2. job' \in [Slots -> Job] /\ job'[s] = NoJob /\ \A x \in Slots \ {s} : job'[x] = job[x]
  BY <1>1, Closed
<1>3. \A m \in Messages :
        /\ m \in job[s].pending => message'[m] = NoMessage /\ message[m].state = "pending"
        /\ m \notin job[s].pending => message'[m] = message[m]
  BY <1>1 DEF IInv, JobsAreSound, JobIsSound
<1>4. NoMessage \in Message /\ NoMessage.state = "none" /\ NoMessage.conv = NoConv
  BY DEF NoMessage, Message
<1>5. TypeOK'
  BY <1>1, <1>2, <1>4 DEF IInv, TypeOK
<1>6. JobsAreSound'
  <2>1. ASSUME NEW x \in Slots \ {s} PROVE JobIsSound(x)'
    <3>1. job[x].pending \subseteq Messages /\ job[x].pending \cap job[s].pending = {}
      BY JobFields DEF IInv, HeldOnce
    <3> QED
      BY <1>1, <1>2, <1>3, <3>1, KeptJob
  <2> QED
    BY <1>2, <2>1, IdleIsSound DEF JobsAreSound
<1>7. HeldOnce'
  BY <1>1, <1>2, IdleJob, BoundAssumption DEF IInv, HeldOnce
<1>8. RowsAreSound'
  <2> SUFFICES ASSUME NEW m \in Messages
               PROVE  /\ message'[m].state = "none" <=> message'[m].conv = NoConv
                      /\ message'[m].state = "pending" => \E x \in Slots : m \in job'[x].pending
    BY <1>1 DEF IInv, RowsAreSound
  <2>1. CASE m \in job[s].pending
    BY <1>3, <1>4, <2>1
  <2>2. CASE m \notin job[s].pending
    BY <1>2, <1>3, <2>2 DEF IInv, RowsAreSound
  <2> QED
    BY <2>1, <2>2
<1>9. \A m \in Messages : message[m].state = "stored" \/ message'[m].state = "stored" =>
                            message'[m] = message[m]
  BY <1>3, <1>4
<1>10. StoredAreNumbered'
  BY <1>1, <1>9 DEF IInv, StoredAreNumbered
<1>11. MessagesAreNumbered'
  <2> SUFFICES ASSUME NEW d \in Convs \ shared, NEW m \in Messages, message'[m].conv = d
               PROVE  /\ \A n \in Messages : message'[n].conv = d /\
                            message'[n].seq = message'[m].seq => n = m
                      /\ message'[m].seq > 1 => \E n \in Messages :
                            message'[n].conv = d /\ message'[n].seq = message'[m].seq - 1
    BY <1>1 DEF MessagesAreNumbered
  <2>1. \A n \in Messages : message'[n].conv = d => message'[n] = message[n]
    BY <1>3, <1>4, BoundAssumption
  <2>2. \A n \in Messages : message'[n].conv = d /\ message'[n].seq = message'[m].seq => n = m
    BY <2>1 DEF IInv, MessagesAreNumbered
  <2>3. CASE d = job[s].conv
    <3>1. message[m].state # "pending"
      <4>1. job[s].pc \in Chatting
        BY <2>3, BoundAssumption DEF IInv, JobsAreSound, JobIsSound
      <4>2. m \in Visible(s)
        BY <2>1, <2>3, <4>1, SeesItsConversation
      <4>3. m \notin job[s].pending
        BY <1>3, <1>4, BoundAssumption
      <4> QED
        BY <4>2, <4>3 DEF Visible
    <3>2. message[m].state = "stored"
      BY <2>1, <3>1, BoundAssumption DEF IInv, TypeOK, Message, RowsAreSound
    <3>3. message[m].seq > 1 => \E n \in Messages : /\ message[n].state = "stored"
                                                    /\ message[n].conv = d
                                                    /\ message[n].seq = message[m].seq - 1
      BY <2>1, <3>2 DEF IInv, StoredAreNumbered
    <3> QED
      BY <1>9, <2>1, <2>2, <3>3
  <2>4. CASE d # job[s].conv
    <3>1. \A n \in Messages : message[n].conv = d => message'[n] = message[n]
      BY <1>3, <2>4 DEF IInv, JobsAreSound, JobIsSound
    <3>2. message[m].seq > 1 => \E n \in Messages : message[n].conv = d
                                  /\ message[n].seq = message[m].seq - 1
      BY <2>1 DEF IInv, MessagesAreNumbered
    <3> QED
      BY <2>1, <2>2, <3>1, <3>2
  <2> QED
    BY <2>3, <2>4
<1>12. DeletedIsForgotten'
  <2>1. \A m \in Messages : message'[m].conv \in Convs => message'[m] = message[m]
    BY <1>3, <1>4, BoundAssumption
  <2> QED
    BY <1>1, <2>1 DEF IInv, DeletedIsForgotten
<1>13. MemoryIsUnique'
  BY <1>1 DEF IInv, MemoryIsUnique
<1> QED
  BY <1>5, <1>6, <1>7, <1>8, <1>10, <1>11, <1>12, <1>13 DEF IInv

-----------------------------------------------------------------------------
(* Administration                                                          *)

LEMMA DeleteConversationKeeps ==
    ASSUME IInv, NEW c \in Convs, DeleteConversation(c)
    PROVE  IInv'
<1>1. /\ conv' = [conv EXCEPT ![c] = "deleted"]
      /\ message' = [m \in Messages |->
           IF message[m].state = "stored" /\ message[m].conv = c THEN NoMessage ELSE message[m]]
      /\ item' = [i \in Items |-> IF item[i].state = "active" /\ item[i].conv = c
                                  THEN [item[i] EXCEPT !.state = "removed"] ELSE item[i]]
      /\ shared' = IF \E s \in Slots : job[s].conv = c THEN shared \cup {c} ELSE shared
      /\ UNCHANGED <<perm, job>>
  BY DEF DeleteConversation, Forget
<1>2. NoMessage \in Message /\ NoMessage.state = "none" /\ NoMessage.conv = NoConv
  BY DEF NoMessage, Message
<1>3. /\ \A m \in Messages : \/ message'[m] = message[m]
                             \/ /\ message'[m] = NoMessage /\ message[m].state = "stored"
                                /\ message[m].conv = c
      /\ \A m \in Messages : message'[m].conv = c => message'[m].state # "stored"
      /\ \A m \in Messages : message[m].conv # c => message'[m] = message[m]
  BY <1>1, <1>2, BoundAssumption
<1>4. \A i \in Items :
        /\ item'[i] \in Item /\ item'[i].conv = item[i].conv
        /\ item'[i].state = "active" => item'[i] = item[i] /\ item[i].conv # c
        /\ item[i].conv # c => item'[i] = item[i]
        /\ item[i].conv = c => item'[i].state \in {"none", "removed"}
        /\ item[i].state = "none" <=> item'[i].state = "none"
  BY <1>1 DEF IInv, TypeOK, Item
<1>5. shared \subseteq shared' /\ shared' \subseteq Convs
  BY <1>1 DEF IInv, TypeOK
<1>6. TypeOK'
  <2>1. item' \in [Items -> Item]
    BY <1>1, <1>4
  <2> QED
    BY <1>1, <1>2, <1>5, <2>1 DEF IInv, TypeOK
<1>7. JobsAreSound'
  <2>1. ASSUME NEW x \in Slots PROVE JobIsSound(x)'
    <3>1. \A m \in job[x].pending : m \in Messages /\ message[m].state = "pending"
      BY JobFields DEF IInv, JobsAreSound, JobIsSound
    <3>2. \A m \in job[x].pending : message'[m] = message[m]
      BY <1>3, <3>1
    <3>3. job[x].conv \in Convs \ shared' => conv'[job[x].conv] = conv[job[x].conv]
      BY <1>1 DEF IInv, TypeOK
    <3> QED
      BY <1>1, <1>4, <1>5, <3>2, <3>3, KeptJob
  <2> QED
    BY <2>1 DEF JobsAreSound
<1>8. HeldOnce'
  BY <1>1, <1>5 DEF IInv, HeldOnce
<1>9. RowsAreSound'
  BY <1>1, <1>2, <1>3, <1>4, BoundAssumption DEF IInv, RowsAreSound
<1>10. StoredAreNumbered'
  <2> SUFFICES ASSUME NEW m \in Messages, message'[m].state = "stored",
                      message'[m].conv \notin shared', message'[m].seq > 1
               PROVE  \E n \in Messages : /\ message'[n].state = "stored"
                                          /\ message'[n].conv = message'[m].conv
                                          /\ message'[n].seq = message'[m].seq - 1
    BY DEF StoredAreNumbered
  <2>1. message'[m] = message[m] /\ message[m].conv # c
    BY <1>2, <1>3
  <2>2. PICK n \in Messages : /\ message[n].state = "stored"
                              /\ message[n].conv = message[m].conv
                              /\ message[n].seq = message[m].seq - 1
    BY <1>5, <2>1 DEF IInv, StoredAreNumbered
  <2> QED
    BY <1>3, <2>1, <2>2
<1>11. c \in shared' \/ \A m \in Messages : message'[m].conv # c
  <2> SUFFICES ASSUME NEW m \in Messages, message'[m].conv = c, c \notin shared'
               PROVE  FALSE
    OBVIOUS
  <2>1. message'[m] = message[m] /\ message[m].state = "pending"
    BY <1>2, <1>3, BoundAssumption DEF IInv, RowsAreSound, TypeOK, Message
  <2>2. PICK x \in Slots : m \in job[x].pending
    BY <2>1 DEF IInv, RowsAreSound
  <2>3. job[x].conv = c
    BY <2>1, <2>2 DEF IInv, JobsAreSound, JobIsSound
  <2> QED
    BY <1>1, <2>3
<1>12. MessagesAreNumbered'
  <2> SUFFICES ASSUME NEW d \in Convs \ shared', NEW m \in Messages, message'[m].conv = d
               PROVE  /\ \A n \in Messages : message'[n].conv = d /\
                            message'[n].seq = message'[m].seq => n = m
                      /\ message'[m].seq > 1 => \E n \in Messages :
                            message'[n].conv = d /\ message'[n].seq = message'[m].seq - 1
    BY DEF MessagesAreNumbered
  <2>1. d # c
    BY <1>11
  <2>2. \A n \in Messages : message[n].conv = d \/ message'[n].conv = d => message'[n] = message[n]
    BY <1>2, <1>3, <2>1, BoundAssumption
  <2>3. /\ \A n \in Messages : message[n].conv = d /\ message[n].seq = message[m].seq => n = m
        /\ message[m].seq > 1 => \E n \in Messages :
              message[n].conv = d /\ message[n].seq = message[m].seq - 1
    BY <1>5, <2>2 DEF IInv, MessagesAreNumbered
  <2> QED
    BY <2>2, <2>3
<1>13. DeletedIsForgotten'
  <2> SUFFICES ASSUME NEW d \in Convs, conv'[d] = "deleted", d \notin shared'
               PROVE  /\ \A m \in Messages : message'[m].conv # d
                      /\ \A i \in Items : item'[i].conv = d => item'[i].state = "removed"
    BY DEF DeletedIsForgotten
  <2>1. CASE d = c
    <3>1. \A i \in Items : item[i].conv = c => item[i].state # "none"
      BY BoundAssumption DEF IInv, RowsAreSound
    <3> QED
      BY <1>4, <1>11, <2>1, <3>1
  <2>2. CASE d # c
    <3>1. /\ \A m \in Messages : message[m].conv # d
          /\ \A i \in Items : item[i].conv = d => item[i].state = "removed"
      BY <1>1, <1>5, <2>2 DEF IInv, DeletedIsForgotten, TypeOK
    <3> QED
      BY <1>2, <1>3, <1>4, <2>2, <3>1, BoundAssumption
  <2> QED
    BY <2>1, <2>2
<1>14. MemoryIsUnique'
  BY <1>4, <1>5 DEF IInv, MemoryIsUnique
<1> QED
  BY <1>6, <1>7, <1>8, <1>9, <1>10, <1>12, <1>13, <1>14 DEF IInv

LEMMA LoadItemKeeps ==
    ASSUME IInv, NEW s \in Slots, NEW i \in Items, LoadItem(s, i)
    PROVE  IInv'
<1>1. PICK pc \in Pc \ Chatting :
        /\ pc # "idle"
        /\ IF pc = "revoke" THEN perm[i].there ELSE item[i].state = "active"
        /\ job' = [job EXCEPT ![s] =
             [NoJob EXCEPT !.pc = pc, !.item = i,
              !.was = IF pc \in {"permit", "revoke"} THEN perm[i] ELSE NoPermission]]
  BY DEF LoadItem
<1> DEFINE j == [NoJob EXCEPT !.pc = pc, !.item = i,
              !.was = IF pc \in {"permit", "revoke"} THEN perm[i] ELSE NoPermission]
<1>2. perm[i] \in Permission /\ NoPermission \in Permission
  BY DEF IInv, TypeOK, NoPermission, Permission
<1>3. /\ j \in Job /\ j.pc = pc /\ j.conv = NoConv /\ j.pending = {} /\ j.facts = {}
      /\ j.item = i
  BY <1>2, IdleJob DEF NoJob, Job, Pc
<1>4. /\ UNCHANGED <<conv, message, item, perm, shared>> /\ job[s].pc = "idle"
      /\ job' = [job EXCEPT ![s] = j]
  BY <1>1 DEF LoadItem, rows
<1> HIDE DEF j
<1>5. job' \in [Slots -> Job] /\ job'[s] = j /\ \A x \in Slots \ {s} : job'[x] = job[x]
  BY <1>3, <1>4 DEF IInv, TypeOK
<1>6. JobIsSound(s)'
  BY <1>1, <1>3, <1>4, <1>5, BoundAssumption DEF JobIsSound
<1>7. job[s].pending = {}
  BY <1>4, OutsideChat DEF Chatting
<1> QED
  BY <1>3, <1>4, <1>5, <1>6, <1>7, QuietStep DEF IInv, TypeOK

\* a request that writes its item and ends
LEMMA ItemStep ==
    ASSUME IInv, NEW s \in Slots, job[s].pc \notin Chatting, Close(s),
           UNCHANGED <<conv, message, perm, shared>>, item' \in [Items -> Item],
           \A i \in Items :
             /\ item'[i].conv = item[i].conv
             /\ item'[i].state = item[i].state \/ (item'[i].state = "removed" /\ item[i].state # "none")
             /\ item'[i].state = "active" => item'[i] = item[i] \/ item'[i].edited
    PROVE  IInv'
<1>1. job' \in [Slots -> Job] /\ job'[s] = NoJob /\ \A x \in Slots \ {s} : job'[x] = job[x]
  BY Closed
<1>2. job[s].pending = {}
  BY OutsideChat
<1>3. TypeOK'
  BY <1>1 DEF IInv, TypeOK
<1>4. JobsAreSound'
  <2>1. \A x \in Slots \ {s} : JobIsSound(x)'
    <3>1. \A x \in Slots : job[x].pending \subseteq Messages
      BY JobFields DEF IInv
    <3> QED
      BY <1>1, <3>1, KeptJob
  <2> QED
    BY <1>1, <2>1, IdleIsSound DEF JobsAreSound
<1>5. HeldOnce'
  BY <1>1, IdleJob, BoundAssumption DEF IInv, HeldOnce
<1>6. RowsAreSound'
  <2>1. \A m \in Messages : message[m].state = "pending" => \E x \in Slots \ {s} : m \in job[x].pending
    BY <1>2 DEF IInv, RowsAreSound
  <2> QED
    BY <1>1, <2>1 DEF IInv, RowsAreSound
<1>7. StoredAreNumbered' /\ MessagesAreNumbered'
  BY DEF IInv, StoredAreNumbered, MessagesAreNumbered
<1>8. DeletedIsForgotten' /\ MemoryIsUnique'
  BY DEF IInv, DeletedIsForgotten, MemoryIsUnique
<1> QED
  BY <1>3, <1>4, <1>5, <1>6, <1>7, <1>8 DEF IInv

LEMMA CommitEditKeeps ==
    ASSUME IInv, NEW s \in Slots, CommitEdit(s)
    PROVE  IInv'
<1>1. PICK f \in Facts : item' = Edited(job[s].item, f)
  BY DEF CommitEdit
<1>2. /\ job[s].pc \notin Chatting /\ Close(s) /\ UNCHANGED <<conv, message, perm, shared>>
  BY DEF CommitEdit, Chatting
<1>3. item' \in [Items -> Item]
      /\ \A i \in Items : /\ item'[i].conv = item[i].conv /\ item'[i].state = item[i].state
                          /\ item'[i] = item[i] \/ item'[i].edited
  BY <1>1 DEF Edited, IInv, TypeOK, Item
<1> QED
  BY <1>2, <1>3, ItemStep

LEMMA CommitRemovalKeeps ==
    ASSUME IInv, NEW s \in Slots, CommitRemoval(s)
    PROVE  IInv'
<1>1. /\ job[s].pc = "remove" /\ item' = [item EXCEPT ![job[s].item].state = "removed"]
      /\ Close(s) /\ UNCHANGED <<conv, message, perm, shared>>
  BY DEF CommitRemoval
<1>2. job[s].item \in Items /\ item[job[s].item].state # "none"
  BY <1>1, JobFields DEF IInv, JobsAreSound, JobIsSound
<1>3. item' \in [Items -> Item]
      /\ \A i \in Items :
           /\ item'[i].conv = item[i].conv
           /\ \/ item'[i] = item[i]
              \/ item'[i].state = "removed" /\ item[i].state # "none"
  BY <1>1, <1>2 DEF IInv, TypeOK, Item
<1> QED
  BY <1>1, <1>3, ItemStep DEF Chatting

LEMMA CommitPermissionKeeps ==
    ASSUME IInv, NEW s \in Slots, CommitPermission(s)
    PROVE  IInv'
<1> DEFINE was == job[s].was
           new(to) == [there |-> TRUE,
                       rights |-> {r \in Rights : IF (r \in to) # (r \in was.rights)
                                                  THEN r \in to
                                                  ELSE r \in perm[job[s].item].rights}]
<1>0. PICK to \in SUBSET Rights : perm' = [perm EXCEPT ![job[s].item] = new(to)]
  BY DEF CommitPermission
<1>1. /\ job[s].pc = "permit" /\ Close(s) /\ UNCHANGED <<conv, message, item, shared>>
      /\ perm' \in [Items -> Permission]
  <2>1. new(to) \in Permission
    BY DEF Permission
  <2> HIDE DEF new
  <2> QED
    BY <1>0, <2>1 DEF CommitPermission, IInv, TypeOK
<1>2. job' \in [Slots -> Job] /\ job'[s] = NoJob /\ \A x \in Slots \ {s} : job'[x] = job[x]
  BY <1>1, Closed
<1>3. job[s].pending = {}
  BY <1>1, OutsideChat DEF Chatting
<1> QED
  BY <1>1, <1>2, <1>3, IdleJob, IdleIsSound, QuietStep DEF IInv, TypeOK

LEMMA CommitRevocationKeeps ==
    ASSUME IInv, NEW s \in Slots, CommitRevocation(s)
    PROVE  IInv'
<1> DEFINE lost(r) == job[r].gone \/ (~job[s].gone /\ job[r].item = job[s].item
                                                   /\ job[r].was.there)
<1>1. /\ job[s].pc = "revoke" /\ UNCHANGED <<conv, message, item, shared>>
      /\ perm' = IF job[s].gone THEN perm ELSE [perm EXCEPT ![job[s].item] = NoPermission]
      /\ job' = [r \in Slots |-> IF r = s THEN NoJob ELSE [job[r] EXCEPT !.gone = lost(r)]]
  BY DEF CommitRevocation
<1>2. NoPermission \in Permission
  BY DEF NoPermission, Permission
<1>3. perm' \in [Items -> Permission]
  BY <1>1, <1>2 DEF IInv, TypeOK
<1>4. ASSUME NEW x \in Slots \ {s}
      PROVE  /\ job'[x] \in Job
             /\ job'[x].pc = job[x].pc /\ job'[x].conv = job[x].conv
             /\ job'[x].new = job[x].new /\ job'[x].pending = job[x].pending
             /\ job'[x].facts = job[x].facts /\ job'[x].item = job[x].item
  <2>1. job[x] \in Job /\ job[x].was.there \in BOOLEAN /\ job[s].gone \in BOOLEAN
    BY JobFields DEF IInv, Permission
  <2>2. lost(x) \in BOOLEAN /\ job'[x] = [job[x] EXCEPT !.gone = lost(x)]
    BY <1>1, <2>1 DEF Job
  <2> QED
    BY <2>1, <2>2 DEF Job
<1>5. job' \in [Slots -> Job] /\ job'[s] = NoJob
  BY <1>1, <1>4, IdleJob
<1>6. job[s].pending = {}
  BY <1>1, OutsideChat DEF Chatting
<1> QED
  BY <1>1, <1>3, <1>4, <1>5, <1>6, IdleJob, IdleIsSound, QuietStep DEF IInv, TypeOK

-----------------------------------------------------------------------------
(* The theorems                                                            *)

LEMMA InitHolds ==
    Init => IInv
<1> SUFFICES ASSUME Init PROVE IInv
  OBVIOUS
<1>1. /\ \A m \in Messages : message[m].state = "none" /\ message[m].conv = NoConv
      /\ \A i \in Items : item[i].state = "none" /\ item[i].conv = NoConv
      /\ \A s \in Slots : job[s] = NoJob
      /\ \A c \in Convs : conv[c] = "none"
  BY DEF Init, NoMessage
<1>2. TypeOK
  BY IdleJob DEF Init, TypeOK, NoMessage, Message, Item, NoPermission, Permission
<1>3. JobsAreSound /\ HeldOnce
  BY <1>1, IdleJob, BoundAssumption DEF JobsAreSound, JobIsSound, HeldOnce, Chatting
<1>4. RowsAreSound /\ StoredAreNumbered
  BY <1>1 DEF RowsAreSound, StoredAreNumbered
<1>5. MessagesAreNumbered /\ DeletedIsForgotten /\ MemoryIsUnique
  BY <1>1, BoundAssumption DEF MessagesAreNumbered, DeletedIsForgotten, MemoryIsUnique
<1> QED
  BY <1>2, <1>3, <1>4, <1>5 DEF IInv

LEMMA NextHolds ==
    IInv /\ [Next]_vars => IInv'
<1> SUFFICES ASSUME IInv, [Next]_vars PROVE IInv'
  OBVIOUS
<1>1. CASE UNCHANGED vars
  BY <1>1 DEF vars, rows, IInv, TypeOK, JobsAreSound, JobIsSound, HeldOnce, RowsAreSound,
              StoredAreNumbered, MessagesAreNumbered, DeletedIsForgotten, MemoryIsUnique
<1>2. CASE Next
  BY <1>2, OpenChatKeeps, CallToolKeeps, ExtractKeeps, CommitChatKeeps, AppendMessageKeeps,
     LoadItemKeeps, CommitEditKeeps, CommitRemovalKeeps, CommitPermissionKeeps,
     CommitRevocationKeeps, EndKeeps, DeleteConversationKeeps DEF Next
<1> QED
  BY <1>1, <1>2

\* Requests, rows and numbers agree in every reachable state, whatever chats,
\* tools and administrators interleave and wherever one of them fails.
THEOREM Invariance == Spec => []IInv
<1> QED
  BY InitHolds, NextHolds, PTL DEF Spec

\* The messages of a conversation that one request at a time works on are numbered
\* 1 .. n, also after a tool stored half of a chat and the rest was rolled back
\* (append_message).
THEOREM Numbered == Spec => []MessagesAreNumbered
<1>1. IInv => MessagesAreNumbered
  BY DEF IInv
<1> QED
  BY <1>1, Invariance, PTL

\* Nothing is left of a conversation deleted while no chat worked on it
\* (delete_conversation).
THEOREM Forgotten == Spec => []DeletedIsForgotten
<1>1. IInv => DeletedIsForgotten
  BY DEF IInv
<1> QED
  BY <1>1, Invariance, PTL

\* A conversation keeps a fact once, although the look-up and the insertion are
\* apart and an administrator acts between them (upsert_memory_item).
THEOREM Unique == Spec => []MemoryIsUnique
<1>1. IInv => MemoryIsUnique
  BY DEF IInv
<1> QED
  BY <1>1, Invariance, PTL

\* No request brings a removed item back, not even one that loaded it active
\* (edit_memory_item, remove_memory_item).
THEOREM RemovalStays == Spec => RemovalIsFinal
<1>1. IInv /\ [Next]_vars =>
        [\A i \in Items : item[i].state = "removed" => item'[i].state = "removed"]_vars
  <2> SUFFICES ASSUME IInv, Next, NEW i \in Items, item[i].state = "removed"
               PROVE  item'[i].state = "removed"
    OBVIOUS
  <2>1. ASSUME NEW s \in Slots, CommitChat(s) PROVE item'[i].state = "removed"
    BY <2>1, InsertedItems
  <2>2. ASSUME NEW s \in Slots, CommitEdit(s) \/ CommitRemoval(s)
        PROVE  item'[i].state = "removed"
    <3>1. CASE CommitEdit(s)
      BY <3>1 DEF CommitEdit, Edited, IInv, TypeOK, Item
    <3>2. CASE CommitRemoval(s)
      BY <3>2 DEF CommitRemoval, IInv, TypeOK, Item
    <3> QED
      BY <2>2, <3>1, <3>2
  <2>3. ASSUME NEW c \in Convs, DeleteConversation(c) PROVE item'[i].state = "removed"
    BY <2>3 DEF DeleteConversation, Forget
  <2>4. \/ item' = item
        \/ \E s \in Slots : CommitChat(s) \/ CommitEdit(s) \/ CommitRemoval(s)
        \/ \E c \in Convs : DeleteConversation(c)
    BY DEF Next, OpenChat, CallTool, Extract, AppendMessage, LoadItem, CommitPermission,
           CommitRevocation, End, rows
  <2> QED
    BY <2>1, <2>2, <2>3, <2>4
<1> QED
  BY <1>1, Invariance, PTL DEF Spec, RemovalIsFinal

\* A revoked permission comes back only with a new item or by a request that found
\* no permission: a request that had loaded it finds its row gone
\* (set_memory_permission, revoke_memory_permission).
THEOREM RevocationStays == Spec => RevocationHolds
<1> DEFINE Back(i) == ~perm[i].there /\ perm'[i].there =>
             \/ item[i].state = "none"
             \/ \E s \in Slots : /\ job[s].pc = "permit" /\ job[s].item = i
                                 /\ ~job[s].was.there
<1>1. IInv /\ [Next]_vars => [\A i \in Items : Back(i)]_vars
  <2> SUFFICES ASSUME IInv, Next, NEW i \in Items, ~perm[i].there, perm'[i].there
               PROVE  \/ item[i].state = "none"
                      \/ \E s \in Slots : /\ job[s].pc = "permit" /\ job[s].item = i
                                          /\ ~job[s].was.there
    OBVIOUS
  <2>1. ASSUME NEW s \in Slots, CommitChat(s) PROVE item[i].state = "none"
    BY <2>1, InsertedItems
  <2>2. ASSUME NEW s \in Slots, CommitPermission(s)
        PROVE  job[s].pc = "permit" /\ job[s].item = i /\ ~job[s].was.there
    BY <2>2 DEF CommitPermission, Writable, IInv, TypeOK
  <2>3. ASSUME NEW s \in Slots, CommitRevocation(s) PROVE FALSE
    BY <2>3 DEF CommitRevocation, NoPermission, IInv, TypeOK
  <2>4. perm' = perm \/ \E s \in Slots : CommitChat(s) \/ CommitPermission(s) \/ CommitRevocation(s)
    BY DEF Next, OpenChat, CallTool, Extract, AppendMessage, LoadItem, CommitEdit,
           CommitRemoval, End, DeleteConversation, rows
  <2> QED
    BY <2>1, <2>2, <2>3, <2>4
<1> QED
  BY <1>1, Invariance, PTL DEF Spec, RevocationHolds

-----------------------------------------------------------------------------
(* No two chats of one conversation at a time.                             *)

\* At most one chat works on conversation c, and it is not deleted meanwhile.
Apart(c) == \A r, s \in Slots : job[r].conv = c /\ job[s].conv = c => r = s

DeletionWaits(c) == DeleteConversation(c) => \A s \in Slots : job[s].conv # c

LEMMA NotShared ==
    ASSUME NEW c \in Convs, IInv, c \notin shared, Apart(c)', [Next]_vars, [DeletionWaits(c)]_vars
    PROVE  c \notin shared'
<1>0. TypeOK
  BY DEF IInv
<1>1. ASSUME NEW s \in Slots, OpenChat(s)
      PROVE  c \notin shared'
  <2>1. PICK d \in Convs, new \in BOOLEAN :
          /\ job' = [job EXCEPT ![s] = [NoJob EXCEPT !.pc = "open", !.conv = d, !.new = new]]
          /\ shared' = IF \E r \in Slots : job[r].conv = d THEN shared \cup {d} ELSE shared
    BY <1>1 DEF OpenChat
  <2>2. job'[s].conv = d
    BY <1>0, <2>1 DEF TypeOK, NoJob
  <2>3. job[s].conv = NoConv
    BY <1>1 DEF OpenChat, IInv, JobsAreSound, JobIsSound, Chatting
  <2>4. ASSUME NEW r \in Slots, job[r].conv = d
        PROVE  c # d
    <3>1. r # s
      BY <2>3, <2>4, BoundAssumption
    <3>2. job'[r].conv = d
      BY <1>0, <2>1, <2>4, <3>1 DEF TypeOK
    <3> QED
      BY <2>2, <3>1, <3>2 DEF Apart
  <2> QED
    BY <2>1, <2>4
<1>2. ASSUME NEW d \in Convs, DeleteConversation(d)
      PROVE  c \notin shared'
  <2>1. CASE d = c
    BY <1>2, <2>1 DEF DeletionWaits, DeleteConversation, vars
  <2>2. CASE d # c
    BY <1>2, <2>2 DEF DeleteConversation
  <2> QED
    BY <2>1, <2>2
<1> QED
  BY <1>1, <1>2
  DEF Next, vars, CallTool, Extract, CommitChat, AppendMessage, LoadItem, CommitEdit,
      CommitRemoval, CommitPermission, CommitRevocation, End

\* The messages of a conversation that no two chats work on at a time, and that is not
\* deleted during one, are numbered 1 .. n, it keeps a fact once, and nothing is left of it
\* when it is deleted, whatever is rolled back and whatever happens to the others
\* (append_message, upsert_memory_item, delete_conversation).
THEOREM ApartConversations ==
    ASSUME NEW c \in Convs
    PROVE  Spec /\ []Apart(c) /\ [][DeletionWaits(c)]_vars =>
             /\ [](LET M == {m \in Messages : message[m].conv = c} IN
                  \A m \in M : /\ \A n \in M : message[n].seq = message[m].seq => n = m
                               /\ message[m].seq > 1 =>
                                    \E n \in M : message[n].seq = message[m].seq - 1)
             /\ [](conv[c] = "deleted" =>
                     /\ \A m \in Messages : message[m].conv # c
                     /\ \A i \in Items : item[i].conv = c => item[i].state = "removed")
             /\ [](\A i, j \in Items :
                     /\ item[i].state = "active" /\ item[j].state = "active"
                     /\ item[i].conv = c /\ item[j].conv = c
                     /\ item[i].content = item[j].content
                     /\ ~item[i].edited /\ ~item[j].edited
                     => i = j)
<1> DEFINE Own == c \notin shared
<1>1. Init => Own
  BY DEF Init
<1>2. IInv /\ Own /\ Apart(c)' /\ [Next]_vars /\ [DeletionWaits(c)]_vars => Own'
  BY NotShared
<1>3. Own /\ MessagesAreNumbered =>
        LET M == {m \in Messages : message[m].conv = c} IN
        \A m \in M : /\ \A n \in M : message[n].seq = message[m].seq => n = m
                     /\ message[m].seq > 1 => \E n \in M : message[n].seq = message[m].seq - 1
  BY DEF MessagesAreNumbered
<1>4. Own /\ DeletedIsForgotten =>
        (conv[c] = "deleted" =>
          /\ \A m \in Messages : message[m].conv # c
          /\ \A i \in Items : item[i].conv = c => item[i].state = "removed")
  BY DEF DeletedIsForgotten
<1>5. Own /\ MemoryIsUnique =>
        \A i, j \in Items :
          /\ item[i].state = "active" /\ item[j].state = "active"
          /\ item[i].conv = c /\ item[j].conv = c
          /\ item[i].content = item[j].content
          /\ ~item[i].edited /\ ~item[j].edited
          => i = j
  BY DEF MemoryIsUnique
<1> HIDE DEF Own
<1>6. Spec /\ []Apart(c) /\ [][DeletionWaits(c)]_vars => []Own
  BY <1>1, <1>2, Invariance, PTL DEF Spec
<1> QED
  BY <1>3, <1>4, <1>5, <1>6, Numbered, Forgotten, Unique, PTL

=============================================================================
