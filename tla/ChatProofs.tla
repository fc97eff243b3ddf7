----------------------------- MODULE ChatProofs -----------------------------
(***************************************************************************)
(* Theorems about the two chat servers: MyTalk for any number of users,    *)
(* clients, texts and leaves, and TalkRoom for any number of users,        *)
(* clients and texts.                                                      *)
(***************************************************************************)
EXTENDS MyTalk, TalkRoom, TLAPS, FiniteSetTheorems, SequenceTheorems, WellFoundedInduction

Entry == [fd : Fd, out : BOOLEAN, rev : SUBSET {"IN", "OUT", "RDHUP", "ERR"}]

\* The entries are the open descriptors, each once, and the walk is at one of
\* them or behind the last.
Placed ==
    /\ user_counter <= USER_LIMIT /\ i <= user_counter + 1
    /\ \A j \in 1..user_counter : sock[fds[j].fd] # "free"
    /\ \A f \in Fd : sock[f] # "free" => \E j \in 1..user_counter : fds[j].fd = f
    /\ \A j, k \in 1..user_counter : fds[j].fd = fds[k].fd => j = k

\* Clients are numbered as they are accepted.
Numbered ==
    /\ backlog <= arrived /\ (lrev => backlog > 0)
    /\ \A f \in Fd : sock[f] # "free" => who[f] \in 1..(arrived - backlog)
    /\ \A f, g \in Fd : sock[f] # "free" /\ sock[g] # "free" /\ who[f] = who[g] => f = g

\* What an entry the walk has still to visit was reported for is still so.
Lasting(e) ==
    /\ "IN" \in e.rev /\ e.rev \cap {"ERR", "RDHUP"} = {} => inbox[e.fd] > 0
    /\ e.rev = {"OUT"} => sock[e.fd] # "dead"

Fresh == \A j \in 1..user_counter : i <= j => Lasting(fds[j])

\* One user's pointer leads to the words of another.
Aims(f) ==
    write_buf[f] # NULL =>
        /\ write_buf[f] # f
        /\ write_buf[f] \notin copied => buf[write_buf[f]] # who[f]

Aimed == \A j \in 1..user_counter : fds[j].out => Aims(fds[j].fd)

Inv == TypeOK /\ Placed /\ Numbered /\ Fresh /\ Aimed

\* The array in the terms of a sequence.
LEMMA Array ==
    ASSUME TypeOK
    PROVE  /\ USER_LIMIT \in Nat /\ Len(fds) \in Nat /\ user_counter = Len(fds)
           /\ i \in Nat /\ fds \in Seq(Entry) /\ DOMAIN fds = 1..Len(fds)
           /\ \A j \in 1..Len(fds) : fds[j] \in Entry
<1>1. fds \in Seq(Entry) /\ i \in 0..(USER_LIMIT + 1)  BY DEF TypeOK, Entry
<1>2. USER_LIMIT \in Nat  BY MyTalkAssumption DEF MyTalkAssumption
<1>3. i \in Nat  BY <1>1, <1>2
<1>4. Len(fds) \in Nat /\ DOMAIN fds = 1..Len(fds) /\ \A j \in 1..Len(fds) : fds[j] \in Entry
  BY <1>1, LenProperties, ElementOfSeq
<1> QED  BY <1>1, <1>2, <1>3, <1>4 DEF user_counter

LEMMA EntryType ==
    ASSUME NEW e \in Entry
    PROVE  e.fd \in Fd /\ e.out \in BOOLEAN /\ e.rev \in SUBSET {"IN", "OUT", "RDHUP", "ERR"}
BY DEF Entry

LEMMA Pollfd ==
    ASSUME NEW f \in Fd, NEW b \in BOOLEAN, NEW r \in SUBSET {"IN", "OUT", "RDHUP", "ERR"}
    PROVE  /\ pollfd(f, b, r) \in Entry
           /\ pollfd(f, b, r).fd = f /\ pollfd(f, b, r).out = b /\ pollfd(f, b, r).rev = r
BY DEF pollfd, Entry

\* While there is room in the array there is a free descriptor.
LEMMA FreeFd ==
    ASSUME TypeOK, Placed, user_counter < USER_LIMIT
    PROVE  NewFd \in Fd /\ sock[NewFd] = "free"
<1>0. USER_LIMIT \in Nat /\ Len(fds) \in Nat /\ user_counter = Len(fds)
      /\ \A j \in 1..Len(fds) : fds[j] \in Entry  BY Array
<1> DEFINE Free == {f \in Fd : sock[f] = "free"}
<1>1. Free # {}
  <2> SUFFICES ASSUME Free = {} PROVE FALSE  OBVIOUS
  <2> DEFINE place == [j \in 1..user_counter |-> fds[j].fd]
  <2>1. \A f \in Fd : \E j \in 1..user_counter : fds[j].fd = f  BY DEF Placed
  <2>2. \A j \in 1..user_counter : fds[j].fd \in Fd  BY <1>0, EntryType
  <2>3. place \in [1..user_counter -> Fd]  BY <2>2
  <2>4. \A f \in Fd : \E j \in 1..user_counter : place[j] = f  BY <2>1
  <2> HIDE DEF place
  <2>5. place \in Surjection(1..user_counter, Fd)  BY <2>3, <2>4 DEF Surjection
  <2>6. ExistsSurjection(1..user_counter, Fd)  BY <2>5 DEF ExistsSurjection
  <2>7. Cardinality(Fd) <= user_counter  BY <1>0, <2>6, FS_SurjCardinalityBound
  <2>8. Cardinality(Fd) = USER_LIMIT
    <3>1. Cardinality(1..USER_LIMIT) = IF 1 > USER_LIMIT THEN 0 ELSE USER_LIMIT - 1 + 1
      BY <1>0, FS_Interval
    <3> QED  BY <1>0, <3>1 DEF Fd
  <2> QED  BY <1>0, <2>7, <2>8
<1> QED  BY <1>1 DEF NewFd

\* The visit of an entry that is left where it is takes only its revents.
LEMMA StepArray ==
    ASSUME TypeOK, NEW f \in Fd, At(f), Step
    PROVE  /\ fds' \in Seq(Entry) /\ Len(fds') = Len(fds)
           /\ i \in 1..Len(fds) /\ fds[i].fd = f /\ i' = i + 1
           /\ \A j \in 1..Len(fds) :
                 /\ fds'[j].fd = fds[j].fd /\ fds'[j].out = fds[j].out
                 /\ fds'[j].rev = IF j = i THEN {} ELSE fds[j].rev
<1>1. i \in 1..Len(fds) /\ fds[i].fd = f  BY Array DEF At
<1>2. fds' = [fds EXCEPT ![i] = pollfd(fds[i].fd, fds[i].out, {})] /\ i' = i + 1  BY DEF Step
<1>3. /\ pollfd(fds[i].fd, fds[i].out, {}) \in Entry
      /\ pollfd(fds[i].fd, fds[i].out, {}).fd = fds[i].fd
      /\ pollfd(fds[i].fd, fds[i].out, {}).out = fds[i].out
      /\ pollfd(fds[i].fd, fds[i].out, {}).rev = {}
  BY <1>1, Array, EntryType, Pollfd
<1>4. /\ fds' \in Seq(Entry) /\ Len(fds') = Len(fds)
      /\ \A j \in 1..Len(fds) :
            fds'[j] = IF j = i THEN pollfd(fds[i].fd, fds[i].out, {}) ELSE fds[j]
  BY <1>1, <1>2, <1>3, Array, ExceptSeq
<1>5. \A j \in 1..Len(fds) :
         /\ fds'[j].fd = fds[j].fd /\ fds'[j].out = fds[j].out
         /\ fds'[j].rev = IF j = i THEN {} ELSE fds[j].rev
  BY <1>1, <1>3, <1>4
<1> QED  BY <1>1, <1>2, <1>4, <1>5

\* The removal of entry i moves the last one to its place.
LEMMA CompactArray ==
    ASSUME TypeOK, NEW f \in Fd, At(f), Compact(f)
    PROVE  /\ fds' \in Seq(Entry) /\ Len(fds') = Len(fds) - 1
           /\ i \in 1..Len(fds) /\ fds[i].fd = f /\ i' = i
           /\ \A j \in 1..(Len(fds) - 1) : fds'[j] = IF j = i THEN fds[Len(fds)] ELSE fds[j]
<1>1. i \in 1..Len(fds) /\ fds[i].fd = f  BY Array DEF At
<1>2. /\ fds' = [j \in 1..(Len(fds) - 1) |-> IF j = i THEN fds[Len(fds)] ELSE fds[j]]
      /\ i' = i
  BY Array DEF Compact
<1>3. Len(fds) - 1 \in Nat  BY <1>1, Array
<1>4. \A j \in 1..(Len(fds) - 1) : (IF j = i THEN fds[Len(fds)] ELSE fds[j]) \in Entry
  BY <1>1, <1>3, Array
<1> QED  BY <1>1, <1>2, <1>3, <1>4

\* A text asks for POLLOUT of everyone but its author.
LEMMA HearArray ==
    ASSUME TypeOK, NEW f \in Fd, At(f), ToTheOthers(f)
    PROVE  /\ fds' \in Seq(Entry) /\ Len(fds') = Len(fds)
           /\ i \in 1..Len(fds) /\ fds[i].fd = f
           /\ \A j \in 1..Len(fds) :
                 /\ fds'[j].fd = fds[j].fd /\ fds'[j].out = (fds[j].out \/ j # i)
                 /\ fds'[j].rev = IF j = i THEN {} ELSE fds[j].rev
<1>1. i \in 1..Len(fds) /\ fds[i].fd = f  BY Array DEF At
<1> DEFINE e(j) == pollfd(fds[j].fd, fds[j].out \/ j # i, IF j = i THEN {} ELSE fds[j].rev)
<1>2. fds' = [j \in 1..Len(fds) |-> e(j)]  BY Array DEF ToTheOthers
<1>3. \A j \in 1..Len(fds) :
         /\ e(j) \in Entry /\ e(j).fd = fds[j].fd /\ e(j).out = (fds[j].out \/ j # i)
         /\ e(j).rev = IF j = i THEN {} ELSE fds[j].rev
  <2> SUFFICES ASSUME NEW j \in 1..Len(fds)
               PROVE  /\ e(j) \in Entry /\ e(j).fd = fds[j].fd
                      /\ e(j).out = (fds[j].out \/ j # i)
                      /\ e(j).rev = IF j = i THEN {} ELSE fds[j].rev
    OBVIOUS
  <2>1. fds[j] \in Entry  BY Array
  <2> DEFINE b == fds[j].out \/ j # i
             r == IF j = i THEN {} ELSE fds[j].rev
  <2>2. fds[j].fd \in Fd /\ b \in BOOLEAN /\ r \in SUBSET {"IN", "OUT", "RDHUP", "ERR"}
    BY <2>1, EntryType
  <2>3. e(j) = pollfd(fds[j].fd, b, r)  OBVIOUS
  <2> HIDE DEF b, r, e
  <2>4. e(j) \in Entry /\ e(j).fd = fds[j].fd /\ e(j).out = b /\ e(j).rev = r
    BY <2>2, <2>3, Pollfd
  <2> QED  BY <2>4 DEF b, r
<1> HIDE DEF e
<1>4. fds' \in Seq(Entry) /\ Len(fds') = Len(fds) /\ \A j \in 1..Len(fds) : fds'[j] = e(j)
  BY <1>2, <1>3, Array
<1> QED  BY <1>1, <1>3, <1>4

\* poll writes the revents of every entry.
LEMMA PollArray ==
    ASSUME TypeOK, NEW room,
           fds' = [j \in DOMAIN fds |-> pollfd(fds[j].fd, fds[j].out, Revents(fds[j], room))]
    PROVE  /\ fds' \in Seq(Entry) /\ Len(fds') = Len(fds)
           /\ \A j \in 1..Len(fds) :
                 /\ fds'[j].fd = fds[j].fd /\ fds'[j].out = fds[j].out
                 /\ fds'[j].rev = Revents(fds[j], room)
<1> DEFINE e(j) == pollfd(fds[j].fd, fds[j].out, Revents(fds[j], room))
<1>1. fds' = [j \in 1..Len(fds) |-> e(j)]  BY Array
<1>2. \A j \in 1..Len(fds) :
         /\ e(j) \in Entry /\ e(j).fd = fds[j].fd /\ e(j).out = fds[j].out
         /\ e(j).rev = Revents(fds[j], room)
  <2> SUFFICES ASSUME NEW j \in 1..Len(fds)
               PROVE  /\ e(j) \in Entry /\ e(j).fd = fds[j].fd /\ e(j).out = fds[j].out
                      /\ e(j).rev = Revents(fds[j], room)
    OBVIOUS
  <2>1. fds[j] \in Entry  BY Array
  <2>2. Revents(fds[j], room) \in SUBSET {"IN", "OUT", "RDHUP", "ERR"}  BY DEF Revents
  <2>3. fds[j].fd \in Fd /\ fds[j].out \in BOOLEAN  BY <2>1, EntryType
  <2> QED  BY <2>2, <2>3, Pollfd
<1> HIDE DEF e
<1>3. fds' \in Seq(Entry) /\ Len(fds') = Len(fds) /\ \A j \in 1..Len(fds) : fds'[j] = e(j)
  BY <1>1, <1>2, Array
<1> QED  BY <1>2, <1>3

\* The walk goes on behind an entry that stays: the other sockets are as they were.
LEMMA Passed ==
    ASSUME Inv, NEW f \in Fd, At(f), i' = i + 1,
           fds' \in Seq(Entry), Len(fds') = Len(fds),
           \A j \in 1..Len(fds) :
              /\ fds'[j].fd = fds[j].fd
              /\ fds'[j].rev = IF j = i THEN {} ELSE fds[j].rev,
           \A g \in Fd : /\ sock'[g] = "free" <=> sock[g] = "free"
                         /\ g # f => sock'[g] = sock[g] /\ inbox'[g] = inbox[g]
    PROVE  Placed' /\ Fresh'
<1>1. TypeOK /\ Placed /\ Fresh  BY DEF Inv
<1>2. /\ user_counter = Len(fds) /\ user_counter' = Len(fds) /\ Len(fds) \in Nat /\ i \in Nat
      /\ i \in 1..Len(fds) /\ fds[i].fd = f /\ i' \in Nat
  BY <1>1, Array DEF At, user_counter
<1>3. \A j \in 1..Len(fds) : fds[j].fd \in Fd  BY <1>1, Array, EntryType
<1>4. Placed'  BY <1>1, <1>2, <1>3 DEF Placed
<1>5. Fresh'
  <2> SUFFICES ASSUME NEW j \in 1..Len(fds), i + 1 <= j PROVE Lasting(fds[j])'
    BY <1>2 DEF Fresh
  <2>1. j # i /\ i <= j  BY <1>2
  <2>2. fds[j].fd # f  BY <1>1, <1>2, <2>1 DEF Placed
  <2>3. Lasting(fds[j])  BY <1>1, <1>2, <2>1 DEF Fresh
  <2>4. fds'[j].fd = fds[j].fd /\ fds'[j].rev = fds[j].rev  BY <2>1
  <2> QED  BY <1>3, <2>2, <2>3, <2>4 DEF Lasting
<1> QED  BY <1>4, <1>5

\* The entry of f is removed and its socket closed.
LEMMA RemovedEntry ==
    ASSUME Inv, NEW f \in Fd, At(f), Remove(f)
    PROVE  /\ fds' \in Seq(Entry) /\ Placed' /\ Fresh'
           /\ \A j \in 1..Len(fds') : /\ fds'[j].fd # f
                                      /\ \E k \in 1..Len(fds) : fds'[j] = fds[k]
           /\ user_counter' = Len(fds') /\ i' = i
<1>1. TypeOK /\ Placed /\ Fresh  BY DEF Inv
<1> DEFINE n == Len(fds)
<1>2. /\ Compact(f) /\ sock' = [sock EXCEPT ![f] = "free"] /\ inbox' = [inbox EXCEPT ![f] = 0]
  BY DEF Remove
<1>3. /\ fds' \in Seq(Entry) /\ Len(fds') = n - 1 /\ i \in 1..n /\ fds[i].fd = f /\ i' = i
      /\ \A j \in 1..(n - 1) : fds'[j] = IF j = i THEN fds[n] ELSE fds[j]
  BY <1>1, <1>2, CompactArray
<1>4. n \in Nat /\ user_counter = n /\ user_counter' = n - 1 /\ i \in Nat /\ USER_LIMIT \in Nat
  BY <1>1, <1>3, Array DEF user_counter
<1>5. \A j \in 1..n : fds[j].fd \in Fd  BY <1>1, Array, EntryType
<1> HIDE DEF n
<1>6. \A g \in Fd : g # f => sock'[g] = sock[g] /\ inbox'[g] = inbox[g]
  BY <1>2 DEF TypeOK, Inv
<1>7. sock'[f] = "free"  BY <1>2 DEF TypeOK, Inv
<1>8. \A j \in 1..(n - 1) : \E k \in 1..n : fds'[j] = fds[k] /\ k # i /\ (i <= j => i <= k)
  BY <1>3, <1>4
<1>9. \A j \in 1..(n - 1) : fds'[j].fd # f /\ fds'[j].fd \in Fd
  BY <1>1, <1>3, <1>4, <1>5, <1>8 DEF Placed
<1>10. Placed'
  <2>1. user_counter' <= USER_LIMIT /\ i' <= user_counter' + 1
    BY <1>1, <1>3, <1>4 DEF Placed
  <2>2. \A j \in 1..(n - 1) : sock'[fds'[j].fd] # "free"
    <3> SUFFICES ASSUME NEW j \in 1..(n - 1) PROVE sock'[fds'[j].fd] # "free"  OBVIOUS
    <3>1. PICK k \in 1..n : fds'[j] = fds[k]  BY <1>8
    <3>2. sock[fds[k].fd] # "free"  BY <1>1, <1>4 DEF Placed
    <3> QED  BY <1>6, <1>9, <3>1, <3>2
  <2>3. \A g \in Fd : sock'[g] # "free" => \E j \in 1..(n - 1) : fds'[j].fd = g
    <3> SUFFICES ASSUME NEW g \in Fd, sock'[g] # "free"
                 PROVE  \E j \in 1..(n - 1) : fds'[j].fd = g
      OBVIOUS
    <3>1. g # f /\ sock[g] # "free"  BY <1>6, <1>7
    <3>2. PICK k \in 1..n : fds[k].fd = g  BY <1>1, <1>4, <3>1 DEF Placed
    <3>3. CASE k = n
      <4>1. i # n  BY <1>3, <3>1, <3>2, <3>3
      <4>2. i \in 1..(n - 1)  BY <1>3, <1>4, <4>1
      <4> QED  BY <1>3, <3>2, <3>3, <4>2
    <3>4. CASE k # n
      <4>1. k \in 1..(n - 1) /\ k # i  BY <1>3, <1>4, <3>1, <3>2, <3>4
      <4> QED  BY <1>3, <3>2, <4>1
    <3> QED  BY <3>3, <3>4
  <2>4. \A j, k \in 1..(n - 1) : fds'[j].fd = fds'[k].fd => j = k
    <3>1. \A j, k \in 1..n : fds[j].fd = fds[k].fd => j = k  BY <1>1, <1>4 DEF Placed
    <3> QED  BY <1>3, <1>4, <3>1
  <2> QED  BY <1>4, <2>1, <2>2, <2>3, <2>4 DEF Placed
<1>11. Fresh'
  <2> SUFFICES ASSUME NEW j \in 1..(n - 1), i <= j PROVE Lasting(fds[j])'
    BY <1>3, <1>4 DEF Fresh
  <2>1. PICK k \in 1..n : fds'[j] = fds[k] /\ i <= k  BY <1>8
  <2>2. Lasting(fds[k])  BY <1>1, <1>4, <2>1 DEF Fresh
  <2> QED  BY <1>6, <1>9, <2>1, <2>2 DEF Lasting
<1> QED  BY <1>3, <1>4, <1>8, <1>9, <1>10, <1>11 DEF n, user_counter

\* The numbers stay right when sockets are only closed.
LEMMA SameNumbers ==
    ASSUME Inv, UNCHANGED <<backlog, arrived, lrev>>,
           \A f \in Fd : sock'[f] # "free" => sock[f] # "free" /\ who'[f] = who[f]
    PROVE  Numbered'
BY DEF Inv, Numbered

\* Pointers and buffers stay as they are, and so do the entries that ask for POLLOUT.
LEMMA SameAims ==
    ASSUME Inv, UNCHANGED <<write_buf, buf, copied, who>>, user_counter' \in Nat,
           \A j \in 1..user_counter' : fds'[j].out =>
              \E k \in 1..user_counter : fds[k].fd = fds'[j].fd /\ fds[k].out
    PROVE  Aimed'
<1>1. Aimed  BY DEF Inv
<1> SUFFICES ASSUME NEW j \in 1..user_counter', fds'[j].out PROVE Aims(fds[j].fd)'
  BY DEF Aimed
<1>2. PICK k \in 1..user_counter : fds[k].fd = fds'[j].fd /\ fds[k].out  OBVIOUS
<1>3. Aims(fds[k].fd)  BY <1>1, <1>2 DEF Aimed
<1> QED  BY <1>2, <1>3 DEF Aims

\* What every visit needs of the invariant.
LEMMA VisitFacts ==
    ASSUME Inv, NEW f \in Fd, At(f)
    PROVE  /\ TypeOK /\ Placed /\ Numbered /\ Fresh /\ Aimed
           /\ user_counter = Len(fds) /\ Len(fds) \in Nat /\ i \in 1..Len(fds) /\ fds[i].fd = f
           /\ sock[f] # "free" /\ fds[i].rev = Rev
           /\ \A j \in 1..Len(fds) : fds[j].fd \in Fd
           /\ i + 1 \in 0..(USER_LIMIT + 1)
           /\ USER_LIMIT \in Nat
<1>1. TypeOK /\ Placed /\ Numbered /\ Fresh /\ Aimed  BY DEF Inv
<1>2. /\ user_counter = Len(fds) /\ Len(fds) \in Nat /\ i \in 1..Len(fds) /\ fds[i].fd = f
      /\ USER_LIMIT \in Nat
  BY <1>1, Array DEF At
<1>3. sock[f] # "free" /\ i <= USER_LIMIT  BY <1>1, <1>2 DEF Placed
<1>4. \A j \in 1..Len(fds) : fds[j].fd \in Fd  BY <1>1, Array, EntryType
<1> QED  BY <1>1, <1>2, <1>3, <1>4 DEF Rev

LEMMA ErrorInv == ASSUME Inv, NEW f \in Fd, Error(f) PROVE Inv'
<1>1. At(f) /\ Step /\ UNCHANGED <<backlog, inbox, who, lrev, userVars, rest>>
      /\ sock' = [sock EXCEPT ![f] = IF @ \in {"rst", "epipe"} THEN "dead" ELSE @]
  BY DEF Error
<1>2. TypeOK /\ user_counter = Len(fds) /\ i + 1 \in 0..(USER_LIMIT + 1) /\ sock[f] # "free"
      /\ Len(fds) \in Nat /\ i \in 1..Len(fds)
  BY <1>1, VisitFacts
<1>3. /\ fds' \in Seq(Entry) /\ Len(fds') = Len(fds) /\ i' = i + 1
      /\ \A j \in 1..Len(fds) :
            /\ fds'[j].fd = fds[j].fd /\ fds'[j].out = fds[j].out
            /\ fds'[j].rev = IF j = i THEN {} ELSE fds[j].rev
  BY <1>1, <1>2, StepArray
<1>4. \A g \in Fd : /\ sock'[g] = "free" <=> sock[g] = "free"
                    /\ g # f => sock'[g] = sock[g] /\ inbox'[g] = inbox[g]
  BY <1>1, <1>2 DEF TypeOK
<1>5. Placed' /\ Fresh'  BY <1>1, <1>3, <1>4, Passed
<1>6. Numbered'  BY <1>1, <1>4, SameNumbers DEF rest
<1>7. Aimed'
  <2>1. user_counter' = Len(fds)  BY <1>3 DEF user_counter
  <2> QED  BY <1>1, <1>2, <1>3, <2>1, SameAims DEF userVars
<1>8. TypeOK'
  BY <1>1, <1>2, <1>3 DEF TypeOK, Entry, userVars, rest
<1> QED  BY <1>5, <1>6, <1>7, <1>8 DEF Inv

LEMMA QuietInv == ASSUME Inv, NEW f \in Fd, Quiet(f) PROVE Inv'
<1>1. At(f) /\ Step /\ UNCHANGED <<backlog, sock, inbox, who, lrev, userVars, rest>>
  BY DEF Quiet
<1>2. TypeOK /\ user_counter = Len(fds) /\ i + 1 \in 0..(USER_LIMIT + 1)
      /\ Len(fds) \in Nat /\ i \in 1..Len(fds)
  BY <1>1, VisitFacts
<1>3. /\ fds' \in Seq(Entry) /\ Len(fds') = Len(fds) /\ i' = i + 1
      /\ \A j \in 1..Len(fds) :
            /\ fds'[j].fd = fds[j].fd /\ fds'[j].out = fds[j].out
            /\ fds'[j].rev = IF j = i THEN {} ELSE fds[j].rev
  BY <1>1, <1>2, StepArray
<1>4. Placed' /\ Fresh'  BY <1>1, <1>3, Passed
<1>5. Numbered'  BY <1>1, SameNumbers DEF rest
<1>6. Aimed'
  <2>1. user_counter' = Len(fds)  BY <1>3 DEF user_counter
  <2> QED  BY <1>1, <1>2, <1>3, <2>1, SameAims DEF userVars
<1>7. TypeOK'  BY <1>1, <1>2, <1>3 DEF TypeOK, Entry, userVars, rest
<1> QED  BY <1>4, <1>5, <1>6, <1>7 DEF Inv

LEMMA WriteInv == ASSUME Inv, NEW f \in Fd, Write(f) PROVE Inv'
<1>1. At(f) /\ Step /\ UNCHANGED <<backlog, inbox, who, lrev, buf, copied, arrived, said, leaves>>
      /\ write_buf' = [write_buf EXCEPT ![f] = NULL]
  BY DEF Write
<1>2. TypeOK /\ Aimed /\ user_counter = Len(fds) /\ i + 1 \in 0..(USER_LIMIT + 1)
      /\ sock[f] # "free" /\ Len(fds) \in Nat /\ i \in 1..Len(fds)
      /\ \A j \in 1..Len(fds) : fds[j].fd \in Fd
  BY <1>1, VisitFacts
<1>3. /\ fds' \in Seq(Entry) /\ Len(fds') = Len(fds) /\ i' = i + 1
      /\ \A j \in 1..Len(fds) :
            /\ fds'[j].fd = fds[j].fd /\ fds'[j].out = fds[j].out
            /\ fds'[j].rev = IF j = i THEN {} ELSE fds[j].rev
  BY <1>1, <1>2, StepArray
<1>4. /\ \A g \in Fd : /\ sock'[g] = "free" <=> sock[g] = "free"
                       /\ g # f => sock'[g] = sock[g] /\ inbox'[g] = inbox[g]
      /\ sock' \in [Fd -> {"free", "up", "fin", "rst", "epipe", "dead"}]
  <2>1. \/ sock' = sock
        \/ sock' = [sock EXCEPT ![f] = IF @ \in {"rst", "epipe"} THEN "dead" ELSE @]
    BY DEF Write
  <2> QED  BY <1>1, <1>2, <2>1 DEF TypeOK
<1>5. Placed' /\ Fresh'  BY <1>1, <1>3, <1>4, Passed
<1>6. Numbered'  BY <1>1, <1>4, SameNumbers
<1>7. Aimed'
  <2>1. user_counter' = Len(fds)  BY <1>3 DEF user_counter
  <2> SUFFICES ASSUME NEW j \in 1..Len(fds), fds'[j].out PROVE Aims(fds[j].fd)'
    BY <2>1 DEF Aimed
  <2>2. fds'[j].fd = fds[j].fd /\ fds[j].fd \in Fd /\ Aims(fds[j].fd)
    BY <1>2, <1>3 DEF Aimed
  <2>3. write_buf'[fds[j].fd] \in {NULL, write_buf[fds[j].fd]}
    BY <1>1, <1>2, <2>2 DEF TypeOK
  <2> QED  BY <1>1, <2>2, <2>3 DEF Aims
<1>8. TypeOK'
  <2>1. write_buf' \in [Fd -> Fd \cup {NULL}]  BY <1>1, <1>2 DEF TypeOK
  <2>2. killed' \in BOOLEAN
    <3>1. killed \in BOOLEAN  BY <1>2 DEF TypeOK
    <3>2. killed' = killed \/ killed' = TRUE  BY Zenon DEF Write
    <3> QED  BY <3>1, <3>2, Zenon
  <2> QED  BY <1>1, <1>2, <1>3, <1>4, <2>1, <2>2 DEF TypeOK, Entry
<1> QED  BY <1>5, <1>6, <1>7, <1>8 DEF Inv

\* recv of nothing clears the buffer of the user that is visited.
LEMMA NothingInv ==
    ASSUME Inv, NEW f \in Fd, At(f), Nothing(f), UNCHANGED <<backlog, lrev, rest>>
    PROVE  Inv'
<1>1. /\ Step /\ UNCHANGED <<backlog, lrev, rest, sock, inbox, who, write_buf>>
      /\ buf' = [buf EXCEPT ![f] = NULL] /\ copied' = copied \ {f}
  BY DEF Nothing
<1>2. /\ TypeOK /\ Aimed /\ Numbered /\ Placed /\ user_counter = Len(fds)
      /\ i + 1 \in 0..(USER_LIMIT + 1) /\ Len(fds) \in Nat /\ i \in 1..Len(fds)
      /\ \A j \in 1..Len(fds) : fds[j].fd \in Fd
  BY <1>1, VisitFacts
<1>3. /\ fds' \in Seq(Entry) /\ Len(fds') = Len(fds) /\ i' = i + 1
      /\ \A j \in 1..Len(fds) :
            /\ fds'[j].fd = fds[j].fd /\ fds'[j].out = fds[j].out
            /\ fds'[j].rev = IF j = i THEN {} ELSE fds[j].rev
  BY <1>1, <1>2, StepArray
<1>4. Placed' /\ Fresh'  BY <1>1, <1>3, Passed
<1>5. Numbered'  BY <1>1, SameNumbers DEF rest
<1>6. Aimed'
  <2>1. user_counter' = Len(fds)  BY <1>3 DEF user_counter
  <2> SUFFICES ASSUME NEW j \in 1..Len(fds), fds'[j].out PROVE Aims(fds[j].fd)'
    BY <2>1 DEF Aimed
  <2>2. fds'[j].fd = fds[j].fd /\ fds[j].fd \in Fd /\ Aims(fds[j].fd)
    BY <1>2, <1>3 DEF Aimed
  <2>3. write_buf[fds[j].fd] \in Fd \cup {NULL}  BY <1>2, <2>2 DEF TypeOK
  <2>4. who[fds[j].fd] # NULL
    <3>1. sock[fds[j].fd] # "free"  BY <1>2 DEF Placed
    <3>2. who[fds[j].fd] \in 1..(arrived - backlog)  BY <1>2, <2>2, <3>1 DEF Numbered
    <3> QED  BY <1>2, <3>2 DEF NULL
  <2>5. \A g \in Fd : buf'[g] = IF g = f THEN NULL ELSE buf[g]  BY <1>1, <1>2 DEF TypeOK
  <2> QED  BY <1>1, <2>2, <2>3, <2>4, <2>5 DEF Aims
<1>7. TypeOK'
  <2>1. buf' \in [Fd -> Nat] /\ copied' \subseteq Fd  BY <1>1, <1>2 DEF TypeOK, NULL
  <2> QED  BY <1>1, <1>2, <1>3, <2>1 DEF TypeOK, Entry, rest
<1> QED  BY <1>4, <1>5, <1>6, <1>7 DEF Inv

\* A text is read: everyone else is to be sent it.
LEMMA HearInv ==
    ASSUME Inv, NEW f \in Fd, At(f), Hear(f), inbox[f] > 0, UNCHANGED <<backlog, lrev, rest>>
    PROVE  Inv'
<1>1. /\ ToTheOthers(f) /\ i' = i + 1 /\ UNCHANGED <<backlog, lrev, rest, sock, who>>
      /\ inbox' = [inbox EXCEPT ![f] = @ - 1]
      /\ buf' = [buf EXCEPT ![f] = who[f]] /\ copied' = copied \ {f}
      /\ write_buf' = [g \in Fd |->
            IF g # f /\ \E j \in DOMAIN fds : fds[j].fd = g THEN f ELSE write_buf[g]]
  BY DEF Hear, ToTheOthers
<1>2. /\ TypeOK /\ Aimed /\ Numbered /\ Placed /\ user_counter = Len(fds)
      /\ i + 1 \in 0..(USER_LIMIT + 1) /\ Len(fds) \in Nat /\ i \in 1..Len(fds) /\ fds[i].fd = f
      /\ \A j \in 1..Len(fds) : fds[j].fd \in Fd
      /\ sock[f] # "free"
  BY VisitFacts
<1>3. /\ fds' \in Seq(Entry) /\ Len(fds') = Len(fds)
      /\ \A j \in 1..Len(fds) :
            /\ fds'[j].fd = fds[j].fd /\ fds'[j].out = (fds[j].out \/ j # i)
            /\ fds'[j].rev = IF j = i THEN {} ELSE fds[j].rev
  BY <1>1, <1>2, HearArray
<1>4. \A g \in Fd : g # f => inbox'[g] = inbox[g]  BY <1>1, <1>2 DEF TypeOK
<1>5. Placed' /\ Fresh'  BY <1>1, <1>3, <1>4, Passed
<1>6. Numbered'  BY <1>1, SameNumbers DEF rest
<1>7. Aimed'
  <2>1. user_counter' = Len(fds)  BY <1>3 DEF user_counter
  <2> SUFFICES ASSUME NEW j \in 1..Len(fds), fds'[j].out PROVE Aims(fds[j].fd)'
    BY <2>1 DEF Aimed
  <2>2. fds'[j].fd = fds[j].fd /\ fds[j].fd \in Fd  BY <1>2, <1>3
  <2>3. \A g \in Fd : buf'[g] = IF g = f THEN who[f] ELSE buf[g]  BY <1>1, <1>2 DEF TypeOK
  <2>4. CASE j = i
    <3>1. fds[j].out /\ fds[j].fd = f  BY <1>2, <1>3, <2>4
    <3>2. Aims(f)  BY <1>2, <3>1 DEF Aimed
    <3>3. write_buf'[f] = write_buf[f] /\ write_buf[f] \in Fd \cup {NULL}
      BY <1>1, <1>2 DEF TypeOK
    <3> QED  BY <1>1, <2>2, <2>3, <3>1, <3>2, <3>3 DEF Aims
  <2>5. CASE j # i
    <3>1. fds[j].fd # f  BY <1>2, <2>5 DEF Placed
    <3>2. write_buf'[fds[j].fd] = f  BY <1>1, <1>2, <2>2, <3>1, Array
    <3>3. who[fds[j].fd] # who[f]
      <4>1. sock[fds[j].fd] # "free"  BY <1>2 DEF Placed
      <4> QED  BY <1>2, <2>2, <3>1, <4>1 DEF Numbered
    <3> QED  BY <1>1, <2>2, <2>3, <3>1, <3>2, <3>3 DEF Aims
  <2> QED  BY <2>4, <2>5
<1>8. TypeOK'
  <2>1. inbox \in [Fd -> Nat] /\ inbox[f] - 1 \in Nat
    <3>1. inbox \in [Fd -> Nat]  BY <1>2 DEF TypeOK
    <3>2. inbox[f] \in Nat /\ inbox[f] > 0  BY <3>1
    <3> QED  BY <3>1, <3>2
  <2>2. inbox' \in [Fd -> Nat]  BY <1>1, <2>1
  <2>3. buf' \in [Fd -> Nat] /\ copied' \subseteq Fd  BY <1>1, <1>2 DEF TypeOK
  <2>4. write_buf' \in [Fd -> Fd \cup {NULL}]  BY <1>1, <1>2 DEF TypeOK
  <2>5. fds' \in Seq([fd : Fd, out : BOOLEAN, rev : SUBSET {"IN", "OUT", "RDHUP", "ERR"}])
    BY <1>3 DEF Entry
  <2> QED  BY <1>1, <1>2, <2>2, <2>3, <2>4, <2>5 DEF TypeOK, rest
<1> QED  BY <1>5, <1>6, <1>7, <1>8 DEF Inv

\* A user is removed; its buffer is cleared, left alone or overwritten.
LEMMA RemoveInv ==
    ASSUME Inv, NEW f \in Fd, At(f), Remove(f), UNCHANGED <<backlog, lrev, rest>>,
           buf' \in [Fd -> Nat], copied' \subseteq Fd,
           \A g \in Fd : g # f => buf'[g] = buf[g] /\ (g \in copied' <=> g \in copied),
           f \notin copied' => buf'[f] = NULL \/ (buf'[f] = buf[f] /\ f \notin copied)
    PROVE  Inv'
<1>1. /\ TypeOK /\ Aimed /\ Numbered /\ Placed /\ user_counter = Len(fds)
      /\ Len(fds) \in Nat /\ i \in 1..Len(fds) /\ fds[i].fd = f
      /\ \A j \in 1..Len(fds) : fds[j].fd \in Fd
      /\ sock[f] # "free" /\ fds[user_counter].fd \in Fd
  <2>1. i \in 1..Len(fds) /\ Len(fds) \in Nat  BY VisitFacts
  <2>2. Len(fds) \in 1..Len(fds)  BY <2>1
  <2> QED  BY <2>2, VisitFacts
<1> DEFINE last == fds[user_counter].fd
<1>2. /\ sock' = [sock EXCEPT ![f] = "free"]
      /\ inbox' = [inbox EXCEPT ![f] = 0] /\ who' = [who EXCEPT ![f] = NULL]
      /\ write_buf' = [write_buf EXCEPT ![f] = write_buf[last]]
  BY DEF Remove
<1>3. /\ fds' \in Seq(Entry) /\ Placed' /\ Fresh'
      /\ \A j \in 1..Len(fds') : /\ fds'[j].fd # f
                                 /\ \E k \in 1..Len(fds) : fds'[j] = fds[k]
      /\ user_counter' = Len(fds') /\ i' = i
  BY RemovedEntry
<1> HIDE DEF last
<1>4. \A g \in Fd : g # f => /\ sock'[g] = sock[g] /\ who'[g] = who[g]
                             /\ write_buf'[g] = write_buf[g]
  BY <1>1, <1>2 DEF TypeOK
<1>5. sock'[f] = "free"  BY <1>1, <1>2 DEF TypeOK
<1>6. Numbered'  BY <1>4, <1>5, SameNumbers DEF rest
<1>7. Aimed'
  <2> SUFFICES ASSUME NEW j \in 1..Len(fds'), fds'[j].out PROVE Aims(fds[j].fd)'
    BY <1>3 DEF Aimed
  <2>1. PICK k \in 1..Len(fds) : fds'[j] = fds[k]  BY <1>3
  <2>2. PICK d \in Fd : d = fds[k].fd /\ d # f /\ fds[k].out /\ fds'[j].fd = d
    BY <1>1, <1>3, <2>1
  <2>3. Aims(d)  BY <1>1, <2>2 DEF Aimed
  <2>4. write_buf[d] \in Fd \cup {NULL}  BY <1>1, <2>2 DEF TypeOK
  <2>5. who[d] # NULL
    <3>1. sock[d] # "free"  BY <1>1, <2>2 DEF Placed
    <3>2. who[d] \in 1..(arrived - backlog)  BY <1>1, <2>2, <3>1 DEF Numbered
    <3> QED  BY <1>1, <3>2 DEF NULL
  <2>6. Aims(d)'
    <3>1. write_buf'[d] = write_buf[d] /\ who'[d] = who[d]  BY <1>4, <2>2
    <3>2. CASE write_buf[d] = f  BY <2>3, <2>5, <3>1, <3>2 DEF Aims
    <3>3. CASE write_buf[d] # f  BY <2>3, <2>4, <3>1, <3>3 DEF Aims
    <3> QED  BY <3>2, <3>3
  <2> QED  BY <2>2, <2>6 DEF Aims
<1>8. TypeOK'
  <2>1. write_buf' \in [Fd -> Fd \cup {NULL}]  BY <1>1, <1>2 DEF TypeOK, last
  <2>2. /\ sock' \in [Fd -> {"free", "up", "fin", "rst", "epipe", "dead"}]
        /\ inbox' \in [Fd -> Nat] /\ who' \in [Fd -> Nat]
    BY <1>1, <1>2 DEF TypeOK, NULL
  <2> QED  BY <1>1, <1>3, <2>1, <2>2 DEF TypeOK, Entry, rest
<1> QED  BY <1>3, <1>6, <1>7, <1>8 DEF Inv

LEMMA LeftInv == ASSUME Inv, NEW f \in Fd, Left(f) PROVE Inv'
<1> DEFINE last == fds[user_counter].fd
<1>1. /\ At(f) /\ Remove(f) /\ UNCHANGED <<backlog, lrev, rest>>
      /\ buf' = [buf EXCEPT ![f] = buf[last]]
      /\ copied' = IF last = f THEN copied ELSE copied \cup {f}
  BY DEF Left
<1>2. last \in Fd /\ TypeOK
  <2>1. Len(fds) \in 1..Len(fds) /\ user_counter = Len(fds)  BY <1>1, VisitFacts
  <2> QED  BY <1>1, <2>1, VisitFacts
<1> HIDE DEF last
<1>3. buf \in [Fd -> Nat] /\ copied \subseteq Fd  BY <1>2 DEF TypeOK
<1>4. /\ buf' \in [Fd -> Nat]
      /\ \A g \in Fd : buf'[g] = IF g = f THEN buf[last] ELSE buf[g]
  BY <1>1, <1>2, <1>3
<1>5. copied' \subseteq Fd /\ \A g \in Fd : g # f => (g \in copied' <=> g \in copied)
  BY <1>1, <1>3
<1>6. f \notin copied' => buf'[f] = buf[f] /\ f \notin copied  BY <1>1, <1>4
<1> QED  BY <1>1, <1>4, <1>5, <1>6, RemoveInv

\* recv of an error removes the user, whose buffer has been cleared.
LEMMA FailInv ==
    ASSUME Inv, NEW f \in Fd, At(f), Fail(f), UNCHANGED <<backlog, lrev, rest>>
    PROVE  Inv'
<1> DEFINE last == fds[user_counter].fd
<1>1. /\ Remove(f)
      /\ buf' = [buf EXCEPT ![f] = IF last = f THEN NULL ELSE buf[last]]
      /\ copied' = IF last = f THEN copied \ {f} ELSE copied \cup {f}
  BY DEF Fail
<1>2. last \in Fd /\ TypeOK
  <2>1. Len(fds) \in 1..Len(fds) /\ user_counter = Len(fds)  BY VisitFacts
  <2> QED  BY <2>1, VisitFacts
<1> HIDE DEF last
<1>3. buf \in [Fd -> Nat] /\ copied \subseteq Fd /\ NULL \in Nat  BY <1>2 DEF TypeOK, NULL
<1>4. /\ buf' \in [Fd -> Nat]
      /\ \A g \in Fd : g # f => buf'[g] = buf[g]
      /\ last = f => buf'[f] = NULL
  BY <1>1, <1>2, <1>3
<1>5. copied' \subseteq Fd /\ \A g \in Fd : g # f => (g \in copied' <=> g \in copied)
  BY <1>1, <1>3
<1>6. f \notin copied' => buf'[f] = NULL  BY <1>1, <1>4
<1> QED  BY <1>1, <1>4, <1>5, <1>6, RemoveInv

\* An entry that shows POLLIN alone has a text: recv returns nothing else.
LEMMA ReadInv == ASSUME Inv, NEW f \in Fd, Read(f) PROVE Inv'
<1>1. At(f) /\ UNCHANGED <<backlog, lrev, rest>>  BY DEF Read
<1>2. PICK r \in RecvResults(f) :
         CASE r = "data" -> Hear(f)
           [] r = "error" -> Fail(f)
           [] OTHER -> Nothing(f)
  BY DEF Read
<1>3. CASE r = "data"
  <2>1. Hear(f) /\ inbox[f] > 0  BY <1>2, <1>3 DEF RecvResults
  <2> QED  BY <1>1, <2>1, HearInv
<1>4. CASE r = "error"
  <2>1. Fail(f)  BY <1>2, <1>4
  <2> QED  BY <1>1, <2>1, FailInv
<1>5. CASE r \notin {"data", "error"}
  <2>1. Nothing(f)  BY <1>2, <1>5
  <2> QED  BY <1>1, <2>1, NothingInv
<1> QED  BY <1>3, <1>4, <1>5

\* The walk begins: nothing but entry 0 is done with.
LEMMA Began ==
    ASSUME Inv, Listen, UNCHANGED <<sock, inbox, who, fds, userVars, rest>>,
           backlog' \in Nat, backlog' <= backlog
    PROVE  Inv'
<1>1. /\ TypeOK /\ Placed /\ Numbered /\ Fresh /\ Aimed
      /\ Len(fds) \in Nat /\ user_counter = Len(fds) /\ user_counter' = Len(fds)
      /\ USER_LIMIT \in Nat \ {0}
  BY Array, MyTalkAssumption DEF Inv, user_counter, MyTalkAssumption
<1>2. i = 0 /\ i' = 1 /\ lrev' = FALSE  BY DEF Listen
<1>3. Placed'  BY <1>1, <1>2 DEF Placed
<1>4. Numbered'
  <2>1. backlog \in Nat /\ arrived \in Nat /\ arrived' = arrived  BY <1>1 DEF TypeOK, rest
  <2> QED  BY <1>1, <1>2, <2>1 DEF Numbered
<1>5. Fresh'  BY <1>1, <1>2 DEF Fresh, Lasting
<1>6. Aimed'  BY <1>1 DEF Aimed, Aims, userVars
<1>7. TypeOK'
  <2>1. i' \in 0..(USER_LIMIT + 1)  BY <1>1, <1>2
  <2>2. lrev' \in BOOLEAN  BY <1>2
  <2> QED  BY <1>1, <2>1, <2>2 DEF TypeOK, userVars, rest
<1> QED  BY <1>3, <1>4, <1>5, <1>6, <1>7 DEF Inv

LEMMA NoClientInv == ASSUME Inv, NoClient PROVE Inv'
<1>1. backlog \in Nat  BY DEF Inv, TypeOK
<1> QED  BY <1>1, Began DEF NoClient

LEMMA TurnAwayInv == ASSUME Inv, TurnAway PROVE Inv'
<1>1. backlog \in Nat /\ backlog > 0  BY DEF Inv, TypeOK, Numbered, TurnAway
<1>2. backlog' \in Nat /\ backlog' <= backlog  BY <1>1 DEF TurnAway
<1> QED  BY <1>2, Began DEF TurnAway

LEMMA AcceptInv == ASSUME Inv, Accept PROVE Inv'
<1>1. /\ TypeOK /\ Placed /\ Numbered /\ Fresh /\ Aimed
      /\ Len(fds) \in Nat /\ user_counter = Len(fds) /\ USER_LIMIT \in Nat \ {0}
      /\ fds \in Seq(Entry)
  BY Array, MyTalkAssumption DEF Inv, user_counter, MyTalkAssumption
<1>2. /\ i = 0 /\ i' = 1 /\ lrev' = FALSE /\ user_counter < USER_LIMIT /\ backlog > 0
      /\ UNCHANGED <<inbox, userVars, rest>> /\ backlog' = backlog - 1
  BY <1>1 DEF Accept, Listen, Numbered
<1>3. PICK d \in Fd : d = NewFd /\ sock[d] = "free"  BY <1>1, <1>2, FreeFd
<1>4. /\ sock' = [sock EXCEPT ![d] = "up"]
      /\ who' = [who EXCEPT ![d] = arrived - backlog + 1]
      /\ fds' = Append(fds, pollfd(d, FALSE, {}))
  BY <1>3 DEF Accept
<1> DEFINE n == Len(fds)
           e == pollfd(d, FALSE, {})
<1>5. e \in Entry /\ e.fd = d /\ e.out = FALSE /\ e.rev = {}  BY DEF pollfd, Entry
<1> HIDE DEF e
<1>6. /\ fds' \in Seq(Entry) /\ Len(fds') = n + 1
      /\ \A j \in 1..(n + 1) : fds'[j] = IF j <= n THEN fds[j] ELSE e
  <2>1. fds' = Append(fds, e)  BY <1>4 DEF e
  <2> HIDE DEF n
  <2>2. n \in Nat /\ n = Len(fds)  BY <1>1 DEF n
  <2> QED  BY <1>1, <1>5, <2>1, <2>2, AppendProperties
<1>7. user_counter' = n + 1  BY <1>6 DEF user_counter
<1>8. \A j \in 1..n : fds[j].fd \in Fd /\ fds[j].fd # d
  BY <1>1, <1>3, Array, EntryType DEF Placed
<1>9. \A g \in Fd : /\ sock'[g] = IF g = d THEN "up" ELSE sock[g]
                    /\ who'[g] = IF g = d THEN arrived - backlog + 1 ELSE who[g]
  BY <1>1, <1>4 DEF TypeOK
<1>10. arrived \in Nat /\ backlog \in Nat /\ arrived' = arrived /\ backlog <= arrived
  BY <1>1, <1>2 DEF TypeOK, rest, Numbered
<1>11. Placed'
  <2>1. user_counter' <= USER_LIMIT /\ i' <= user_counter' + 1  BY <1>1, <1>2, <1>7
  <2>2. \A j \in 1..(n + 1) : sock'[fds'[j].fd] # "free"
    <3> SUFFICES ASSUME NEW j \in 1..(n + 1) PROVE sock'[fds'[j].fd] # "free"  OBVIOUS
    <3>1. CASE j <= n
      <4>1. j \in 1..n  BY <1>1, <3>1
      <4> QED  BY <1>1, <1>6, <1>8, <1>9, <3>1, <4>1 DEF Placed
    <3>2. CASE ~(j <= n)  BY <1>3, <1>5, <1>6, <1>9, <3>2
    <3> QED  BY <3>1, <3>2
  <2>3. \A g \in Fd : sock'[g] # "free" => \E j \in 1..(n + 1) : fds'[j].fd = g
    <3> SUFFICES ASSUME NEW g \in Fd, sock'[g] # "free"
                 PROVE  \E j \in 1..(n + 1) : fds'[j].fd = g
      OBVIOUS
    <3>1. CASE g = d
      <4>1. n + 1 \in 1..(n + 1) /\ ~(n + 1 <= n)  BY <1>1
      <4> QED  BY <1>5, <1>6, <3>1, <4>1
    <3>2. CASE g # d
      <4>1. PICK j \in 1..n : fds[j].fd = g  BY <1>1, <1>9, <3>2 DEF Placed
      <4>2. j \in 1..(n + 1) /\ j <= n  BY <1>1, <4>1
      <4> QED  BY <1>6, <4>1, <4>2
    <3> QED  BY <3>1, <3>2
  <2>4. \A j, k \in 1..(n + 1) : fds'[j].fd = fds'[k].fd => j = k
    <3> SUFFICES ASSUME NEW j \in 1..(n + 1), NEW k \in 1..(n + 1), fds'[j].fd = fds'[k].fd
                 PROVE  j = k
      OBVIOUS
    <3>1. \A m \in 1..(n + 1) : \/ m \in 1..n /\ fds'[m] = fds[m] /\ fds'[m].fd # d
                                \/ m = n + 1 /\ fds'[m].fd = d
      BY <1>1, <1>5, <1>6, <1>8
    <3> QED  BY <1>1, <3>1 DEF Placed
  <2> QED  BY <1>7, <2>1, <2>2, <2>3, <2>4 DEF Placed
<1>12. Numbered'
  <2>1. \A g \in Fd : sock'[g] # "free" =>
           IF g = d THEN who'[g] = arrived - backlog + 1
                    ELSE sock[g] # "free" /\ who'[g] = who[g] /\ who[g] \in 1..(arrived - backlog)
    BY <1>1, <1>9 DEF Numbered
  <2>2. \A g \in Fd : sock'[g] # "free" => who'[g] \in 1..(arrived' - backlog')
    BY <1>2, <1>10, <2>1
  <2>3. \A f, g \in Fd : sock'[f] # "free" /\ sock'[g] # "free" /\ who'[f] = who'[g] => f = g
    <3>1. \A f, g \in Fd : sock[f] # "free" /\ sock[g] # "free" /\ who[f] = who[g] => f = g
      BY <1>1 DEF Numbered
    <3> QED  BY <1>10, <2>1, <3>1
  <2> QED  BY <1>2, <1>10, <2>2, <2>3 DEF Numbered
<1>13. Fresh'
  <2> SUFFICES ASSUME NEW j \in 1..(n + 1) PROVE Lasting(fds[j])'  BY <1>7 DEF Fresh
  <2>1. CASE j <= n
    <3>1. j \in 1..n /\ fds'[j] = fds[j]  BY <1>1, <1>6, <2>1
    <3>2. Lasting(fds[j])  BY <1>1, <1>2, <3>1 DEF Fresh
    <3> QED  BY <1>2, <1>8, <1>9, <3>1, <3>2 DEF Lasting
  <2>2. CASE ~(j <= n)  BY <1>5, <1>6, <2>2 DEF Lasting
  <2> QED  BY <2>1, <2>2
<1>14. Aimed'
  <2> SUFFICES ASSUME NEW j \in 1..(n + 1), fds'[j].out PROVE Aims(fds[j].fd)'
    BY <1>7 DEF Aimed
  <2>1. j \in 1..n /\ fds'[j] = fds[j]  BY <1>1, <1>5, <1>6
  <2>2. Aims(fds[j].fd)  BY <1>1, <2>1 DEF Aimed
  <2> QED  BY <1>2, <1>8, <1>9, <2>1, <2>2 DEF Aims, userVars
<1>15. TypeOK'
  <2>1. arrived - backlog + 1 \in Nat /\ backlog - 1 \in Nat  BY <1>2, <1>10
  <2>2. sock' \in [Fd -> {"free", "up", "fin", "rst", "epipe", "dead"}] /\ who' \in [Fd -> Nat]
    BY <1>1, <1>4, <2>1 DEF TypeOK
  <2>3. i' \in 0..(USER_LIMIT + 1)  BY <1>1, <1>2
  <2>4. lrev' \in BOOLEAN  BY <1>2
  <2> QED  BY <1>1, <1>2, <1>6, <2>1, <2>2, <2>3, <2>4 DEF TypeOK, Entry, userVars, rest
<1> QED  BY <1>11, <1>12, <1>13, <1>14, <1>15 DEF Inv

\* poll writes what is so now.
LEMMA PollInv == ASSUME Inv, Poll PROVE Inv'
<1>1. /\ TypeOK /\ Placed /\ Numbered /\ Fresh /\ Aimed
      /\ Len(fds) \in Nat /\ user_counter = Len(fds) /\ USER_LIMIT \in Nat
  BY Array DEF Inv
<1>2. /\ lrev' = (backlog > 0) /\ i' = 0
      /\ UNCHANGED <<backlog, sock, inbox, who, userVars, rest>>
  BY DEF Poll
<1>3. PICK room \in SUBSET Fd :
         fds' = [j \in DOMAIN fds |-> pollfd(fds[j].fd, fds[j].out, Revents(fds[j], room))]
  BY DEF Poll
<1>4. /\ fds' \in Seq(Entry) /\ Len(fds') = Len(fds)
      /\ \A j \in 1..Len(fds) :
            /\ fds'[j].fd = fds[j].fd /\ fds'[j].out = fds[j].out
            /\ fds'[j].rev = Revents(fds[j], room)
  BY <1>1, <1>3, PollArray
<1>5. user_counter' = Len(fds)  BY <1>4 DEF user_counter
<1>6. Placed'  BY <1>1, <1>2, <1>4, <1>5 DEF Placed
<1>7. Numbered'  BY <1>1, <1>2 DEF Numbered, rest
<1>8. Fresh'
  <2> SUFFICES ASSUME NEW j \in 1..Len(fds) PROVE Lasting(fds[j])'  BY <1>5 DEF Fresh
  <2> DEFINE d == fds[j].fd
  <2>1. fds'[j].fd = d /\ fds'[j].rev = Revents(fds[j], room)  BY <1>4
  <2>2. "IN" \in Revents(fds[j], room) => inbox[d] > 0 \/ Gone(d)  BY DEF Revents
  <2>3. Gone(d) => "RDHUP" \in Revents(fds[j], room)  BY DEF Revents, Asked
  <2>4. sock[d] = "dead" => Gone(d)  BY DEF Gone
  <2> QED  BY <1>2, <2>1, <2>2, <2>3, <2>4 DEF Lasting
<1>9. Aimed'  BY <1>1, <1>2, <1>4, <1>5, SameAims DEF userVars
<1>10. TypeOK'  BY <1>1, <1>2, <1>4 DEF TypeOK, Entry, userVars, rest
<1> QED  BY <1>6, <1>7, <1>8, <1>9, <1>10 DEF Inv

\* What the clients do takes nothing away that was reported: more texts, no
\* free descriptor, no fetched error.
LEMMA ClientInv ==
    ASSUME Inv, \/ Connect
                \/ \E f \in Fd : Speak(f) \/ Leave(f)
    PROVE  Inv'
<1>1. TypeOK /\ Placed /\ Numbered /\ Fresh /\ Aimed  BY DEF Inv
<1>2. /\ UNCHANGED <<who, fds, lrev, i, userVars>>
      /\ arrived' - backlog' = arrived - backlog /\ arrived' \in Nat /\ backlog' \in Nat
      /\ backlog' >= backlog
  <2>1. arrived \in Nat /\ backlog \in Nat  BY <1>1 DEF TypeOK
  <2>2. \/ arrived' = arrived + 1 /\ backlog' = backlog + 1
        \/ arrived' = arrived /\ backlog' = backlog
    BY DEF Connect, Speak, Leave
  <2>3. UNCHANGED <<who, fds, lrev, i, userVars>>  BY DEF Connect, Speak, Leave
  <2> QED  BY <2>1, <2>2, <2>3
<1>3. /\ inbox' \in [Fd -> Nat] /\ \A g \in Fd : inbox'[g] >= inbox[g]
      /\ said' \in Nat /\ leaves' \in Nat /\ killed' = killed
  <2>1. inbox \in [Fd -> Nat] /\ said \in Nat /\ leaves \in Nat  BY <1>1 DEF TypeOK
  <2>2. CASE Connect  BY <2>1, <2>2 DEF Connect
  <2>3. ASSUME NEW f \in Fd, Speak(f)
        PROVE  /\ inbox' \in [Fd -> Nat] /\ \A g \in Fd : inbox'[g] >= inbox[g]
               /\ said' \in Nat /\ leaves' \in Nat /\ killed' = killed
    <3>1. inbox' = [inbox EXCEPT ![f] = inbox[f] + 1] /\ inbox[f] + 1 \in Nat
      BY <2>1, <2>3 DEF Speak
    <3> QED  BY <2>1, <2>3, <3>1 DEF Speak
  <2>4. ASSUME NEW f \in Fd, Leave(f)
        PROVE  /\ inbox' \in [Fd -> Nat] /\ \A g \in Fd : inbox'[g] >= inbox[g]
               /\ said' \in Nat /\ leaves' \in Nat /\ killed' = killed
    BY <2>1, <2>4 DEF Leave
  <2> QED  BY <2>2, <2>3, <2>4
<1>4. /\ sock' \in [Fd -> {"free", "up", "fin", "rst", "epipe", "dead"}]
      /\ \A g \in Fd : /\ sock'[g] = "free" <=> sock[g] = "free"
                       /\ sock'[g] = "dead" => sock[g] = "dead"
  BY <1>1 DEF Connect, Speak, Leave, TypeOK
<1>5. /\ Len(fds) \in Nat /\ \A j \in 1..Len(fds) : fds[j].fd \in Fd
      /\ user_counter = Len(fds) /\ user_counter' = Len(fds)
  BY <1>1, <1>2, Array, EntryType DEF user_counter
<1>6. Placed'  BY <1>1, <1>2, <1>4, <1>5 DEF Placed
<1>7. Numbered'
  <2>1. arrived \in Nat /\ backlog \in Nat  BY <1>1 DEF TypeOK
  <2> QED  BY <1>1, <1>2, <1>4, <2>1 DEF Numbered
<1>8. Fresh'
  <2> SUFFICES ASSUME NEW j \in 1..Len(fds), i <= j PROVE Lasting(fds[j])'
    BY <1>2, <1>5 DEF Fresh
  <2>1. Lasting(fds[j])  BY <1>1, <1>5 DEF Fresh
  <2>2. inbox'[fds[j].fd] >= inbox[fds[j].fd] /\ inbox[fds[j].fd] \in Nat
        /\ inbox'[fds[j].fd] \in Nat
    BY <1>1, <1>3, <1>5 DEF TypeOK
  <2>3. PICK e : e = fds[j]  OBVIOUS
  <2>4. Lasting(e) /\ e.fd \in Fd /\ inbox'[e.fd] >= inbox[e.fd]
        /\ inbox[e.fd] \in Nat /\ inbox'[e.fd] \in Nat
    BY <1>5, <2>1, <2>2, <2>3
  <2>5. Lasting(e)'
    <3>1. inbox[e.fd] > 0 => inbox'[e.fd] > 0  BY <2>4
    <3>2. sock[e.fd] # "dead" => sock'[e.fd] # "dead"  BY <1>4, <2>4
    <3> QED  BY <2>4, <3>1, <3>2 DEF Lasting
  <2> QED  BY <1>2, <2>3, <2>5
<1>9. Aimed'  BY <1>1, <1>2, <1>5 DEF Aimed, Aims, userVars
<1>10. TypeOK'  BY <1>1, <1>2, <1>3, <1>4 DEF TypeOK, userVars
<1> QED  BY <1>6, <1>7, <1>8, <1>9, <1>10 DEF Inv

LEMMA InitInv == Init => Inv
<1> SUFFICES ASSUME Init PROVE Inv  OBVIOUS
<1>1. /\ backlog = 0 /\ fds = <<>> /\ lrev = FALSE /\ i = 1 /\ copied = {}
      /\ arrived = 0 /\ said = 0 /\ leaves = 0 /\ killed = FALSE
      /\ sock = [f \in Fd |-> "free"] /\ inbox = [f \in Fd |-> 0]
      /\ who = [f \in Fd |-> NULL] /\ write_buf = [f \in Fd |-> NULL]
      /\ buf = [f \in Fd |-> NULL]
  BY DEF Init
<1>2. USER_LIMIT \in Nat \ {0} /\ user_counter = 0
  BY <1>1, MyTalkAssumption DEF MyTalkAssumption, user_counter
<1>3. TypeOK
  <2>1. fds \in Seq([fd : Fd, out : BOOLEAN, rev : SUBSET {"IN", "OUT", "RDHUP", "ERR"}])
    BY <1>1
  <2>2. i \in 0..(USER_LIMIT + 1)  BY <1>1, <1>2
  <2>3. /\ sock \in [Fd -> {"free", "up", "fin", "rst", "epipe", "dead"}]
        /\ inbox \in [Fd -> Nat] /\ who \in [Fd -> Nat] /\ buf \in [Fd -> Nat]
        /\ write_buf \in [Fd -> Fd \cup {NULL}]
    BY <1>1 DEF NULL
  <2>4. copied \subseteq Fd /\ {backlog, arrived, said, leaves} \subseteq Nat  BY <1>1
  <2>5. lrev \in BOOLEAN /\ killed \in BOOLEAN  BY <1>1
  <2> QED  BY <2>1, <2>2, <2>3, <2>4, <2>5 DEF TypeOK
<1>4. Placed  BY <1>1, <1>2 DEF Placed
<1>5. Numbered  BY <1>1 DEF Numbered
<1>6. Fresh /\ Aimed  BY <1>2 DEF Fresh, Aimed
<1> QED  BY <1>3, <1>4, <1>5, <1>6 DEF Inv

LEMMA NextInv == Inv /\ [Next]_vars => Inv'
<1> SUFFICES ASSUME Inv, [Next]_vars PROVE Inv'  OBVIOUS
<1>1. CASE Poll  BY <1>1, PollInv
<1>2. CASE Accept  BY <1>2, AcceptInv
<1>3. CASE TurnAway  BY <1>3, TurnAwayInv
<1>4. CASE NoClient  BY <1>4, NoClientInv
<1>5. ASSUME NEW f \in Fd, Visit(f) PROVE Inv'
  BY <1>5, ErrorInv, LeftInv, ReadInv, WriteInv, QuietInv DEF Visit
<1>6. CASE Connect \/ \E f \in Fd : Speak(f) \/ Leave(f)  BY <1>6, ClientInv
<1>7. CASE UNCHANGED vars
  <2>1. UNCHANGED <<backlog, sock, inbox, who, fds, lrev, i, write_buf, buf, copied,
                    arrived, said, leaves, killed>>
    BY <1>7 DEF vars, userVars, rest
  <2> QED
    BY <2>1 DEF Inv, TypeOK, Placed, Numbered, Fresh, Lasting, Aimed, Aims, user_counter
<1> QED  BY <1>1, <1>2, <1>3, <1>4, <1>5, <1>6, <1>7 DEF Next, Server

LEMMA Invariant == Spec => []Inv
BY InitInv, NextInv, PTL DEF Spec

\* Whatever clients come, speak and leave, and wherever the walk is when they
\* do, the array holds each open descriptor once and no other, and never more
\* than USER_LIMIT of them.
THEOREM SlotsHold == Spec => []Slots
<1>1. Inv => Slots
  <2> SUFFICES ASSUME Inv PROVE Slots  OBVIOUS
  <2>1. /\ TypeOK /\ Placed /\ user_counter = Len(fds) /\ DOMAIN fds = 1..Len(fds)
        /\ \A j \in 1..Len(fds) : fds[j].fd \in Fd
    BY Array, EntryType DEF Inv
  <2>2. {fds[j].fd : j \in DOMAIN fds} = {f \in Fd : sock[f] # "free"}
    BY <2>1 DEF Placed
  <2> QED  BY <2>1, <2>2 DEF Slots, Placed
<1> QED  BY <1>1, Invariant, PTL

\* An entry the walk has still to visit can be treated as its old revents say:
\* a recv finds a text or an error, and a send does not find a socket whose
\* error has been fetched.  SIGPIPE comes only from a client that left and was
\* reset since the poll.
THEOREM UsableHolds == Spec => []Usable
<1>1. Inv => Usable
  <2> SUFFICES ASSUME Inv PROVE Usable  OBVIOUS
  <2>1. Fresh /\ user_counter = Len(fds) /\ DOMAIN fds = 1..Len(fds)  BY Array DEF Inv
  <2> QED  BY <2>1 DEF Usable, Fresh, Lasting
<1> QED  BY <1>1, Invariant, PTL

\* No user is sent its own words, except by way of a buffer that was overwritten
\* when its owner left.
THEOREM ForeignHolds == Spec => []Foreign
<1>1. Inv => Foreign
  <2> SUFFICES ASSUME Inv PROVE Foreign  OBVIOUS
  <2>1. Aimed /\ user_counter = Len(fds) /\ DOMAIN fds = 1..Len(fds)  BY Array DEF Inv
  <2> QED  BY <2>1 DEF Foreign, Aimed, Aims
<1> QED  BY <1>1, Invariant, PTL

-----------------------------------------------------------------------------

(***************************************************************************)
(* Induction on numbers, without a predicate as a parameter.               *)
(***************************************************************************)
LEMMA LeastOf ==
    ASSUME NEW S \in SUBSET Nat, S # {}
    PROVE  \E x \in S : \A y \in S : x <= y
<1>1. PICK x \in S : \A y \in S : ~(<<y, x>> \in OpToRel(<, Nat))
  BY NatLessThanWellFounded, WFMin
<1>2. \A y \in S : x <= y
  <2> SUFFICES ASSUME NEW y \in S PROVE x <= y  OBVIOUS
  <2>1. ~(<<y, x>> \in OpToRel(<, Nat))  BY <1>1
  <2>2. ~(y < x)  BY <2>1 DEF OpToRel
  <2> QED  BY <2>2
<1> QED  BY <1>2

LEMMA SetInduction ==
    ASSUME NEW S \in SUBSET Nat, 0 \in S, \A n \in S : n + 1 \in S
    PROVE  S = Nat
<1> SUFFICES ASSUME Nat \ S # {} PROVE FALSE  OBVIOUS
<1>1. PICK m \in Nat \ S : \A y \in Nat \ S : m <= y  BY LeastOf
<1>2. m # 0 /\ m - 1 \in Nat  OBVIOUS
<1>3. m - 1 \in S  BY <1>1, <1>2
<1> QED  BY <1>2, <1>3

-----------------------------------------------------------------------------

(***************************************************************************)
(* The talk room.  Its inductive invariant.                                *)
(***************************************************************************)
\* The types that RoomTypeOK leaves open.
Pipes ==
    /\ pbatch \in Seq(Pid \cup {LISTEN, SIGNAL})
    /\ cbatch \in [Pid -> Seq({"conn", "pipe"})]
    /\ down \in [Pid -> Seq(1..USER_LIMIT)]
    /\ up \in [Pid -> Seq(1..USER_LIMIT)]
    /\ said \in Nat

\* Who has been forked, and who waits to be, has arrived: a pid is always left.
Forked == {p \in Pid : phase[p] # "new"}
Counted ==
    /\ backlog \in Nat /\ arrived \in 0..MaxClients
    /\ Cardinality(Forked) + backlog <= arrived

\* What a child has still to handle: each of its two events once, and a number
\* in the pipe when that is one of them.
Batches == \A p \in Pid : phase[p] \in {"handle", "recv"} =>
    /\ cbatch[p] # <<>>
    /\ \A j, k \in DOMAIN cbatch[p] : cbatch[p][j] = cbatch[p][k] => j = k
    /\ \A k \in DOMAIN cbatch[p] : cbatch[p][k] = "pipe" => down[p] # <<>>
    /\ phase[p] = "recv" => Head(cbatch[p]) = "conn"

Announced ==
    /\ \A p \in Pid : phase[p] = "exited" => "CHLD" \in sigs
    /\ sigs # {} => SIGNAL \in pready \cup {pbatch[k] : k \in DOMAIN pbatch}

Enlisted == {p \in Pid : phase[p] \notin {"new", "reaped"}}
Roster == Users = Enlisted /\ \A k \in DOMAIN users : sub_process[users[k]] = k

\* A child says its own number, and nothing is on its way to or from one that is
\* not forked.
OwnNumber ==
    /\ \A p \in Pid : \A k \in DOMAIN up[p] : up[p][k] = idx[p]
    /\ \A p \in Pid : phase[p] = "new" => up[p] = <<>> /\ down[p] = <<>>

\* As long as nobody was reaped, the number a child was forked with is its place
\* in the table, so that no two have the same; a segment holds words of the child
\* it belongs to, and no child is told of its own.
NoneReaped == \A p \in Pid : phase[p] # "reaped"
Apart ==
    /\ \A p \in Forked : idx[p] \in DOMAIN users /\ users[idx[p]] = p
    /\ \A k \in 1..USER_LIMIT :
          share_mem[k] # NOTEXT => share_mem[k] \in Forked /\ idx[share_mem[k]] = k
    /\ \A p \in Pid : \A k \in DOMAIN down[p] : down[p][k] # idx[p]
    /\ \A p \in Pid : p \notin heard[p]

RoomInv ==
    /\ RoomTypeOK /\ Pipes /\ Counted /\ Batches
    /\ Announced /\ Roster /\ OwnNumber
    /\ NoneReaped => Apart

-----------------------------------------------------------------------------

LEMMA PidFacts ==
    /\ MaxClients \in Nat /\ USER_LIMIT \in Nat /\ USER_LIMIT # 0 /\ Pid \subseteq Nat
    /\ IsFiniteSet(Pid) /\ IsFiniteSet(Pid \cup {LISTEN, SIGNAL})
    /\ LISTEN \notin Pid /\ SIGNAL \notin Pid /\ NOTEXT \notin Pid /\ LISTEN # SIGNAL
    /\ -1 \notin Nat
<1>1. MaxClients \in Nat /\ USER_LIMIT \in Nat /\ USER_LIMIT # 0
  BY RoomAssumption DEF RoomAssumption
<1>2. IsFiniteSet(Pid)  BY <1>1, FS_Interval DEF Pid
<1>3. IsFiniteSet(Pid \cup {LISTEN, SIGNAL})
  <2>1. IsFiniteSet(Pid \cup {LISTEN})  BY <1>2, FS_AddElement
  <2>2. IsFiniteSet((Pid \cup {LISTEN}) \cup {SIGNAL})  BY <2>1, FS_AddElement
  <2>3. (Pid \cup {LISTEN}) \cup {SIGNAL} = Pid \cup {LISTEN, SIGNAL}  OBVIOUS
  <2> QED  BY <2>2, <2>3
<1> QED  BY <1>1, <1>2, <1>3 DEF Pid, LISTEN, SIGNAL, NOTEXT

LEMMA OrderIs ==
    ASSUME NEW S, IsFiniteSet(S), NEW s \in Orders(S)
    PROVE  /\ s \in Seq(S) /\ Len(s) = Cardinality(S) /\ \A x \in S : \E k \in DOMAIN s : s[k] = x
           /\ \A j, k \in DOMAIN s : s[j] = s[k] => j = k
<1>0. PICK n : n = Cardinality(S)  OBVIOUS
<1>1. n \in Nat /\ IsFiniteSet(1..n) /\ Cardinality(1..n) = n
  BY <1>0, FS_CardinalityType, FS_Interval
<1>2. s \in [1..n -> S] /\ \A j, k \in DOMAIN s : s[j] = s[k] => j = k  BY <1>0 DEF Orders
<1>3. s \in Injection(1..n, S)  BY <1>2 DEF Injection, IsInjective
<1>4. s \in Surjection(1..n, S)  BY <1>0, <1>1, <1>3, FS_Injection
<1>5. \A x \in S : \E k \in 1..n : s[k] = x  BY <1>4 DEF Surjection
<1>6. s \in Seq(S)  BY <1>1, <1>2
<1>7. Len(s) = n  BY <1>1, <1>2, <1>6
<1> QED  BY <1>0, <1>2, <1>5, <1>6, <1>7

\* A batch without its head.
LEMMA TailIs ==
    ASSUME NEW S, NEW s \in Seq(S), s # <<>>
    PROVE  /\ Head(s) = s[1] /\ 1 \in DOMAIN s /\ Tail(s) \in Seq(S)
           /\ Len(s) \in Nat /\ Len(s) # 0 /\ DOMAIN s = 1..Len(s)
           /\ Len(Tail(s)) = Len(s) - 1 /\ DOMAIN Tail(s) = 1..(Len(s) - 1)
           /\ \A k \in DOMAIN Tail(s) : k + 1 \in DOMAIN s /\ Tail(s)[k] = s[k + 1]
           /\ \A k \in DOMAIN s : k # 1 => k - 1 \in DOMAIN Tail(s) /\ Tail(s)[k - 1] = s[k]
<1>1. /\ Tail(s) \in Seq(S) /\ Len(Tail(s)) = Len(s) - 1
      /\ \A k \in 1..Len(Tail(s)) : Tail(s)[k] = s[k + 1]
  BY HeadTailProperties
<1>2. Len(s) \in Nat /\ DOMAIN s = 1..Len(s) /\ Len(s) # 0 /\ Head(s) = s[1]
  BY LenProperties, EmptySeq
<1>3. PICK n \in Nat : n = Len(s) /\ n # 0  BY <1>2
<1>4. DOMAIN Tail(s) = 1..(n - 1)  BY <1>1, <1>3, LenProperties
<1>5. \A k \in 1..(n - 1) : k + 1 \in 1..n /\ Tail(s)[k] = s[k + 1]  BY <1>1, <1>3
<1>6. \A k \in 1..n : k # 1 => k - 1 \in 1..(n - 1) /\ Tail(s)[k - 1] = s[k]
  <2> SUFFICES ASSUME NEW k \in 1..n, k # 1
               PROVE  k - 1 \in 1..(n - 1) /\ Tail(s)[k - 1] = s[k]
    OBVIOUS
  <2>1. k - 1 \in 1..(n - 1) /\ (k - 1) + 1 = k  OBVIOUS
  <2> QED  BY <2>1, <1>5
<1>7. 1 \in 1..n  BY <1>3
<1> QED  BY <1>1, <1>2, <1>3, <1>4, <1>5, <1>6, <1>7

LEMMA AppendIs ==
    ASSUME NEW S, NEW s \in Seq(S), NEW x \in S
    PROVE  /\ Append(s, x) \in Seq(S) /\ Len(Append(s, x)) = Len(s) + 1
           /\ Len(s) \in Nat /\ DOMAIN s = 1..Len(s) /\ DOMAIN Append(s, x) = 1..(Len(s) + 1)
           /\ Append(s, x)[Len(s) + 1] = x
           /\ \A k \in DOMAIN s : k \in DOMAIN Append(s, x) /\ Append(s, x)[k] = s[k]
           /\ \A k \in DOMAIN Append(s, x) : k \in DOMAIN s \/ k = Len(s) + 1
<1>1. /\ Append(s, x) \in Seq(S) /\ Len(Append(s, x)) = Len(s) + 1
      /\ \A k \in 1..Len(s) : Append(s, x)[k] = s[k]
      /\ Append(s, x)[Len(s) + 1] = x
  BY AppendProperties
<1>2. PICK n \in Nat : n = Len(s) /\ DOMAIN s = 1..n  BY LenProperties
<1>3. DOMAIN Append(s, x) = 1..(n + 1)  BY <1>1, <1>2, LenProperties
<1>4. \A k \in 1..n : k \in 1..(n + 1)  OBVIOUS
<1>5. \A k \in 1..(n + 1) : k \in 1..n \/ k = n + 1  OBVIOUS
<1> QED  BY <1>1, <1>2, <1>3, <1>4, <1>5

-----------------------------------------------------------------------------

(***************************************************************************)
(* Reaping the children of one batch of signals.                           *)
(***************************************************************************)
\* The table u and the numbers m fit, and the table is of the children in S.
Fits(u, m, S) ==
    /\ u \in Seq(Pid) /\ m \in [Pid -> Nat \cup {-1}]
    /\ {u[k] : k \in DOMAIN u} = S
    /\ \A k \in DOMAIN u : m[u[k]] = k

LEMMA RemovedFits ==
    ASSUME NEW u, NEW m, NEW S, Fits(u, m, S), NEW pid \in S,
           NEW r, r = RemovedUser(u, m, pid)
    PROVE  ~(m[pid] < 0) /\ Fits(r.users, r.sub_process, S \ {pid})
<1>1. PICK n \in Nat : n = Len(u) /\ DOMAIN u = 1..n  BY LenProperties DEF Fits
<1>2. /\ \A k \in 1..n : u[k] \in Pid /\ u[k] \in S /\ m[u[k]] = k
      /\ m \in [Pid -> Nat \cup {-1}]
  BY <1>1, ElementOfSeq DEF Fits
<1>3. PICK d \in 1..n : u[d] = pid  BY <1>1 DEF Fits
<1>4. m[pid] = d /\ ~(d < 0) /\ pid \in Pid /\ n # 0 /\ n \in 1..n  BY <1>2, <1>3
<1>5. PICK last \in Pid : last = u[n] /\ m[last] = n  BY <1>2, <1>4
<1>6. PICK v : v = [k \in 1..(n - 1) |-> IF k = d THEN last ELSE u[k]]  OBVIOUS
<1>7. PICK w : w = [m EXCEPT ![pid] = -1, ![last] = d]  OBVIOUS
<1>8. r.users = v /\ r.sub_process = w
  BY <1>1, <1>4, <1>5, <1>6, <1>7 DEF RemovedUser
<1>9. \A k \in 1..(n - 1) : k \in 1..n /\ k # n  OBVIOUS
<1>10. v \in [1..(n - 1) -> Pid]  BY <1>2, <1>5, <1>6, <1>9
<1>11. v \in Seq(Pid) /\ DOMAIN v = 1..(n - 1)
  <2>1. n - 1 \in Nat  BY <1>4
  <2> QED  BY <2>1, <1>10, IsASeq
<1>12. w \in [Pid -> Nat \cup {-1}] /\ w[last] = d
       /\ \A p \in Pid : p # pid /\ p # last => w[p] = m[p]
  <2>1. d \in Nat  OBVIOUS
  <2> QED  BY <2>1, <1>2, <1>4, <1>5, <1>7
<1>13. ASSUME NEW k \in 1..(n - 1)
       PROVE  w[v[k]] = k /\ v[k] \in S \ {pid}
  <2>1. CASE k = d
    <3>1. v[k] = last /\ d # n  BY <2>1, <1>6, <1>9
    <3>2. last # pid /\ last \in S  BY <3>1, <1>2, <1>4, <1>5
    <3> QED  BY <2>1, <3>1, <3>2, <1>12
  <2>2. CASE k # d
    <3>1. v[k] = u[k] /\ m[u[k]] = k /\ u[k] \in Pid /\ u[k] \in S  BY <2>2, <1>2, <1>6, <1>9
    <3>2. u[k] # pid /\ u[k] # last  BY <2>2, <3>1, <1>4, <1>5, <1>9
    <3> QED  BY <3>1, <3>2, <1>12
  <2> QED  BY <2>1, <2>2
<1>14. ASSUME NEW p \in S \ {pid} PROVE \E k \in 1..(n - 1) : v[k] = p
  <2>1. PICK k \in 1..n : u[k] = p  BY <1>1 DEF Fits
  <2>2. k # d  BY <2>1, <1>3, <1>14
  <2>3. CASE k = n
    <3>1. d \in 1..(n - 1)  BY <2>2, <2>3
    <3>2. v[d] = p  BY <2>1, <2>3, <3>1, <1>5, <1>6
    <3> QED  BY <3>1, <3>2
  <2>4. CASE k # n
    <3>1. k \in 1..(n - 1)  BY <2>4
    <3>2. v[k] = p  BY <2>1, <2>2, <3>1, <1>6
    <3> QED  BY <3>1, <3>2
  <2> QED  BY <2>3, <2>4
<1>15. {v[k] : k \in 1..(n - 1)} = S \ {pid}  BY <1>13, <1>14
<1>16. Fits(v, w, S \ {pid})  BY <1>11, <1>12, <1>13, <1>15 DEF Fits
<1> QED  BY <1>4, <1>8, <1>16

\* The function inside Reaped, up to m.
Before == [users |-> users, sub_process |-> sub_process]
Without(r, pid) ==
    IF r.sub_process[pid] < 0 THEN r ELSE RemovedUser(r.users, r.sub_process, pid)
IsAfter(f, order, m) ==
    f = [n \in 0..m |-> IF n = 0 THEN Before ELSE Without(f[n - 1], order[n])]

LEMMA AfterExists ==
    ASSUME NEW order
    PROVE  \A m \in Nat : \E f : IsAfter(f, order, m)
<1> DEFINE S == {m \in Nat : \E f : IsAfter(f, order, m)}
<1>1. 0 \in S
  <2>1. IsAfter([n \in 0..0 |-> Before], order, 0)  BY DEF IsAfter
  <2> QED  BY <2>1
<1>2. ASSUME NEW m \in S PROVE m + 1 \in S
  <2>1. PICK f : IsAfter(f, order, m)  OBVIOUS
  <2> DEFINE V(h, n) == IF n = 0 THEN Before ELSE Without(h[n - 1], order[n])
             g == [n \in 0..(m + 1) |-> IF n <= m THEN f[n] ELSE V(f, n)]
  <2>2. ASSUME NEW n \in 0..(m + 1) PROVE g[n] = V(g, n)
    <3>1. n # 0 => g[n - 1] = f[n - 1]
      <4>1. n # 0 => n - 1 \in 0..(m + 1) /\ n - 1 <= m  OBVIOUS
      <4> QED  BY <4>1
    <3>2. V(f, n) = V(g, n)  BY <3>1
    <3>3. CASE n <= m
      <4>1. n \in 0..m  BY <3>3
      <4>2. f[n] = V(f, n)  BY <4>1, <2>1 DEF IsAfter
      <4>3. g[n] = f[n]  BY <3>3
      <4> QED  BY <3>2, <4>2, <4>3
    <3>4. CASE ~(n <= m)
      <4>1. g[n] = V(f, n)  BY <3>4
      <4> QED  BY <3>2, <4>1
    <3> QED  BY <3>3, <3>4
  <2>3. IsAfter(g, order, m + 1)
    <3>1. g = [n \in 0..(m + 1) |-> g[n]]  OBVIOUS
    <3>2. \A n \in 0..(m + 1) : g[n] = V(g, n)  BY <2>2
    <3> HIDE DEF g
    <3> QED  BY <3>1, <3>2 DEF IsAfter
  <2> QED  BY <2>3
<1>3. S = Nat
  <2> HIDE DEF S
  <2>1. S \in SUBSET Nat  BY DEF S
  <2> QED  BY <1>1, <1>2, <2>1, SetInduction
<1> QED  BY <1>3

LEMMA ReapedIs ==
    ASSUME NEW order, Len(order) \in Nat
    PROVE  \E f : IsAfter(f, order, Len(order)) /\ Reaped(order) = f[Len(order)]
<1>1. \E f : IsAfter(f, order, Len(order))  BY AfterExists
<1> DEFINE u == CHOOSE f : IsAfter(f, order, Len(order))
<1>2. IsAfter(u, order, Len(order))  BY <1>1
<1>3. Reaped(order) = u[Len(order)]  BY DEF Reaped, IsAfter, Before, Without
<1> QED  BY <1>2, <1>3

\* Whoever is reaped, in whatever order, leaves a table that fits the others.
LEMMA ReapedFits ==
    ASSUME NEW E, Fits(users, sub_process, E), NEW S, S \subseteq E, IsFiniteSet(S),
           NEW order \in Orders(S), NEW r, r = Reaped(order)
    PROVE  /\ Fits(r.users, r.sub_process, E \ S)
           /\ S = {} => r.users = users /\ r.sub_process = sub_process
<1>1. PICK m \in Nat : m = Len(order) /\ DOMAIN order = 1..m /\ m = Cardinality(S)
  BY OrderIs, LenProperties
<1>2. /\ \A k \in 1..m : order[k] \in S
      /\ \A x \in S : \E k \in 1..m : order[k] = x
      /\ \A j, k \in 1..m : order[j] = order[k] => j = k
  BY <1>1, OrderIs, ElementOfSeq
<1>3. PICK f : IsAfter(f, order, m) /\ r = f[m]  BY <1>1, ReapedIs
<1>4. \A n \in 0..m : f[n] = IF n = 0 THEN Before ELSE Without(f[n - 1], order[n])
  BY <1>3 DEF IsAfter
<1> DEFINE Unreaped(n) == E \ {order[k] : k \in 1..n}
           Good(n) == Fits(f[n].users, f[n].sub_process, Unreaped(n))
           I == {n \in Nat : n <= m => Good(n)}
<1>5. f[0] = Before
  <2>1. 0 \in 0..m  OBVIOUS
  <2> QED  BY <2>1, <1>4
<1>6. 0 \in I
  <2>1. f[0].users = users /\ f[0].sub_process = sub_process  BY <1>5 DEF Before
  <2>2. Unreaped(0) = E  OBVIOUS
  <2> HIDE DEF Unreaped
  <2>3. Good(0)  BY <2>1, <2>2
  <2> QED  BY <2>3
<1>7. ASSUME NEW n \in I PROVE n + 1 \in I
  <2> SUFFICES ASSUME n + 1 <= m PROVE Good(n + 1)  OBVIOUS
  <2>1. n + 1 \in 0..m /\ n + 1 # 0 /\ (n + 1) - 1 = n /\ n + 1 \in 1..m  OBVIOUS
  <2>2. Good(n)  OBVIOUS
  <2>3. PICK pid \in S : pid = order[n + 1]  BY <2>1, <1>2
  <2>4. f[n + 1] = Without(f[n], pid)  BY <2>1, <2>3, <1>4
  <2>5. pid \in Unreaped(n)
    <3>1. \A k \in 1..n : k \in 1..m /\ k # n + 1  BY <2>1
    <3> QED  BY <3>1, <2>1, <2>3, <1>2
  <2>6. Unreaped(n + 1) = Unreaped(n) \ {pid}
    <3>1. \A k \in 1..(n + 1) : k \in 1..n \/ k = n + 1  OBVIOUS
    <3>2. \A k \in 1..n : k \in 1..(n + 1)  OBVIOUS
    <3>3. n + 1 \in 1..(n + 1)  OBVIOUS
    <3> QED  BY <3>1, <3>2, <3>3, <2>3
  <2> HIDE DEF Unreaped
  <2>7. PICK u, w : u = f[n].users /\ w = f[n].sub_process  OBVIOUS
  <2>8. PICK L : L = Unreaped(n)  OBVIOUS
  <2>9. PICK q : q = RemovedUser(u, w, pid)  OBVIOUS
  <2>10. ~(w[pid] < 0) /\ Fits(q.users, q.sub_process, L \ {pid})
    BY <2>2, <2>5, <2>7, <2>8, <2>9, RemovedFits
  <2>11. f[n + 1] = q  BY <2>4, <2>7, <2>9, <2>10 DEF Without
  <2> QED  BY <2>6, <2>8, <2>10, <2>11
<1>8. I = Nat
  <2> HIDE DEF I
  <2>1. I \in SUBSET Nat  BY DEF I
  <2> QED  BY <1>6, <1>7, <2>1, SetInduction
<1>9. Good(m)
  <2>1. m \in I  BY <1>8
  <2> QED  BY <2>1
<1>10. Unreaped(m) = E \ S  BY <1>2
<1>11. ASSUME S = {} PROVE r.users = users /\ r.sub_process = sub_process
  <2>1. m = 0  BY <1>11, <1>1, FS_EmptySet
  <2> QED  BY <2>1, <1>3, <1>5 DEF Before
<1> HIDE DEF Unreaped
<1> QED  BY <1>3, <1>9, <1>10, <1>11

-----------------------------------------------------------------------------

(***************************************************************************)
(* What keeps each part of the invariant.                                  *)
(***************************************************************************)
LEMMA CountedKept ==
    ASSUME Counted, Forked' = Forked, UNCHANGED <<backlog, arrived>>
    PROVE  Counted'
BY DEF Counted

LEMMA BatchesKept ==
    ASSUME Batches, UNCHANGED cbatch,
           \A p \in Pid : phase'[p] \in {"handle", "recv"} =>
               phase'[p] = phase[p] /\ (down[p] # <<>> => down'[p] # <<>>)
    PROVE  Batches'
BY DEF Batches

LEMMA AnnouncedKept ==
    ASSUME Announced, UNCHANGED <<sigs, pbatch>>, pready \subseteq pready',
           \A p \in Pid : phase'[p] = "exited" => phase[p] = "exited"
    PROVE  Announced'
BY DEF Announced

LEMMA RosterKept ==
    ASSUME Roster, UNCHANGED <<users, sub_process>>, Enlisted' = Enlisted
    PROVE  Roster'
BY DEF Roster, Users

LEMMA OwnNumberKept ==
    ASSUME OwnNumber, UNCHANGED <<up, down, idx>>,
           \A p \in Pid : phase'[p] = "new" => phase[p] = "new"
    PROVE  OwnNumber'
BY DEF OwnNumber

LEMMA ApartKept ==
    ASSUME NoneReaped => Apart, NoneReaped' => NoneReaped,
           Forked' = Forked, UNCHANGED <<users, share_mem, idx, down, heard>>
    PROVE  NoneReaped' => Apart'
BY DEF Apart

\* A child that goes on is neither forked nor reaped by that.
LEMMA Moved ==
    ASSUME RoomTypeOK, NEW p \in Pid, phase[p] \notin {"new", "reaped"},
           NEW to, to \notin {"new", "reaped"}, phase' = [phase EXCEPT ![p] = to]
    PROVE  /\ Forked' = Forked /\ Enlisted' = Enlisted /\ NoneReaped' = NoneReaped
           /\ phase'[p] = to /\ \A q \in Pid : q # p => phase'[q] = phase[q]
           /\ \A q \in Pid : phase'[q] = "new" <=> phase[q] = "new"
<1>1. phase'[p] = to /\ \A q \in Pid : q # p => phase'[q] = phase[q]  BY DEF RoomTypeOK
<1>2. \A q \in Pid : /\ phase'[q] = "new" <=> phase[q] = "new"
                     /\ phase'[q] = "reaped" <=> phase[q] = "reaped"
  BY <1>1
<1>3. Forked' = Forked  BY <1>2 DEF Forked
<1>4. Enlisted' = Enlisted  BY <1>2 DEF Enlisted
<1>5. NoneReaped' = NoneReaped  BY <1>2 DEF NoneReaped
<1> QED  BY <1>1, <1>2, <1>3, <1>4, <1>5

LEMMA Still ==
    ASSUME UNCHANGED phase
    PROVE  Forked' = Forked /\ Enlisted' = Enlisted /\ NoneReaped' = NoneReaped
BY DEF Forked, Enlisted, NoneReaped

LEMMA RoomInitInv == RoomInit => RoomInv
<1> SUFFICES ASSUME RoomInit PROVE RoomInv  OBVIOUS
<1>1. \A S : <<>> \in Seq(S)  BY EmptySeq
<1>2. 1 \in 1..USER_LIMIT /\ 0 \in Nat  BY PidFacts
<1>3. RoomTypeOK  BY <1>1, <1>2 DEF RoomInit, RoomTypeOK, NOTEXT
<1>4. Pipes  BY <1>1, <1>2 DEF RoomInit, Pipes
<1>5. Forked = {} /\ Enlisted = {} /\ Users = {}
  BY DEF RoomInit, Forked, Enlisted, Users
<1>6. Counted
  <2>1. Cardinality(Forked) = 0  BY <1>5, FS_EmptySet
  <2> QED  BY <2>1, PidFacts DEF RoomInit, Counted
<1>7. Batches /\ Announced /\ OwnNumber  BY DEF RoomInit, Batches, Announced, OwnNumber
<1>8. Roster  BY <1>5 DEF RoomInit, Roster
<1>9. Apart  BY <1>5 DEF RoomInit, Apart
<1> QED  BY <1>3, <1>4, <1>6, <1>7, <1>8, <1>9 DEF RoomInv

-----------------------------------------------------------------------------

(***************************************************************************)
(* The clients and the operator.                                           *)
(***************************************************************************)
LEMMA ArriveInv == ASSUME RoomInv, Arrive PROVE RoomInv'
<1>1. /\ arrived < MaxClients /\ arrived' = arrived + 1 /\ backlog' = backlog + 1
      /\ pready' = pready \cup {LISTEN}
      /\ UNCHANGED <<users, sub_process, terminate, stop_server, done, pbatch, share_mem, sigs,
                     phase, idx, stop_child, cready, cbatch, up, down, inbox, fin, heard, said, asked, unreached>>
  BY DEF Arrive, childVars
<1>2. RoomTypeOK /\ Pipes /\ Counted  BY DEF RoomInv
<1>3. backlog \in Nat /\ arrived \in Nat /\ Cardinality(Forked) \in Nat
      /\ Cardinality(Forked) + backlog <= arrived
  <2>1. IsFiniteSet(Forked)  BY PidFacts, FS_Subset DEF Forked
  <2>2. arrived \in Nat  BY <1>2, PidFacts DEF Counted
  <2> QED  BY <2>1, <2>2, <1>2, FS_CardinalityType DEF Counted
<1>4. RoomTypeOK'  BY <1>1, <1>2, <1>3 DEF RoomTypeOK
<1>5. Pipes'  BY <1>1, <1>2 DEF Pipes
<1>6. Forked' = Forked /\ Enlisted' = Enlisted /\ NoneReaped' = NoneReaped  BY <1>1, Still
<1>7. Counted'
  <2>1. PICK m \in Nat, b \in Nat, a \in Nat :
           m = Cardinality(Forked) /\ b = backlog /\ a = arrived /\ m + b <= a
    BY <1>3
  <2>2. a < MaxClients /\ arrived' = a + 1 /\ backlog' = b + 1  BY <1>1, <2>1
  <2>3. b + 1 \in Nat /\ a + 1 \in 0..MaxClients /\ m + (b + 1) <= a + 1
    BY <2>1, <2>2, PidFacts
  <2> QED  BY <2>1, <2>2, <2>3, <1>6 DEF Counted
<1>8. Batches' /\ Announced' /\ Roster' /\ OwnNumber' /\ (NoneReaped' => Apart')
  BY <1>1, <1>6, BatchesKept, AnnouncedKept, RosterKept, OwnNumberKept, ApartKept DEF RoomInv
<1> QED  BY <1>4, <1>5, <1>7, <1>8 DEF RoomInv

LEMMA TalkInv == ASSUME RoomInv, NEW p \in Pid, Say(p) \/ RoomLeave(p) PROVE RoomInv'
<1>1. /\ UNCHANGED <<users, sub_process, terminate, stop_server, done, backlog, pready, pbatch,
                     share_mem, sigs, phase, idx, stop_child, cbatch, up, down, heard, arrived, asked, unreached>>
      /\ cready' = [cready EXCEPT ![p] = @ \cup {"conn"}]
  BY DEF Say, RoomLeave, parentVars
<1>2. RoomTypeOK /\ Pipes  BY DEF RoomInv
<1>3. said' \in Nat /\ inbox' \in [Pid -> Nat] /\ fin' \subseteq Pid
  <2>1. CASE Say(p)
    <3>1. said' = said + 1 /\ inbox' = [inbox EXCEPT ![p] = @ + 1] /\ fin' = fin
      BY <2>1 DEF Say
    <3>2. said \in Nat /\ inbox \in [Pid -> Nat] /\ fin \subseteq Pid
      BY <1>2 DEF Pipes, RoomTypeOK
    <3> QED  BY <3>1, <3>2
  <2>2. CASE RoomLeave(p)
    BY <2>2, <1>2 DEF RoomLeave, Pipes, RoomTypeOK
  <2> QED  BY <2>1, <2>2
<1>4. RoomTypeOK'  BY <1>1, <1>2, <1>3 DEF RoomTypeOK
<1>5. Pipes'  BY <1>1, <1>2, <1>3 DEF Pipes
<1>6. Forked' = Forked /\ Enlisted' = Enlisted /\ NoneReaped' = NoneReaped  BY <1>1, Still
<1>7. /\ Counted' /\ Batches' /\ Announced' /\ Roster' /\ OwnNumber'
      /\ NoneReaped' => Apart'
  BY <1>1, <1>6, CountedKept, BatchesKept, AnnouncedKept, RosterKept, OwnNumberKept, ApartKept
     DEF RoomInv
<1> QED  BY <1>4, <1>5, <1>7 DEF RoomInv

LEMMA AskStopInv == ASSUME RoomInv, AskStop PROVE RoomInv'
<1>1. /\ sigs' = sigs \cup {"TERM"} /\ pready' = pready \cup {SIGNAL}
      /\ UNCHANGED <<users, sub_process, terminate, stop_server, done, backlog, pbatch, share_mem,
                     phase, idx, stop_child, cready, cbatch, up, down, inbox, fin, heard, arrived, said, unreached>>
  BY DEF AskStop, childVars, clientVars
<1>2. RoomTypeOK /\ Pipes /\ Announced  BY DEF RoomInv
<1>3. RoomTypeOK'  BY <1>1, <1>2 DEF RoomTypeOK
<1>4. Pipes'  BY <1>1, <1>2 DEF Pipes
<1>5. Announced'  BY <1>1, <1>2 DEF Announced
<1>6. Forked' = Forked /\ Enlisted' = Enlisted /\ NoneReaped' = NoneReaped  BY <1>1, Still
<1>7. /\ Counted' /\ Batches' /\ Roster' /\ OwnNumber'
      /\ NoneReaped' => Apart'
  BY <1>1, <1>6, CountedKept, BatchesKept, RosterKept, OwnNumberKept, ApartKept DEF RoomInv
<1> QED  BY <1>3, <1>4, <1>5, <1>7 DEF RoomInv

-----------------------------------------------------------------------------

(***************************************************************************)
(* The children.                                                           *)
(***************************************************************************)
LEMMA Goes ==
    ASSUME RoomInv, NEW p \in Pid, phase[p] \notin {"new", "reaped"},
           NEW to, to \notin {"new", "reaped"}, phase' = [phase EXCEPT ![p] = to],
           UNCHANGED <<users, sub_process, backlog, arrived>>
    PROVE  Counted' /\ Roster'
BY Moved, CountedKept, RosterKept DEF RoomInv

LEMMA ChildStartInv == ASSUME RoomInv, NEW p \in Pid, ChildStart(p) PROVE RoomInv'
<1>1. /\ phase[p] = "starting" /\ phase' = [phase EXCEPT ![p] = "wait"]
      /\ UNCHANGED <<users, sub_process, terminate, stop_server, done, backlog, pready, pbatch,
                     share_mem, sigs, idx, stop_child, cready, cbatch, up, down,
                     inbox, fin, heard, arrived, said, asked, unreached>>
  BY DEF ChildStart, Goto, parentVars, clientVars
<1>2. RoomTypeOK /\ Pipes  BY DEF RoomInv
<1>3. RoomTypeOK'  BY <1>1, <1>2 DEF RoomTypeOK
<1>4. Pipes'  BY <1>1, <1>2 DEF Pipes
<1>5. /\ Forked' = Forked /\ NoneReaped' = NoneReaped /\ phase'[p] = "wait"
      /\ \A q \in Pid : q # p => phase'[q] = phase[q]
      /\ \A q \in Pid : phase'[q] = "new" <=> phase[q] = "new"
  BY <1>1, <1>2, Moved
<1>6. Counted' /\ Roster'  BY <1>1, Goes
<1>7. Batches' /\ Announced' /\ OwnNumber' /\ (NoneReaped' => Apart')
  BY <1>1, <1>5, BatchesKept, AnnouncedKept, OwnNumberKept, ApartKept DEF RoomInv
<1> QED  BY <1>3, <1>4, <1>6, <1>7 DEF RoomInv

LEMMA ChildClearInv == ASSUME RoomInv, NEW p \in Pid, ChildClear(p) PROVE RoomInv'
<1>1. /\ phase[p] = "handle" /\ phase' = [phase EXCEPT ![p] = "recv"]
      /\ Head(cbatch[p]) = "conn" /\ share_mem' = [share_mem EXCEPT ![idx[p]] = NOTEXT]
      /\ UNCHANGED <<users, sub_process, terminate, stop_server, done, backlog, pready, pbatch,
                     sigs, idx, stop_child, cready, cbatch, up, down,
                     inbox, fin, heard, arrived, said, asked, unreached>>
  BY DEF ChildClear, Goto, parentVars, clientVars
<1>2. RoomTypeOK /\ Pipes /\ Batches  BY DEF RoomInv
<1>3. RoomTypeOK'  BY <1>1, <1>2 DEF RoomTypeOK
<1>4. Pipes'  BY <1>1, <1>2 DEF Pipes
<1>5. /\ Forked' = Forked /\ NoneReaped' = NoneReaped /\ phase'[p] = "recv"
      /\ \A q \in Pid : q # p => phase'[q] = phase[q]
      /\ \A q \in Pid : phase'[q] = "new" <=> phase[q] = "new"
  BY <1>1, <1>2, Moved
<1>6. Counted' /\ Roster'  BY <1>1, Goes
<1>7. Announced' /\ OwnNumber'
  BY <1>1, <1>5, AnnouncedKept, OwnNumberKept DEF RoomInv
<1>8. Batches'
  <2> SUFFICES ASSUME NEW q \in Pid, phase'[q] \in {"handle", "recv"}
               PROVE  /\ cbatch[q] # <<>>
                      /\ \A j, k \in DOMAIN cbatch[q] : cbatch[q][j] = cbatch[q][k] => j = k
                      /\ \A k \in DOMAIN cbatch[q] : cbatch[q][k] = "pipe" => down[q] # <<>>
                      /\ phase'[q] = "recv" => Head(cbatch[q]) = "conn"
    BY <1>1 DEF Batches
  <2>1. phase[q] \in {"handle", "recv"}  BY <1>1, <1>5
  <2>2. phase'[q] = "recv" => q = p \/ phase[q] = "recv"  BY <1>5
  <2> QED  BY <2>1, <2>2, <1>1, <1>2 DEF Batches
<1>9. ASSUME NoneReaped' PROVE Apart'
  <2>1. Apart  BY <1>5, <1>9 DEF RoomInv
  <2>2. \A k \in 1..USER_LIMIT : share_mem'[k] # NOTEXT => share_mem'[k] = share_mem[k]
    BY <1>1, <1>2 DEF RoomTypeOK
  <2>3. \A k \in 1..USER_LIMIT :
           share_mem'[k] # NOTEXT => share_mem'[k] \in Forked /\ idx[share_mem'[k]] = k
    BY <2>1, <2>2 DEF Apart
  <2> QED  BY <1>1, <1>5, <2>1, <2>3 DEF Apart
<1> QED  BY <1>3, <1>4, <1>6, <1>7, <1>8, <1>9 DEF RoomInv

LEMMA ChildExitInv == ASSUME RoomInv, NEW p \in Pid, ChildExit(p) PROVE RoomInv'
<1>1. /\ phase[p] = "stopping" /\ phase' = [phase EXCEPT ![p] = "exited"]
      /\ cready' = [cready EXCEPT ![p] = {}]
      /\ inbox' = [inbox EXCEPT ![p] = 0] /\ down' = [down EXCEPT ![p] = <<>>]
      /\ sigs' = sigs \cup {"CHLD"} /\ pready' = pready \cup {p, SIGNAL}
      /\ UNCHANGED <<users, sub_process, terminate, stop_server, done, backlog, pbatch,
                     share_mem, idx, stop_child, cbatch, up, fin, heard, arrived, said, asked, unreached>>
  BY DEF ChildExit, Goto
<1>2. RoomTypeOK /\ Pipes /\ Batches /\ Announced /\ OwnNumber  BY DEF RoomInv
<1>3. RoomTypeOK'  BY <1>1, <1>2 DEF RoomTypeOK
<1>4. Pipes'
  <2>1. <<>> \in Seq(1..USER_LIMIT)  BY EmptySeq
  <2> QED  BY <2>1, <1>1, <1>2 DEF Pipes
<1>5. /\ Forked' = Forked /\ NoneReaped' = NoneReaped /\ phase'[p] = "exited"
      /\ \A q \in Pid : q # p => phase'[q] = phase[q]
      /\ \A q \in Pid : phase'[q] = "new" <=> phase[q] = "new"
  BY <1>1, <1>2, Moved
<1>6. Counted' /\ Roster'  BY <1>1, Goes
<1>7. Announced'  BY <1>1, <1>2 DEF Announced
<1>8. down'[p] = <<>> /\ \A q \in Pid : q # p => down'[q] = down[q]  BY <1>1, <1>2 DEF Pipes
<1>9. Batches'
  <2>1. \A q \in Pid : phase'[q] \in {"handle", "recv"} => q # p  BY <1>5
  <2> QED  BY <2>1, <1>1, <1>2, <1>5, <1>8, BatchesKept
<1>10. OwnNumber'  BY <1>1, <1>2, <1>5, <1>8 DEF OwnNumber
<1>11. ASSUME NoneReaped' PROVE Apart'
  <2>1. Apart  BY <1>5, <1>11 DEF RoomInv
  <2>2. \A q \in Pid : \A k \in DOMAIN down'[q] : down'[q][k] # idx[q]
    <3> SUFFICES ASSUME NEW q \in Pid, NEW k \in DOMAIN down'[q] PROVE down'[q][k] # idx[q]
      OBVIOUS
    <3>1. q # p  BY <1>8
    <3> QED  BY <3>1, <1>8, <2>1 DEF Apart
  <2> QED  BY <1>1, <1>5, <2>1, <2>2 DEF Apart
<1> QED  BY <1>3, <1>4, <1>6, <1>7, <1>9, <1>10, <1>11 DEF RoomInv

\* The events of a child that is called, one after the other.
LEMMA ChildWaitInv == ASSUME RoomInv, NEW p \in Pid, ChildWait(p) PROVE RoomInv'
<1>0. PICK E : E = {ev \in cready[p] : Incoming(p, ev)}  OBVIOUS
<1>1. /\ phase[p] = "wait" /\ cready' = [cready EXCEPT ![p] = {}]
      /\ phase' = [phase EXCEPT ![p] = IF E = {} THEN "wait" ELSE "handle"]
      /\ UNCHANGED <<users, sub_process, terminate, stop_server, done, backlog, pready, pbatch,
                     share_mem, sigs, idx, stop_child, up, down,
                     inbox, fin, heard, arrived, said, asked, unreached>>
  BY <1>0 DEF ChildWait, parentVars, clientVars
<1>2. PICK order \in Orders(E) : cbatch' = [cbatch EXCEPT ![p] = order]
  BY <1>0 DEF ChildWait
<1>3. RoomTypeOK /\ Pipes /\ Batches  BY DEF RoomInv
<1>4. E \subseteq {"conn", "pipe"}  BY <1>0, <1>3 DEF RoomTypeOK
<1>5. IsFiniteSet(E)
  <2>1. IsFiniteSet({"conn"} \cup {"pipe"})  BY FS_Singleton, FS_AddElement
  <2>2. E \subseteq {"conn"} \cup {"pipe"}  BY <1>4
  <2> QED  BY <2>1, <2>2, FS_Subset
<1>6. /\ order \in Seq(E) /\ \A x \in E : \E k \in DOMAIN order : order[k] = x
      /\ \A j, k \in DOMAIN order : order[j] = order[k] => j = k
  BY <1>2, <1>5, OrderIs
<1>7. order \in Seq({"conn", "pipe"}) /\ \A k \in DOMAIN order : order[k] \in E
  <2>1. \A k \in DOMAIN order : order[k] \in E  BY <1>6, ElementOfSeq, LenProperties
  <2>2. order \in Seq({"conn", "pipe"})  BY <1>4, <1>6, SeqMonotonic
  <2> QED  BY <2>1, <2>2
<1>8. PICK to \in {"wait", "handle"} : to = (IF E = {} THEN "wait" ELSE "handle")  OBVIOUS
<1>9. phase' = [phase EXCEPT ![p] = to] /\ (to = "handle" => E # {})  BY <1>1, <1>8
<1>10. RoomTypeOK'  BY <1>1, <1>3, <1>9 DEF RoomTypeOK
<1>11. Pipes'  BY <1>1, <1>2, <1>3, <1>7 DEF Pipes
<1>12. /\ Forked' = Forked /\ NoneReaped' = NoneReaped /\ phase'[p] = to
       /\ \A q \in Pid : q # p => phase'[q] = phase[q]
       /\ \A q \in Pid : phase'[q] = "new" <=> phase[q] = "new"
  <2>1. phase[p] \notin {"new", "reaped"} /\ to \notin {"new", "reaped"}  BY <1>1
  <2> QED  BY <2>1, <1>9, <1>3, Moved
<1>13. Counted' /\ Roster'
  <2>1. phase[p] \notin {"new", "reaped"} /\ to \notin {"new", "reaped"}  BY <1>1
  <2> QED  BY <2>1, <1>1, <1>9, Goes
<1>14. /\ Announced' /\ OwnNumber'
       /\ NoneReaped' => Apart'
  <2>1. \A q \in Pid : phase'[q] = "exited" => phase[q] = "exited"  BY <1>12
  <2> QED  BY <2>1, <1>1, <1>12, AnnouncedKept, OwnNumberKept, ApartKept DEF RoomInv
<1>15. cbatch'[p] = order /\ \A q \in Pid : q # p => cbatch'[q] = cbatch[q]
  BY <1>2, <1>3 DEF Pipes
<1>16. Batches'
  <2> SUFFICES ASSUME NEW q \in Pid, phase'[q] \in {"handle", "recv"}
               PROVE  /\ cbatch'[q] # <<>>
                      /\ \A j, k \in DOMAIN cbatch'[q] : cbatch'[q][j] = cbatch'[q][k] => j = k
                      /\ \A k \in DOMAIN cbatch'[q] : cbatch'[q][k] = "pipe" => down'[q] # <<>>
                      /\ phase'[q] = "recv" => Head(cbatch'[q]) = "conn"
    BY DEF Batches
  <2>1. CASE q # p  BY <2>1, <1>1, <1>3, <1>12, <1>15 DEF Batches
  <2>2. CASE q = p
    <3>1. E # {} /\ phase'[q] # "recv"  BY <2>2, <1>9, <1>12
    <3>2. order # <<>>  BY <3>1, <1>6
    <3>3. \A k \in DOMAIN order : order[k] = "pipe" => down[p] # <<>>
      BY <1>0, <1>7 DEF Incoming
    <3> QED  BY <2>2, <3>1, <3>2, <3>3, <1>1, <1>6, <1>15
  <2> QED  BY <2>1, <2>2
<1> QED  BY <1>10, <1>11, <1>13, <1>14, <1>16 DEF RoomInv

\* After one event of a batch.
LEMMA HandledIs ==
    ASSUME RoomInv, NEW p \in Pid, phase[p] \in {"handle", "recv"}, NEW stop, Handled(p, stop)
    PROVE  /\ \E to \in {"handle", "stopping", "wait"} : phase' = [phase EXCEPT ![p] = to]
           /\ Forked' = Forked /\ Enlisted' = Enlisted /\ NoneReaped' = NoneReaped
           /\ \A q \in Pid : q # p => phase'[q] = phase[q] /\ cbatch'[q] = cbatch[q]
           /\ \A q \in Pid : phase'[q] = "new" <=> phase[q] = "new"
           /\ phase'[p] \in {"handle", "stopping", "wait"}
           /\ phase'[p] = "handle" => cbatch'[p] # <<>>
           /\ cbatch' \in [Pid -> Seq({"conn", "pipe"})] /\ cbatch'[p] = Tail(cbatch[p])
           /\ Head(cbatch[p]) = cbatch[p][1] /\ 1 \in DOMAIN cbatch[p]
           /\ \A k \in DOMAIN cbatch'[p] :
                 k \in Nat /\ k + 1 \in DOMAIN cbatch[p] /\ k + 1 # 1
                 /\ cbatch'[p][k] = cbatch[p][k + 1]
<1>1. RoomTypeOK /\ Pipes /\ Batches  BY DEF RoomInv
<1>2. PICK s \in Seq({"conn", "pipe"}) : s = cbatch[p] /\ s # <<>>
  BY <1>1 DEF Pipes, Batches
<1>3. /\ Head(s) = s[1] /\ 1 \in DOMAIN s /\ Tail(s) \in Seq({"conn", "pipe"})
      /\ DOMAIN s = 1..Len(s) /\ Len(s) \in Nat
      /\ Len(Tail(s)) = Len(s) - 1 /\ DOMAIN Tail(s) = 1..(Len(s) - 1)
      /\ \A k \in DOMAIN Tail(s) : k + 1 \in DOMAIN s /\ Tail(s)[k] = s[k + 1]
  BY <1>2, TailIs
<1>4. PICK to \in {"handle", "stopping", "wait"} :
         to = IF Len(s) > 1 THEN "handle" ELSE IF stop THEN "stopping" ELSE "wait"
  OBVIOUS
<1>5. phase' = [phase EXCEPT ![p] = to] /\ cbatch' = [cbatch EXCEPT ![p] = Tail(s)]
  BY <1>2, <1>4 DEF Handled
<1>6. to = "handle" => Tail(s) # <<>>
  <2>1. to = "handle" => Len(s) > 1  BY <1>4
  <2>2. Len(<<>>) = 0  BY EmptySeq
  <2>3. Tail(s) = <<>> => Len(s) - 1 = 0  BY <1>3, <2>2
  <2> QED  BY <2>1, <2>3, <1>3
<1>7. /\ cbatch' \in [Pid -> Seq({"conn", "pipe"})] /\ cbatch'[p] = Tail(s)
      /\ \A q \in Pid : q # p => cbatch'[q] = cbatch[q]
  BY <1>1, <1>3, <1>5 DEF Pipes
<1>8. phase[p] \notin {"new", "reaped"} /\ to \notin {"new", "reaped"}  OBVIOUS
<1>9. /\ Forked' = Forked /\ Enlisted' = Enlisted /\ NoneReaped' = NoneReaped
      /\ phase'[p] = to /\ \A q \in Pid : q # p => phase'[q] = phase[q]
      /\ \A q \in Pid : phase'[q] = "new" <=> phase[q] = "new"
  BY <1>1, <1>5, <1>8, Moved
<1>10. \A k \in DOMAIN Tail(s) : k \in Nat /\ k + 1 # 1  BY <1>3
<1> QED  BY <1>2, <1>3, <1>5, <1>6, <1>7, <1>9, <1>10

LEMMA HandledBatches ==
    ASSUME RoomInv, NEW p \in Pid, phase[p] \in {"handle", "recv"}, NEW stop, Handled(p, stop),
           \A q \in Pid : q # p => down'[q] = down[q],
           \A k \in DOMAIN cbatch'[p] : cbatch'[p][k] = "pipe" => down'[p] # <<>>
    PROVE  Batches'
<1>1. Batches  BY DEF RoomInv
<1>2. /\ \A q \in Pid : q # p => phase'[q] = phase[q] /\ cbatch'[q] = cbatch[q]
      /\ phase'[p] \in {"handle", "stopping", "wait"}
      /\ phase'[p] = "handle" => cbatch'[p] # <<>>
      /\ \A k \in DOMAIN cbatch'[p] :
            k \in Nat /\ k + 1 \in DOMAIN cbatch[p] /\ cbatch'[p][k] = cbatch[p][k + 1]
  BY HandledIs
<1> SUFFICES ASSUME NEW q \in Pid, phase'[q] \in {"handle", "recv"}
             PROVE  /\ cbatch'[q] # <<>>
                    /\ \A j, k \in DOMAIN cbatch'[q] : cbatch'[q][j] = cbatch'[q][k] => j = k
                    /\ \A k \in DOMAIN cbatch'[q] : cbatch'[q][k] = "pipe" => down'[q] # <<>>
                    /\ phase'[q] = "recv" => Head(cbatch'[q]) = "conn"
  BY DEF Batches
<1>3. CASE q # p  BY <1>1, <1>2, <1>3 DEF Batches
<1>4. CASE q = p
  <2>1. phase'[q] # "recv" /\ cbatch'[p] # <<>>  BY <1>2, <1>4
  <2>2. ASSUME NEW j \in DOMAIN cbatch'[p], NEW k \in DOMAIN cbatch'[p],
               cbatch'[p][j] = cbatch'[p][k]
        PROVE  j = k
    <3>1. /\ j \in Nat /\ k \in Nat /\ j + 1 \in DOMAIN cbatch[p] /\ k + 1 \in DOMAIN cbatch[p]
          /\ cbatch[p][j + 1] = cbatch[p][k + 1]
      BY <2>2, <1>2
    <3>2. j + 1 = k + 1  BY <3>1, <1>1 DEF Batches
    <3> QED  BY <3>1, <3>2
  <2> QED  BY <1>4, <2>1, <2>2
<1> QED  BY <1>3, <1>4

\* A child that got a text puts it into its segment and says its number.
LEMMA ChildRecvInv == ASSUME RoomInv, NEW p \in Pid, ChildRecv(p) PROVE RoomInv'
<1>1. /\ phase[p] = "recv"
      /\ UNCHANGED <<users, sub_process, terminate, stop_server, done, backlog, pbatch,
                     sigs, idx, cready, down, fin, heard, arrived, said, asked, unreached>>
  BY DEF ChildRecv
<1>2. RoomTypeOK /\ Pipes /\ Batches /\ Announced /\ OwnNumber  BY DEF RoomInv
<1>3. PICK stop : Handled(p, stop)  BY DEF ChildRecv
<1>4. /\ \E to \in {"handle", "stopping", "wait"} : phase' = [phase EXCEPT ![p] = to]
      /\ Forked' = Forked /\ NoneReaped' = NoneReaped
      /\ \A q \in Pid : q # p => phase'[q] = phase[q]
      /\ \A q \in Pid : phase'[q] = "new" <=> phase[q] = "new"
      /\ phase'[p] \in {"handle", "stopping", "wait"}
      /\ cbatch' \in [Pid -> Seq({"conn", "pipe"})]
  BY <1>1, <1>3, HandledIs
<1>5. PICK to \in {"handle", "stopping", "wait"} : phase' = [phase EXCEPT ![p] = to]
  BY <1>4
<1>6. Counted' /\ Roster'
  <2>1. phase[p] \notin {"new", "reaped"} /\ to \notin {"new", "reaped"}  BY <1>1
  <2> QED  BY <2>1, <1>1, <1>5, Goes
<1>7. Announced'
  <2>1. pready \subseteq pready'  BY DEF ChildRecv
  <2>2. \A q \in Pid : phase'[q] = "exited" => phase[q] = "exited"  BY <1>4
  <2> QED  BY <2>1, <2>2, <1>1, <1>2, AnnouncedKept
<1>8. Batches'
  <2>1. \A k \in DOMAIN cbatch'[p] : cbatch'[p][k] = "pipe" => down'[p] # <<>>
    BY <1>1, <1>2, <1>3, HandledIs DEF Batches
  <2> QED  BY <2>1, <1>1, <1>3, HandledBatches
<1>9. CASE inbox[p] = 0
  <2>1. /\ stop_child' = [stop_child EXCEPT ![p] = @ \/ p \in fin]
        /\ UNCHANGED <<inbox, share_mem, up, pready>>
    BY <1>9 DEF ChildRecv
  <2>2. stop_child' \in [Pid -> BOOLEAN]
    <3>1. stop_child \in [Pid -> BOOLEAN]  BY <1>2 DEF RoomTypeOK
    <3>2. \A q \in Pid : stop_child'[q] \in BOOLEAN  BY <3>1, <2>1, Zenon
    <3>3. stop_child' = [q \in Pid |-> stop_child'[q]]  BY <3>1, <2>1
    <3> QED  BY <3>2, <3>3
  <2>3. RoomTypeOK'  BY <1>1, <1>2, <1>5, <2>1, <2>2 DEF RoomTypeOK
  <2>4. Pipes'  BY <1>1, <1>2, <1>4, <2>1 DEF Pipes
  <2>5. OwnNumber' /\ (NoneReaped' => Apart')
    BY <1>1, <1>4, <2>1, OwnNumberKept, ApartKept DEF RoomInv
  <2> QED  BY <2>3, <2>4, <2>5, <1>6, <1>7, <1>8 DEF RoomInv
<1>10. CASE inbox[p] # 0
  <2>1. /\ inbox' = [inbox EXCEPT ![p] = @ - 1] /\ inbox[p] > 0
        /\ share_mem' = [share_mem EXCEPT ![idx[p]] = p]
        /\ up' = [up EXCEPT ![p] = Append(@, idx[p])] /\ pready' = pready \cup {p}
        /\ UNCHANGED stop_child
    BY <1>10 DEF ChildRecv
  <2>2. inbox' \in [Pid -> Nat]
    <3>1. inbox \in [Pid -> Nat]  BY <1>2 DEF RoomTypeOK
    <3>2. inbox[p] - 1 \in Nat  BY <3>1, <2>1
    <3> QED  BY <3>1, <3>2, <2>1
  <2>3. /\ share_mem' \in [1..USER_LIMIT -> Pid \cup {NOTEXT}] /\ idx[p] \in 1..USER_LIMIT
        /\ share_mem'[idx[p]] = p
        /\ \A k \in 1..USER_LIMIT : k # idx[p] => share_mem'[k] = share_mem[k]
    BY <1>2, <2>1 DEF RoomTypeOK
  <2>4. RoomTypeOK'
    <3>1. phase' \in [Pid -> {"new", "starting", "wait", "handle", "recv", "stopping",
                              "exited", "reaped"}]
      BY <1>2, <1>5 DEF RoomTypeOK
    <3>2. pready' \subseteq Pid \cup {LISTEN, SIGNAL}  BY <1>2, <2>1 DEF RoomTypeOK
    <3> QED  BY <3>1, <3>2, <1>1, <1>2, <2>1, <2>2, <2>3 DEF RoomTypeOK
  <2>5. PICK s \in Seq(1..USER_LIMIT) : s = up[p]  BY <1>2 DEF Pipes
  <2>6. /\ Append(s, idx[p]) \in Seq(1..USER_LIMIT)
        /\ \A k \in DOMAIN Append(s, idx[p]) :
              Append(s, idx[p])[k] = idx[p] \/ (k \in DOMAIN s /\ Append(s, idx[p])[k] = s[k])
    BY <2>3, AppendIs
  <2>7. /\ up'[p] = Append(s, idx[p]) /\ \A q \in Pid : q # p => up'[q] = up[q]
        /\ up' \in [Pid -> Seq(1..USER_LIMIT)]
    BY <1>2, <2>1, <2>5, <2>6 DEF Pipes
  <2>8. Pipes'  BY <1>1, <1>2, <1>4, <2>7 DEF Pipes
  <2>9. OwnNumber'
    <3>1. \A q \in Pid : \A k \in DOMAIN up'[q] : up'[q][k] = idx[q]
      <4> SUFFICES ASSUME NEW q \in Pid, NEW k \in DOMAIN up'[q] PROVE up'[q][k] = idx[q]
        OBVIOUS
      <4>1. CASE q = p  BY <4>1, <1>2, <2>5, <2>6, <2>7 DEF OwnNumber
      <4>2. CASE q # p  BY <4>2, <1>2, <2>7 DEF OwnNumber
      <4> QED  BY <4>1, <4>2
    <3>2. \A q \in Pid : phase'[q] = "new" => q # p  BY <1>1, <1>4
    <3> QED  BY <3>1, <3>2, <1>1, <1>2, <1>4, <2>7 DEF OwnNumber
  <2>10. ASSUME NoneReaped' PROVE Apart'
    <3>1. Apart  BY <1>4, <2>10 DEF RoomInv
    <3>2. p \in Forked  BY <1>1 DEF Forked
    <3>3. \A k \in 1..USER_LIMIT :
             share_mem'[k] # NOTEXT => share_mem'[k] \in Forked /\ idx[share_mem'[k]] = k
      <4> SUFFICES ASSUME NEW k \in 1..USER_LIMIT, share_mem'[k] # NOTEXT
                   PROVE  share_mem'[k] \in Forked /\ idx[share_mem'[k]] = k
        OBVIOUS
      <4>1. CASE k = idx[p]  BY <4>1, <3>2, <2>3
      <4>2. CASE k # idx[p]  BY <4>2, <3>1, <2>3 DEF Apart
      <4> QED  BY <4>1, <4>2
    <3> QED  BY <3>1, <3>3, <1>1, <1>4 DEF Apart
  <2> QED  BY <2>4, <2>8, <2>9, <2>10, <1>6, <1>7, <1>8 DEF RoomInv
<1> QED  BY <1>9, <1>10

\* A child that is told a number sends that segment to its client.
LEMMA ChildSendInv == ASSUME RoomInv, NEW p \in Pid, ChildSend(p) PROVE RoomInv'
<1>1. /\ phase[p] = "handle" /\ Head(cbatch[p]) = "pipe" /\ Handled(p, stop_child[p])
      /\ down' = [down EXCEPT ![p] = Tail(@)]
      /\ heard' = [heard EXCEPT ![p] = @ \cup {share_mem[Head(down[p])]}]
      /\ UNCHANGED <<users, sub_process, terminate, stop_server, done, backlog, pready, pbatch,
                     share_mem, sigs, idx, stop_child, cready, up, inbox, fin, arrived, said, asked, unreached>>
  BY DEF ChildSend, parentVars
<1>2. RoomTypeOK /\ Pipes /\ Batches /\ Announced /\ OwnNumber  BY DEF RoomInv
<1>3. PICK stop : Handled(p, stop)  BY <1>1
<1>4. /\ \E to \in {"handle", "stopping", "wait"} : phase' = [phase EXCEPT ![p] = to]
      /\ Forked' = Forked /\ NoneReaped' = NoneReaped
      /\ \A q \in Pid : q # p => phase'[q] = phase[q]
      /\ \A q \in Pid : phase'[q] = "new" <=> phase[q] = "new"
      /\ phase'[p] \in {"handle", "stopping", "wait"}
      /\ cbatch' \in [Pid -> Seq({"conn", "pipe"})]
      /\ Head(cbatch[p]) = cbatch[p][1] /\ 1 \in DOMAIN cbatch[p]
      /\ \A k \in DOMAIN cbatch'[p] :
            k + 1 \in DOMAIN cbatch[p] /\ k + 1 # 1 /\ cbatch'[p][k] = cbatch[p][k + 1]
  BY <1>1, <1>3, HandledIs
<1>5. PICK to \in {"handle", "stopping", "wait"} : phase' = [phase EXCEPT ![p] = to]
  BY <1>4
<1>6. Counted' /\ Roster'
  <2>1. phase[p] \notin {"new", "reaped"} /\ to \notin {"new", "reaped"}  BY <1>1
  <2> QED  BY <2>1, <1>1, <1>5, Goes
<1>7. Announced'
  <2>1. \A q \in Pid : phase'[q] = "exited" => phase[q] = "exited"  BY <1>4
  <2> QED  BY <2>1, <1>1, <1>2, AnnouncedKept
<1>8. PICK s \in Seq(1..USER_LIMIT) : s = down[p] /\ s # <<>>
  BY <1>1, <1>2, <1>4 DEF Pipes, Batches
<1>9. /\ Head(s) = s[1] /\ 1 \in DOMAIN s /\ Tail(s) \in Seq(1..USER_LIMIT)
      /\ \A k \in DOMAIN Tail(s) : k + 1 \in DOMAIN s /\ Tail(s)[k] = s[k + 1]
  BY <1>8, TailIs
<1>10. PICK n \in 1..USER_LIMIT : n = Head(s)  BY <1>8, <1>9, ElementOfSeq, LenProperties
<1>11. /\ down'[p] = Tail(s) /\ down' \in [Pid -> Seq(1..USER_LIMIT)]
       /\ \A q \in Pid : q # p => down'[q] = down[q]
  BY <1>1, <1>2, <1>8, <1>9 DEF Pipes
<1>12. /\ heard'[p] = heard[p] \cup {share_mem[n]} /\ share_mem[n] \in Pid \cup {NOTEXT}
       /\ heard' \in [Pid -> SUBSET (Pid \cup {NOTEXT})]
       /\ \A q \in Pid : q # p => heard'[q] = heard[q]
  BY <1>1, <1>2, <1>8, <1>10 DEF RoomTypeOK
<1>13. RoomTypeOK'
  <2>1. phase' \in [Pid -> {"new", "starting", "wait", "handle", "recv", "stopping",
                            "exited", "reaped"}]
    BY <1>2, <1>5 DEF RoomTypeOK
  <2> QED  BY <2>1, <1>1, <1>2, <1>12 DEF RoomTypeOK
<1>14. Pipes'  BY <1>1, <1>2, <1>4, <1>11 DEF Pipes
<1>15. Batches'
  <2>1. \A k \in DOMAIN cbatch'[p] : cbatch'[p][k] # "pipe"  BY <1>1, <1>2, <1>4 DEF Batches
  <2> QED  BY <2>1, <1>1, <1>11, HandledBatches
<1>16. OwnNumber'
  <2>1. \A q \in Pid : phase'[q] = "new" => q # p  BY <1>1, <1>4
  <2> QED  BY <2>1, <1>1, <1>2, <1>4, <1>11 DEF OwnNumber
<1>17. ASSUME NoneReaped' PROVE Apart'
  <2>1. Apart  BY <1>4, <1>17 DEF RoomInv
  <2>2. \A q \in Pid : \A k \in DOMAIN down'[q] : down'[q][k] # idx[q]
    <3> SUFFICES ASSUME NEW q \in Pid, NEW k \in DOMAIN down'[q] PROVE down'[q][k] # idx[q]
      OBVIOUS
    <3>1. CASE q = p  BY <3>1, <1>8, <1>9, <1>11, <2>1 DEF Apart
    <3>2. CASE q # p  BY <3>2, <1>11, <2>1 DEF Apart
    <3> QED  BY <3>1, <3>2
  <2>3. n # idx[p]  BY <1>8, <1>9, <1>10, <2>1 DEF Apart
  <2>4. share_mem[n] # p
    <3>1. p # NOTEXT  BY PidFacts
    <3> QED  BY <3>1, <2>1, <2>3 DEF Apart
  <2>5. \A q \in Pid : q \notin heard'[q]  BY <1>12, <2>1, <2>4 DEF Apart
  <2> QED  BY <1>1, <1>4, <2>1, <2>2, <2>5 DEF Apart
<1> QED  BY <1>6, <1>7, <1>13, <1>14, <1>15, <1>16, <1>17 DEF RoomInv

-----------------------------------------------------------------------------

(***************************************************************************)
(* The parent.                                                             *)
(***************************************************************************)
LEMMA EpollWaitInv == ASSUME RoomInv, EpollWait PROVE RoomInv'
<1>0. PICK E : E = {ev \in pready : Readable(ev)}  OBVIOUS
<1>1. /\ pbatch = <<>> /\ pbatch' \in Orders(E) /\ pready' = {}
      /\ UNCHANGED <<users, sub_process, terminate, stop_server, done, backlog,
                     share_mem, sigs, phase, idx, stop_child, cready, cbatch, up, down,
                     inbox, fin, heard, arrived, said, asked, unreached>>
  BY <1>0 DEF EpollWait, childVars, clientVars
<1>2. RoomTypeOK /\ Pipes /\ Announced  BY DEF RoomInv
<1>3. E \subseteq Pid \cup {LISTEN, SIGNAL} /\ IsFiniteSet(E)
  <2>1. E \subseteq Pid \cup {LISTEN, SIGNAL}  BY <1>0, <1>2 DEF RoomTypeOK
  <2> QED  BY <2>1, PidFacts, FS_Subset
<1>4. PICK order \in Orders(E) : pbatch' = order  BY <1>1
<1>5. order \in Seq(E) /\ \A x \in E : \E k \in DOMAIN order : order[k] = x  BY <1>3, OrderIs
<1>6. pbatch' \in Seq(Pid \cup {LISTEN, SIGNAL})  BY <1>3, <1>4, <1>5, SeqMonotonic
<1>7. RoomTypeOK'  BY <1>1, <1>2 DEF RoomTypeOK
<1>8. Pipes'  BY <1>1, <1>2, <1>6 DEF Pipes
<1>9. Announced'
  <2>1. sigs # {} => SIGNAL \in pready
    <3>1. DOMAIN <<>> = {}  OBVIOUS
    <3> QED  BY <3>1, <1>1, <1>2 DEF Announced
  <2>2. sigs # {} => SIGNAL \in E  BY <2>1, <1>0 DEF Readable
  <2>3. sigs # {} => \E k \in DOMAIN pbatch' : pbatch'[k] = SIGNAL  BY <2>2, <1>4, <1>5
  <2> QED  BY <2>3, <1>1, <1>2 DEF Announced
<1>10. Forked' = Forked /\ Enlisted' = Enlisted /\ NoneReaped' = NoneReaped  BY <1>1, Still
<1>11. /\ Counted' /\ Batches' /\ Roster' /\ OwnNumber'
       /\ NoneReaped' => Apart'
  BY <1>1, <1>10, CountedKept, BatchesKept, RosterKept, OwnNumberKept, ApartKept DEF RoomInv
<1> QED  BY <1>7, <1>8, <1>9, <1>11 DEF RoomInv

LEMMA HandleIs ==
    ASSUME RoomInv, NEW ev, Handle(ev)
    PROVE  /\ pbatch' \in Seq(Pid \cup {LISTEN, SIGNAL})
           /\ \A k \in DOMAIN pbatch :
                 pbatch[k] # ev => \E j \in DOMAIN pbatch' : pbatch'[j] = pbatch[k]
<1>1. PICK s \in Seq(Pid \cup {LISTEN, SIGNAL}) :
         s = pbatch /\ s # <<>> /\ Head(s) = ev /\ pbatch' = Tail(s)
  BY DEF Handle, RoomInv, Pipes
<1>2. /\ Head(s) = s[1] /\ Tail(s) \in Seq(Pid \cup {LISTEN, SIGNAL})
      /\ \A k \in DOMAIN s : k # 1 => k - 1 \in DOMAIN Tail(s) /\ Tail(s)[k - 1] = s[k]
  BY <1>1, TailIs
<1> QED  BY <1>1, <1>2

LEMMA HandleAnnounced ==
    ASSUME RoomInv, NEW ev, Handle(ev), ev # SIGNAL, UNCHANGED <<sigs, pready>>,
           \A p \in Pid : phase'[p] = "exited" => phase[p] = "exited"
    PROVE  Announced'
<1>1. \A k \in DOMAIN pbatch :
         pbatch[k] # ev => \E j \in DOMAIN pbatch' : pbatch'[j] = pbatch[k]
  BY HandleIs
<1>2. Announced  BY DEF RoomInv
<1> QED  BY <1>1, <1>2 DEF Announced

LEMMA RefuseInv == ASSUME RoomInv, Refuse PROVE RoomInv'
<1>1. /\ Handle(LISTEN) /\ backlog > 0 /\ backlog' = backlog - 1
      /\ UNCHANGED <<users, sub_process, terminate, stop_server, done, pready,
                     share_mem, sigs, phase, idx, stop_child, cready, cbatch, up, down,
                     inbox, fin, heard, arrived, said, asked, unreached>>
  BY DEF Refuse, childVars, clientVars
<1>2. RoomTypeOK /\ Pipes /\ Counted  BY DEF RoomInv
<1>3. PICK b \in Nat : b = backlog /\ b > 0 /\ backlog' = b - 1 /\ b - 1 \in Nat
  BY <1>1, <1>2 DEF RoomTypeOK
<1>4. RoomTypeOK'  BY <1>1, <1>2, <1>3 DEF RoomTypeOK
<1>5. Pipes'  BY <1>1, <1>2, HandleIs DEF Pipes
<1>6. Forked' = Forked /\ Enlisted' = Enlisted /\ NoneReaped' = NoneReaped  BY <1>1, Still
<1>7. Counted'
  <2>1. IsFiniteSet(Forked)  BY PidFacts, FS_Subset DEF Forked
  <2>2. PICK m \in Nat, a \in 0..MaxClients : m = Cardinality(Forked) /\ a = arrived
    BY <2>1, <1>2, FS_CardinalityType DEF Counted
  <2>3. m + b <= a  BY <1>2, <1>3, <2>2 DEF Counted
  <2>4. m + (b - 1) <= a
    <3>1. a \in Nat  BY PidFacts
    <3> QED  BY <2>3, <3>1, <1>3
  <2> QED  BY <2>2, <2>4, <1>1, <1>3, <1>6 DEF Counted
<1>8. Announced'
  <2>1. LISTEN # SIGNAL  BY PidFacts
  <2> QED  BY <2>1, <1>1, HandleAnnounced
<1>9. /\ Batches' /\ Roster' /\ OwnNumber'
      /\ NoneReaped' => Apart'
  BY <1>1, <1>6, BatchesKept, RosterKept, OwnNumberKept, ApartKept DEF RoomInv
<1> QED  BY <1>4, <1>5, <1>7, <1>8, <1>9 DEF RoomInv

LEMMA ReturnInv == ASSUME RoomInv, Return PROVE RoomInv'
<1>1. /\ done' = TRUE
      /\ UNCHANGED <<users, sub_process, terminate, stop_server, backlog, pready, pbatch,
                     share_mem, sigs, phase, idx, stop_child, cready, cbatch, up, down,
                     inbox, fin, heard, arrived, said, asked, unreached>>
  BY DEF Return, childVars, clientVars
<1>2. RoomTypeOK /\ Pipes  BY DEF RoomInv
<1>3. RoomTypeOK'  BY <1>1, <1>2 DEF RoomTypeOK
<1>4. Pipes'  BY <1>1, <1>2 DEF Pipes
<1>5. Forked' = Forked /\ Enlisted' = Enlisted /\ NoneReaped' = NoneReaped  BY <1>1, Still
<1>6. /\ Counted' /\ Batches' /\ Announced' /\ Roster' /\ OwnNumber'
      /\ NoneReaped' => Apart'
  BY <1>1, <1>5, CountedKept, BatchesKept, AnnouncedKept, RosterKept, OwnNumberKept, ApartKept
     DEF RoomInv
<1> QED  BY <1>3, <1>4, <1>6 DEF RoomInv

\* A fork: there is a pid for the child, and a number below the limit.
LEMMA RoomAcceptInv == ASSUME RoomInv, RoomAccept PROVE RoomInv'
<1>0. PICK pid : pid = Cardinality({p \in Pid : phase[p] # "new"}) + 1  OBVIOUS
<1>1. /\ Handle(LISTEN) /\ backlog > 0 /\ backlog' = backlog - 1 /\ ~TooMany
      /\ phase[pid] = "new" /\ phase' = [phase EXCEPT ![pid] = "starting"]
      /\ users' = Append(users, pid)
      /\ sub_process' = [sub_process EXCEPT ![pid] = Len(users) + 1]
      /\ idx' = [idx EXCEPT ![pid] = Len(users) + 1]
      /\ unreached' = IF terminate THEN unreached \cup {pid} ELSE unreached
      /\ UNCHANGED <<terminate, stop_server, done, pready, share_mem, sigs, stop_child,
                     cready, cbatch, up, down, inbox, fin, heard, arrived, said, asked>>
  BY <1>0 DEF RoomAccept, Goto, user_count, clientVars
<1>2. RoomTypeOK /\ Pipes /\ Counted /\ Batches /\ Roster /\ OwnNumber  BY DEF RoomInv
<1>3. PICK b \in Nat : b = backlog /\ b > 0 /\ backlog' = b - 1 /\ b - 1 \in Nat
  BY <1>1, <1>2 DEF RoomTypeOK
<1>4. IsFiniteSet(Forked)  BY PidFacts, FS_Subset DEF Forked
<1>5. PICK m \in Nat, a \in 0..MaxClients :
         m = Cardinality(Forked) /\ a = arrived /\ m + b <= a /\ pid = m + 1
  BY <1>0, <1>2, <1>3, <1>4, FS_CardinalityType DEF Counted, Forked
<1>6. pid \in Pid
  <2>1. m + 1 <= MaxClients  BY <1>3, <1>5, PidFacts
  <2> QED  BY <2>1, <1>5 DEF Pid
<1>7. /\ phase'[pid] = "starting" /\ \A q \in Pid : q # pid => phase'[q] = phase[q]
      /\ phase' \in [Pid -> {"new", "starting", "wait", "handle", "recv", "stopping",
                             "exited", "reaped"}]
  BY <1>1, <1>2, <1>6 DEF RoomTypeOK
<1>8. /\ Forked' = Forked \cup {pid} /\ pid \notin Forked
      /\ Enlisted' = Enlisted \cup {pid} /\ pid \notin Enlisted
      /\ NoneReaped' = NoneReaped
  <2>1. Forked' = Forked \cup {pid} /\ pid \notin Forked  BY <1>1, <1>6, <1>7 DEF Forked
  <2>2. Enlisted' = Enlisted \cup {pid} /\ pid \notin Enlisted  BY <1>1, <1>6, <1>7 DEF Enlisted
  <2>3. NoneReaped' = NoneReaped  BY <1>1, <1>6, <1>7 DEF NoneReaped
  <2> QED  BY <2>1, <2>2, <2>3
<1>9. PICK n \in Nat : n = Len(users) /\ DOMAIN users = 1..n /\ users \in Seq(Pid)
  BY <1>2, LenProperties DEF RoomTypeOK
<1>10. n + 1 \in 1..USER_LIMIT /\ n + 1 \in Nat
  <2>1. ~(n >= USER_LIMIT)  BY <1>1, <1>9 DEF TooMany, user_count
  <2> QED  BY <2>1, PidFacts
<1>11. /\ users' \in Seq(Pid) /\ DOMAIN users' = 1..(n + 1) /\ users'[n + 1] = pid
       /\ \A k \in 1..n : k \in 1..(n + 1) /\ users'[k] = users[k]
       /\ \A k \in 1..(n + 1) : k \in 1..n \/ k = n + 1
  BY <1>1, <1>6, <1>9, AppendIs
<1>12. /\ idx' \in [Pid -> 1..USER_LIMIT] /\ idx'[pid] = n + 1
       /\ \A q \in Pid : q # pid => idx'[q] = idx[q]
  BY <1>1, <1>2, <1>6, <1>9, <1>10 DEF RoomTypeOK
<1>13. /\ sub_process' \in [Pid -> Nat \cup {-1}] /\ sub_process'[pid] = n + 1
       /\ \A q \in Pid : q # pid => sub_process'[q] = sub_process[q]
  BY <1>1, <1>2, <1>6, <1>9, <1>10 DEF RoomTypeOK
<1>14. RoomTypeOK'
  <2>1. /\ UNCHANGED <<terminate, stop_server, done, pready, share_mem, sigs, stop_child,
                       cready, cbatch, up, down, inbox, fin, heard, arrived, said, asked>>
        /\ backlog' \in Nat
    BY <1>1, <1>3
  <2>2. unreached' \subseteq Pid  BY <1>1, <1>2, <1>6 DEF RoomTypeOK
  <2> QED  BY <2>1, <2>2, <1>2, <1>7, <1>11, <1>12, <1>13 DEF RoomTypeOK
<1>15. Pipes'  BY <1>1, <1>2, HandleIs DEF Pipes
<1>16. Counted'
  <2>1. Cardinality(Forked') = m + 1
    <3>1. PICK F : F = Forked  OBVIOUS
    <3>2. Cardinality(F \cup {pid}) = Cardinality(F) + 1  BY <3>1, <1>4, <1>8, FS_AddElement
    <3> QED  BY <3>1, <3>2, <1>5, <1>8
  <2>2. (m + 1) + (b - 1) <= a
    <3>1. a \in Nat  BY PidFacts
    <3> QED  BY <1>5, <3>1
  <2>3. arrived' = a /\ backlog' = b - 1  BY <1>1, <1>3, <1>5
  <2> QED  BY <2>1, <2>2, <2>3, <1>3, <1>5 DEF Counted
<1>17. Batches'
  <2>1. UNCHANGED <<cbatch, down>>  BY <1>1
  <2>2. \A q \in Pid : phase'[q] \in {"handle", "recv"} => phase'[q] = phase[q]  BY <1>7
  <2> QED  BY <2>1, <2>2, <1>2, BatchesKept
<1>18. Announced'
  <2>1. LISTEN # SIGNAL  BY PidFacts
  <2>2. \A q \in Pid : phase'[q] = "exited" => phase[q] = "exited"  BY <1>7
  <2>3. UNCHANGED <<sigs, pready>>  BY <1>1
  <2> QED  BY <2>1, <2>2, <2>3, <1>1, HandleAnnounced
<1>19. \A k \in 1..n : users[k] \in Pid /\ users[k] # pid /\ sub_process[users[k]] = k
  <2> SUFFICES ASSUME NEW k \in 1..n
               PROVE  users[k] \in Pid /\ users[k] # pid /\ sub_process[users[k]] = k
    OBVIOUS
  <2>1. users[k] \in Pid  BY <1>9, ElementOfSeq
  <2>2. users[k] \in Enlisted /\ sub_process[users[k]] = k  BY <1>2, <1>9 DEF Roster, Users
  <2> QED  BY <2>1, <2>2, <1>8
<1>20. Roster'
  <2>1. Users' = Users \cup {pid}
    <3>1. Users' = {users'[k] : k \in 1..(n + 1)}  BY <1>11 DEF Users
    <3>2. Users = {users[k] : k \in 1..n}  BY <1>9 DEF Users
    <3>3. n + 1 \in 1..(n + 1)  OBVIOUS
    <3> QED  BY <3>1, <3>2, <3>3, <1>11
  <2>2. \A k \in 1..(n + 1) : sub_process'[users'[k]] = k  BY <1>11, <1>13, <1>19
  <2> QED  BY <2>1, <2>2, <1>2, <1>8, <1>11 DEF Roster
<1>21. OwnNumber'
  <2>1. UNCHANGED <<up, down>>  BY <1>1
  <2>2. up[pid] = <<>>  BY <1>1, <1>2, <1>6 DEF OwnNumber
  <2>3. \A q \in Pid : \A k \in DOMAIN up[q] : up[q][k] = idx'[q]
    <3> SUFFICES ASSUME NEW q \in Pid, NEW k \in DOMAIN up[q] PROVE up[q][k] = idx'[q]
      OBVIOUS
    <3>1. q # pid  BY <2>2
    <3> QED  BY <3>1, <1>2, <1>12 DEF OwnNumber
  <2>4. \A q \in Pid : phase'[q] = "new" => phase[q] = "new"  BY <1>7
  <2> QED  BY <2>1, <2>3, <2>4, <1>2 DEF OwnNumber
<1>22. ASSUME NoneReaped' PROVE Apart'
  <2>1. Apart  BY <1>8, <1>22 DEF RoomInv
  <2>2. UNCHANGED <<share_mem, down, heard>> /\ down[pid] = <<>>
    BY <1>1, <1>2, <1>6 DEF OwnNumber
  <2>3. \A q \in Forked : q \in Pid /\ q # pid  BY <1>8 DEF Forked
  <2>4. \A q \in Forked' : idx'[q] \in DOMAIN users' /\ users'[idx'[q]] = q
    <3> SUFFICES ASSUME NEW q \in Forked' PROVE idx'[q] \in DOMAIN users' /\ users'[idx'[q]] = q
      OBVIOUS
    <3>1. CASE q = pid
      <4>1. n + 1 \in 1..(n + 1)  OBVIOUS
      <4> QED  BY <3>1, <4>1, <1>11, <1>12
    <3>2. CASE q \in Forked
      <4>1. idx'[q] = idx[q] /\ idx[q] \in 1..n /\ users[idx[q]] = q
        BY <3>2, <2>1, <2>3, <1>9, <1>12 DEF Apart
      <4> QED  BY <4>1, <1>11
    <3> QED  BY <3>1, <3>2, <1>8
  <2>5. \A k \in 1..USER_LIMIT :
           share_mem[k] # NOTEXT => share_mem[k] \in Forked' /\ idx'[share_mem[k]] = k
    BY <2>1, <2>3, <1>8, <1>12 DEF Apart
  <2>6. \A q \in Pid : \A k \in DOMAIN down[q] : down[q][k] # idx'[q]
    <3> SUFFICES ASSUME NEW q \in Pid, NEW k \in DOMAIN down[q] PROVE down[q][k] # idx'[q]
      OBVIOUS
    <3>1. q # pid  BY <2>2
    <3> QED  BY <3>1, <2>1, <1>12 DEF Apart
  <2> QED  BY <2>1, <2>2, <2>4, <2>5, <2>6 DEF Apart
<1> QED
  BY <1>14, <1>15, <1>16, <1>17, <1>18, <1>20, <1>21, <1>22 DEF RoomInv

\* The numbers one child says go to the pipes of the others.
LEMMA RelayInv == ASSUME RoomInv, NEW p \in Pid, Relay(p) PROVE RoomInv'
<1>1. /\ Handle(p)
      /\ UNCHANGED <<users, sub_process, terminate, stop_server, done, backlog, pready,
                     share_mem, sigs, phase, idx, stop_child, cbatch,
                     inbox, fin, heard, arrived, said, asked, unreached>>
  BY DEF Relay, clientVars
<1>2. RoomTypeOK /\ Pipes /\ Counted /\ Batches /\ OwnNumber  BY DEF RoomInv
<1>3. p # SIGNAL /\ p # LISTEN  BY PidFacts
<1>4. Forked' = Forked /\ Enlisted' = Enlisted /\ NoneReaped' = NoneReaped  BY <1>1, Still
<1>5. Counted' /\ Roster'  BY <1>1, <1>4, CountedKept, RosterKept DEF RoomInv
<1>6. Announced'  BY <1>1, <1>3, HandleAnnounced
<1>7. CASE up[p] = <<>>
  <2>1. UNCHANGED <<up, down, cready>>  BY <1>7 DEF Relay
  <2>2. RoomTypeOK'  BY <1>1, <1>2, <2>1 DEF RoomTypeOK
  <2>3. Pipes'  BY <1>1, <1>2, <2>1, HandleIs DEF Pipes
  <2>4. /\ Batches' /\ OwnNumber'
        /\ NoneReaped' => Apart'
    BY <1>1, <1>4, <2>1, BatchesKept, OwnNumberKept, ApartKept DEF RoomInv
  <2> QED  BY <2>2, <2>3, <2>4, <1>5, <1>6 DEF RoomInv
<1>8. CASE up[p] # <<>>
  <2>0. PICK O : O = Others(p)  OBVIOUS
  <2>1. /\ up' = [up EXCEPT ![p] = Tail(@)]
        /\ down' = [q \in Pid |-> IF q \in O THEN Append(down[q], Head(up[p])) ELSE down[q]]
        /\ cready' = [q \in Pid |-> IF q \in O THEN cready[q] \cup {"pipe"} ELSE cready[q]]
    BY <1>8, <2>0 DEF Relay
  <2>2. \A q \in O : q \in Pid /\ q # p /\ q \in Running  BY <2>0 DEF Others, Running
  <2>3. PICK s \in Seq(1..USER_LIMIT) : s = up[p] /\ s # <<>>  BY <1>2, <1>8 DEF Pipes
  <2>4. /\ Head(s) = s[1] /\ 1 \in DOMAIN s /\ Tail(s) \in Seq(1..USER_LIMIT)
        /\ \A k \in DOMAIN Tail(s) : k + 1 \in DOMAIN s /\ Tail(s)[k] = s[k + 1]
    BY <2>3, TailIs
  <2>5. PICK n \in 1..USER_LIMIT : n = Head(s)
    BY <2>3, <2>4, ElementOfSeq, LenProperties
  <2>6. n = idx[p] /\ phase[p] # "new"  BY <1>2, <2>3, <2>4, <2>5 DEF OwnNumber
  <2>7. ASSUME NEW q \in Pid
        PROVE  /\ down'[q] \in Seq(1..USER_LIMIT)
               /\ q \notin O => down'[q] = down[q]
               /\ down[q] # <<>> => down'[q] # <<>>
               /\ \A k \in DOMAIN down'[q] :
                     \/ k \in DOMAIN down[q] /\ down'[q][k] = down[q][k]
                     \/ q \in O /\ down'[q][k] = n
    <3>1. PICK d \in Seq(1..USER_LIMIT) : d = down[q]  BY <1>2 DEF Pipes
    <3>2. CASE q \in O
      <4>1. down'[q] = Append(d, n)  BY <2>1, <2>3, <2>5, <3>1, <3>2
      <4>2. /\ Append(d, n) \in Seq(1..USER_LIMIT) /\ Append(d, n)[Len(d) + 1] = n
            /\ Len(Append(d, n)) = Len(d) + 1 /\ Len(d) \in Nat
            /\ \A k \in DOMAIN d : k \in DOMAIN Append(d, n) /\ Append(d, n)[k] = d[k]
            /\ \A k \in DOMAIN Append(d, n) : k \in DOMAIN d \/ k = Len(d) + 1
        BY AppendIs
      <4>3. Append(d, n) # <<>>
        <5>1. Len(<<>>) = 0  BY EmptySeq
        <5>2. Len(d) + 1 # 0  BY <4>2
        <5> QED  BY <5>1, <5>2, <4>2
      <4> QED  BY <3>1, <3>2, <4>1, <4>2, <4>3
    <3>3. CASE q \notin O
      <4>1. down'[q] = d  BY <2>1, <3>1, <3>3
      <4> QED  BY <3>1, <3>3, <4>1
    <3> QED  BY <3>2, <3>3
  <2>8. down' \in [Pid -> Seq(1..USER_LIMIT)]
    <3>1. down' = [q \in Pid |-> down'[q]]  BY <2>1
    <3> QED  BY <3>1, <2>7
  <2>9. /\ up' \in [Pid -> Seq(1..USER_LIMIT)] /\ up'[p] = Tail(s)
        /\ \A q \in Pid : q # p => up'[q] = up[q]
    BY <1>2, <2>1, <2>3, <2>4 DEF Pipes
  <2>10. cready' \in [Pid -> SUBSET {"conn", "pipe"}]
    BY <1>2, <2>1 DEF RoomTypeOK
  <2>11. RoomTypeOK'  BY <1>1, <1>2, <2>10 DEF RoomTypeOK
  <2>12. Pipes'
    <3>1. pbatch' \in Seq(Pid \cup {LISTEN, SIGNAL})  BY <1>1, HandleIs
    <3> QED  BY <3>1, <1>1, <1>2, <2>8, <2>9 DEF Pipes
  <2>13. Batches'
    <3>1. \A q \in Pid : phase'[q] \in {"handle", "recv"} =>
             phase'[q] = phase[q] /\ (down[q] # <<>> => down'[q] # <<>>)
      BY <1>1, <2>7
    <3> QED  BY <3>1, <1>1, <1>2, BatchesKept
  <2>14. OwnNumber'
    <3>1. \A q \in Pid : \A k \in DOMAIN up'[q] : up'[q][k] = idx[q]
      <4> SUFFICES ASSUME NEW q \in Pid, NEW k \in DOMAIN up'[q] PROVE up'[q][k] = idx[q]
        OBVIOUS
      <4>1. CASE q = p  BY <4>1, <1>2, <2>3, <2>4, <2>9 DEF OwnNumber
      <4>2. CASE q # p  BY <4>2, <1>2, <2>9 DEF OwnNumber
      <4> QED  BY <4>1, <4>2
    <3>2. \A q \in Pid : phase[q] = "new" => q # p /\ q \notin O
      BY <2>2, <2>6 DEF Running
    <3>3. \A q \in Pid : phase'[q] = "new" => up'[q] = <<>> /\ down'[q] = <<>>
      BY <3>2, <1>1, <1>2, <2>7, <2>9 DEF OwnNumber
    <3> QED  BY <3>1, <3>3, <1>1 DEF OwnNumber
  <2>15. ASSUME NoneReaped' PROVE Apart'
    <3>1. Apart  BY <1>4, <2>15 DEF RoomInv
    <3>2. \A q \in O : idx[q] # n
      <4> SUFFICES ASSUME NEW q \in O, idx[q] = n PROVE FALSE  OBVIOUS
      <4>1. p \in Forked /\ q \in Forked /\ q # p  BY <2>2, <2>6 DEF Forked, Running
      <4>2. users[idx[p]] = p /\ users[idx[q]] = q  BY <4>1, <3>1 DEF Apart
      <4> QED  BY <4>1, <4>2, <2>6
    <3>3. \A q \in Pid : \A k \in DOMAIN down'[q] : down'[q][k] # idx[q]
      <4> SUFFICES ASSUME NEW q \in Pid, NEW k \in DOMAIN down'[q] PROVE down'[q][k] # idx[q]
        OBVIOUS
      <4>1. CASE k \in DOMAIN down[q] /\ down'[q][k] = down[q][k]  BY <4>1, <3>1 DEF Apart
      <4>2. CASE q \in O /\ down'[q][k] = n  BY <4>2, <3>2
      <4> QED  BY <4>1, <4>2, <2>7
    <3> QED  BY <1>1, <1>4, <3>1, <3>3 DEF Apart
  <2> QED  BY <2>11, <2>12, <2>13, <2>14, <2>15, <1>5, <1>6 DEF RoomInv
<1> QED  BY <1>7, <1>8

\* Every child that has exited is reaped, and SIGTERM goes to those that are left.
LEMMA SignalsInv == ASSUME RoomInv, Signals PROVE RoomInv'
<1>0. PICK reaped, T : /\ reaped = IF "CHLD" \in sigs THEN Zombies ELSE {}
                       /\ T = IF "TERM" \in sigs THEN Targets(users') ELSE {}
  OBVIOUS
<1>1. /\ Handle(SIGNAL) /\ Kill(T, reaped)
      /\ up' = [p \in Pid |-> IF p \in reaped THEN <<>> ELSE up[p]]
      /\ UNCHANGED <<done, backlog, share_mem, idx, cready, cbatch, down,
                     inbox, fin, heard, arrived, said, asked>>
  BY <1>0 DEF Signals, clientVars
<1>2. \E order \in Orders(reaped) :
         users' = Reaped(order).users /\ sub_process' = Reaped(order).sub_process
  BY <1>0 DEF Signals
<1>3. terminate' \in BOOLEAN /\ stop_server' \in BOOLEAN
  BY DEF Signals
<1>4. RoomTypeOK /\ Pipes /\ Counted /\ Batches /\ Announced /\ Roster /\ OwnNumber
  BY DEF RoomInv
<1>5. /\ reaped \subseteq Pid /\ \A p \in reaped : phase[p] = "exited"
      /\ \A p \in Pid : phase[p] = "exited" => p \in reaped
  BY <1>0, <1>4 DEF Zombies, Announced
<1>6. IsFiniteSet(reaped) /\ reaped \subseteq Enlisted
  <2>1. reaped \subseteq Enlisted  BY <1>5 DEF Enlisted
  <2> QED  BY <2>1, <1>5, PidFacts, FS_Subset
<1>7. PICK order \in Orders(reaped) :
         users' = Reaped(order).users /\ sub_process' = Reaped(order).sub_process
  BY <1>2
<1>8. PICK E : E = Enlisted  OBVIOUS
<1>9. Fits(users, sub_process, E)  BY <1>4, <1>8 DEF Fits, Roster, Users, RoomTypeOK
<1>10. /\ Fits(users', sub_process', E \ reaped)
       /\ reaped = {} => users' = users /\ sub_process' = sub_process
  <2>0. PICK r : r = Reaped(order)  OBVIOUS
  <2>1. /\ Fits(r.users, r.sub_process, E \ reaped)
        /\ reaped = {} => r.users = users /\ r.sub_process = sub_process
    BY <2>0, <1>6, <1>8, <1>9, ReapedFits
  <2> QED  BY <2>0, <2>1, <1>7 DEF Fits
<1>11. /\ users' \in Seq(Pid) /\ sub_process' \in [Pid -> Nat \cup {-1}]
       /\ {users'[k] : k \in DOMAIN users'} = E \ reaped
       /\ \A k \in DOMAIN users' : sub_process'[users'[k]] = k
  BY <1>10 DEF Fits
<1>12. PICK woken \in SUBSET {p \in T : phase[p] = "wait"} :
          phase' = [p \in Pid |-> IF p \in reaped THEN "reaped"
                                  ELSE IF p \in woken THEN "stopping" ELSE phase[p]]
  BY <1>1 DEF Kill
<1>13. /\ stop_child' \in [Pid -> BOOLEAN]
       /\ pready' \subseteq pready \cup {SIGNAL}
       /\ sigs' = {} \/ (sigs' = {"TERM"} /\ SIGNAL \in pready')
  BY <1>1 DEF Kill
<1>14. \A p \in Pid : /\ p \in reaped => phase'[p] = "reaped" /\ phase[p] = "exited"
                      /\ p \notin reaped /\ p \in woken =>
                            phase'[p] = "stopping" /\ phase[p] = "wait"
                      /\ p \notin reaped /\ p \notin woken => phase'[p] = phase[p]
  BY <1>5, <1>12
<1>15. phase' \in [Pid -> {"new", "starting", "wait", "handle", "recv", "stopping",
                           "exited", "reaped"}]
  <2>1. phase \in [Pid -> {"new", "starting", "wait", "handle", "recv", "stopping",
                           "exited", "reaped"}]
    BY <1>4 DEF RoomTypeOK
  <2> QED  BY <2>1, <1>12
<1>16. Forked' = Forked /\ Enlisted' = E \ reaped
  <2>1. \A p \in Pid : phase'[p] = "new" <=> phase[p] = "new"  BY <1>14
  <2>2. \A p \in Pid : phase'[p] = "reaped" <=> phase[p] = "reaped" \/ p \in reaped  BY <1>14
  <2> QED  BY <2>1, <2>2, <1>8 DEF Forked, Enlisted
<1>17. RoomTypeOK'
  <2>1. pready' \subseteq Pid \cup {LISTEN, SIGNAL} /\ sigs' \subseteq {"CHLD", "TERM"}
    BY <1>4, <1>13 DEF RoomTypeOK
  <2>2. UNCHANGED <<done, backlog, share_mem, idx, cready, inbox, fin, heard>>  BY <1>1
  <2>3. T \subseteq Pid
    <3>1. {users'[k] : k \in DOMAIN users'} \subseteq Pid  BY <1>8, <1>11 DEF Enlisted
    <3> QED  BY <3>1, <1>0 DEF Targets
  <2>4. unreached' \subseteq unreached \cup T  BY <1>1 DEF Kill
  <2>5. unreached' \subseteq Pid  BY <2>3, <2>4, <1>4 DEF RoomTypeOK
  <2> QED  BY <2>1, <2>2, <2>5, <1>3, <1>4, <1>11, <1>13, <1>15 DEF RoomTypeOK
<1>18. Pipes'
  <2>1. <<>> \in Seq(1..USER_LIMIT)  BY EmptySeq
  <2>2. up' \in [Pid -> Seq(1..USER_LIMIT)]  BY <2>1, <1>1, <1>4 DEF Pipes
  <2>3. pbatch' \in Seq(Pid \cup {LISTEN, SIGNAL})  BY <1>1, HandleIs
  <2> QED  BY <2>2, <2>3, <1>1, <1>4 DEF Pipes
<1>19. Counted'  BY <1>1, <1>4, <1>16, CountedKept
<1>20. Batches'
  <2>1. \A p \in Pid : phase'[p] \in {"handle", "recv"} =>
           phase'[p] = phase[p] /\ (down[p] # <<>> => down'[p] # <<>>)
    BY <1>1, <1>14
  <2> QED  BY <2>1, <1>1, <1>4, BatchesKept
<1>21. Announced'
  <2>1. \A p \in Pid : phase'[p] # "exited"  BY <1>5, <1>14
  <2> QED  BY <2>1, <1>13 DEF Announced
<1>22. Roster'  BY <1>11, <1>16 DEF Roster, Users
<1>23. OwnNumber'
  <2>1. \A p \in Pid : up'[p] = IF p \in reaped THEN <<>> ELSE up[p]  BY <1>1
  <2>2. \A p \in Pid : \A k \in DOMAIN up'[p] : up'[p][k] = idx[p]
    <3>1. DOMAIN <<>> = {}  OBVIOUS
    <3> QED  BY <2>1, <3>1, <1>4 DEF OwnNumber
  <2>3. \A p \in Pid : phase'[p] = "new" => phase[p] = "new" /\ p \notin reaped  BY <1>14
  <2>4. UNCHANGED <<idx, down>>  BY <1>1
  <2> QED  BY <2>1, <2>2, <2>3, <2>4, <1>4 DEF OwnNumber
<1>24. ASSUME NoneReaped' PROVE Apart'
  <2>1. reaped = {} /\ NoneReaped
    <3>1. \A p \in Pid : phase'[p] # "reaped"  BY <1>24 DEF NoneReaped
    <3> QED  BY <3>1, <1>5, <1>14 DEF NoneReaped
  <2>2. UNCHANGED <<users, share_mem, idx, down, heard>>  BY <2>1, <1>1, <1>10
  <2> QED  BY <2>1, <2>2, <1>16, <1>24, ApartKept DEF RoomInv
<1> QED  BY <1>17, <1>18, <1>19, <1>20, <1>21, <1>22, <1>23, <1>24 DEF RoomInv

-----------------------------------------------------------------------------

(***************************************************************************)
(* The talk room.                                                          *)
(***************************************************************************)
LEMMA RoomStepInv == RoomInv /\ [RoomNext]_roomVars => RoomInv'
<1> SUFFICES ASSUME RoomInv, [RoomNext]_roomVars PROVE RoomInv'  OBVIOUS
<1>1. CASE UNCHANGED roomVars
  <2>1. UNCHANGED <<users, sub_process, terminate, stop_server, done, backlog, pready, pbatch,
                    share_mem, sigs, phase, idx, stop_child, cready, cbatch, up, down,
                    inbox, fin, heard, arrived, said, asked, unreached>>
    BY <1>1 DEF roomVars, parentVars, childVars, clientVars
  <2>2. RoomTypeOK /\ Pipes  BY DEF RoomInv
  <2>3. RoomTypeOK'  BY <2>1, <2>2 DEF RoomTypeOK
  <2>4. Pipes'  BY <2>1, <2>2 DEF Pipes
  <2>5. Forked' = Forked /\ Enlisted' = Enlisted /\ NoneReaped' = NoneReaped  BY <2>1, Still
  <2>6. /\ Counted' /\ Batches' /\ Announced' /\ Roster' /\ OwnNumber'
        /\ NoneReaped' => Apart'
    BY <2>1, <2>5, CountedKept, BatchesKept, AnnouncedKept, RosterKept, OwnNumberKept, ApartKept
       DEF RoomInv
  <2> QED  BY <2>3, <2>4, <2>6 DEF RoomInv
<1>2. CASE Parent
  BY <1>2, EpollWaitInv, RefuseInv, RoomAcceptInv, SignalsInv, RelayInv, ReturnInv DEF Parent
<1>3. ASSUME NEW p \in Pid, run_child(p) PROVE RoomInv'
  BY <1>3, ChildStartInv, ChildWaitInv, ChildClearInv, ChildRecvInv, ChildSendInv, ChildExitInv
     DEF run_child
<1>4. ASSUME NEW p \in Pid, Say(p) \/ RoomLeave(p) PROVE RoomInv'  BY <1>4, TalkInv
<1> QED  BY <1>1, <1>2, <1>3, <1>4, ArriveInv, AskStopInv DEF RoomNext

LEMMA RoomInvariant == RoomSpec => []RoomInv
BY RoomInitInv, RoomStepInv, PTL DEF RoomSpec

\* However many children leave and in whichever order they are reaped, the table
\* lists each child that is left once and each pid leads to its place; one that
\* has exited is announced by a SIGCHLD not yet handled.  Every variable has its
\* type.
THEOREM ChildrenRegistered == RoomSpec => []Registered
<1>1. RoomInv => Registered
  BY DEF RoomInv, Announced, Roster, Enlisted, Registered
<1> QED  BY <1>1, RoomInvariant, PTL

\* As long as nobody has left, no client is sent its own words.
THEOREM NobodyHearsHimself == RoomSpec => []NoEcho
<1>1. RoomInv => NoEcho  BY DEF RoomInv, NoneReaped, Apart, NoEcho
<1> QED  BY <1>1, RoomInvariant, PTL

\* The server decides to stop only with the signal that reaped its last child.
THEOREM StopsAfterTheLast == RoomSpec => StopsLast
<1> DEFINE Last == stop_server' # stop_server => \A p \in Pid : phase'[p] \in {"new", "reaped"}
<1>1. RoomInv /\ [RoomNext]_roomVars => [Last]_roomVars
  <2> SUFFICES ASSUME RoomInv, [RoomNext]_roomVars, stop_server' # stop_server
               PROVE  \A p \in Pid : phase'[p] \in {"new", "reaped"}
    OBVIOUS
  <2>1. Signals
    <3>1. CASE UNCHANGED roomVars  BY <3>1 DEF roomVars, parentVars
    <3>2. CASE Parent
      BY <3>2 DEF Parent, EpollWait, Refuse, RoomAccept, Relay, Return
    <3>3. ASSUME NEW p \in Pid, run_child(p) PROVE FALSE
      BY <3>3 DEF run_child, ChildStart, ChildWait, ChildClear, ChildRecv, ChildSend, ChildExit,
                  parentVars
    <3>4. ASSUME NEW p \in Pid, Say(p) \/ RoomLeave(p) PROVE FALSE
      BY <3>4 DEF Say, RoomLeave, parentVars
    <3>5. CASE Arrive \/ AskStop  BY <3>5 DEF Arrive, AskStop
    <3> QED  BY <3>1, <3>2, <3>3, <3>4, <3>5 DEF RoomNext
  <2>2. Len(users') = 0
    <3>1. stop_server' = (stop_server \/ Stops(Len(users')))  BY <2>1 DEF Signals
    <3>2. stop_server \in BOOLEAN  BY DEF RoomInv, RoomTypeOK
    <3>3. Stops(Len(users'))  BY <3>1, <3>2, Zenon
    <3> QED  BY <3>3 DEF Stops
  <2>3. RoomInv'  BY RoomStepInv
  <2>4. Users' = {}
    <3>1. users' \in Seq(Pid)  BY <2>3 DEF RoomInv, RoomTypeOK
    <3>2. DOMAIN users' = {}
      <4>1. DOMAIN users' = 1..0  BY <2>2, <3>1, LenProperties
      <4> QED  BY <4>1
    <3> QED  BY <3>2 DEF Users
  <2>5. Enlisted' = {}  BY <2>3, <2>4 DEF RoomInv, Roster
  <2> QED  BY <2>5 DEF Enlisted
<1>2. RoomSpec => [][Last]_roomVars
  <2> HIDE DEF Last
  <2> QED  BY <1>1, RoomInvariant, PTL DEF RoomSpec
<1> QED  BY <1>2 DEF StopsLast

=============================================================================
