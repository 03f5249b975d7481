----------------------------- MODULE BoundaryProofs ----------------------------
(***************************************************************************)
(* Proofs about the boundary with MsQuic: what is lent across it           *)
(* (Lending), and who waits for whom there (Locks).                        *)
(*                                                                         *)
(* Lending, for any buffers and any payloads: the datagrams and the        *)
(* secrets do not meet.  DatagramsOwnedOnce is inductive with the types of *)
(* the datagrams alone, and the secrets need to be followed from the       *)
(* moment a file is accepted until they are logged.                        *)
(*                                                                         *)
(* Locks, for any number of threads: every program takes its locks in the  *)
(* order of Rank and waits for a worker only while it holds nothing, so    *)
(* that whoever is waited for waits in turn for a lock of higher rank.     *)
(***************************************************************************)
EXTENDS Lending, Locks, SequenceTheorems, TLAPS

DgramType ==
  /\ pool \subseteq Buffers /\ lent \subseteq Buffers
  /\ content \in [Buffers -> Seq(Payloads)]
  /\ asked \in [Buffers -> Payloads]

DgramInv == DgramType /\ DatagramsOwnedOnce

LEMMA InitDgram == Init => DgramInv
  BY DEF Init, DgramInv, DgramType, DatagramsOwnedOnce

LEMMA StepDgram == DgramInv /\ [Next]_vars => DgramInv'
<1> SUFFICES ASSUME DgramInv, [Next]_vars PROVE DgramInv'
  OBVIOUS
<1> USE DEF DgramInv
<1>1. ASSUME NEW p \in Payloads, SendDatagram(p) PROVE DgramInv'
  <2>1. PICK b \in IF pool # {} THEN pool ELSE Buffers \ lent :
          \/ /\ content' = [content EXCEPT ![b] = Append(@, p)]
             /\ pool' = pool \ {b} /\ lent' = lent \cup {b}
             /\ asked' = [asked EXCEPT ![b] = p]
          \/ Refused(b, p)
    BY <1>1 DEF SendDatagram
  <2>2. b \in Buffers /\ b \notin lent /\ content[b] = << >>
    BY DEF DgramType, DatagramsOwnedOnce
  <2>3. CASE Refused(b, p)
    BY <2>2, <2>3 DEF Refused, Reset, DgramType, DatagramsOwnedOnce
  <2>4. CASE /\ content' = [content EXCEPT ![b] = Append(@, p)]
             /\ pool' = pool \ {b} /\ lent' = lent \cup {b}
             /\ asked' = [asked EXCEPT ![b] = p]
    <3>1. content' = [content EXCEPT ![b] = <<p>>]
      <4>1. Append(content[b], p) = <<p>>
        BY <2>2
      <4> QED BY <4>1, <2>4
    <3>2. DgramType'
      <4>1. <<p>> \in Seq(Payloads)
        OBVIOUS
      <4> QED BY <2>2, <2>4, <3>1, <4>1 DEF DgramType
    <3>3. lent' \cap pool' = {}
      BY <2>2, <2>4 DEF DatagramsOwnedOnce
    <3>4. \A c \in lent' : content'[c] = <<asked'[c]>>
      BY <2>2, <2>4, <3>1 DEF DatagramsOwnedOnce, DgramType
    <3>5. \A c \in Buffers \ lent' : content'[c] = << >>
      BY <2>2, <2>4, <3>1 DEF DatagramsOwnedOnce, DgramType
    <3> QED BY <3>2, <3>3, <3>4, <3>5 DEF DatagramsOwnedOnce
  <2> QED BY <2>1, <2>3, <2>4
<1>2. ASSUME NEW b \in Buffers, NEW s \in {"Sent", "Canceled", "Lost", "Acknowledged"},
             HandleSendState(b, s)
      PROVE DgramInv'
  <2>1. CASE s \in {"Sent", "Canceled"}
    <3>1. /\ b \in lent /\ lent' = lent \ {b} /\ pool' = pool \cup {b}
          /\ content' = [content EXCEPT ![b] = << >>] /\ asked' = asked
      BY <1>2, <2>1 DEF HandleSendState, MayReport, Settle, Reset
    <3> QED BY <3>1 DEF DgramType, DatagramsOwnedOnce
  <2>2. CASE s \in {"Lost", "Acknowledged"}
    <3>1. UNCHANGED <<lent, pool, content, asked>>
      BY <1>2, <2>2 DEF HandleSendState, Settle
    <3> QED BY <3>1 DEF DgramType, DatagramsOwnedOnce
  <2> QED BY <2>1, <2>2
<1>3. ASSUME Close PROVE DgramInv'
  BY <1>3 DEF Close, DgramType, DatagramsOwnedOnce
<1>4. ASSUME UNCHANGED dgramVars PROVE DgramInv'
  BY <1>4 DEF dgramVars, DgramType, DatagramsOwnedOnce
<1> QED
  BY <1>1, <1>2, <1>3, <1>4
  DEF Next, HandleNewConnection, SetKeyLogFile, Start, DeriveSecrets, HandleConnected,
      BeginClose, vars

\* connection.rs:1031-1057 and 1437-1457: whatever is sent, refused, cancelled
\* or reported on late, a datagram's buffer is MsQuic's or the pool's, and MsQuic
\* reads from it the payload it was lent for.
THEOREM DatagramsOwned == Spec => []DatagramsOwnedOnce
  BY InitDgram, StepDgram, PTL DEF Spec, DgramInv

--------------------------------------------------------------------------------

FlagType ==
  /\ native \in {"open", "offered", "refused", "handshake", "connected", "closing", "closed"}
  /\ listenerFile \in BOOLEAN /\ file \in BOOLEAN /\ block \in BOOLEAN
  /\ filled \in BOOLEAN /\ pointed \in BOOLEAN /\ derived \in BOOLEAN
  /\ promised \in BOOLEAN /\ stranded \in BOOLEAN /\ logged \in BOOLEAN

\* Until the handshake is over the file is there wherever MsQuic has the block.
PointedHasFile == pointed /\ native \in {"open", "handshake"} => block /\ file

\* A block that MsQuic was not given is one whose set_param failed.
BlockIsPointed == block /\ ~ stranded /\ Live => pointed

\* What was promised is under way until it is logged.
PromiseKept ==
  promised /\ ~ stranded /\ native \in {"open", "handshake"} =>
    block /\ file /\ pointed /\ (derived => filled)

DerivedInTime ==
  /\ native \in {"open", "offered"} => ~ derived
  /\ native = "connected" => derived

SecretsInv ==
  /\ FlagType
  /\ SecretsOutliveMsQuic /\ KeysAreLogged
  /\ PointedHasFile /\ BlockIsPointed /\ PromiseKept /\ DerivedInTime

LEMMA InitSecrets == Init => SecretsInv
  BY DEF Init, SecretsInv, FlagType, SecretsOutliveMsQuic, KeysAreLogged,
         PointedHasFile, BlockIsPointed, PromiseKept, DerivedInTime

LEMMA StepSecrets == SecretsInv /\ [Next]_vars => SecretsInv'
<1> SUFFICES ASSUME SecretsInv, [Next]_vars PROVE SecretsInv'
  OBVIOUS
<1> USE DEF SecretsInv, FlagType, SecretsOutliveMsQuic, KeysAreLogged, PointedHasFile,
            BlockIsPointed, PromiseKept, DerivedInTime, Live
<1>1. ASSUME NEW clone \in BOOLEAN, NEW param \in BOOLEAN, NEW configure \in BOOLEAN,
             HandleNewConnection(clone, param, configure)
      PROVE SecretsInv'
  BY <1>1 DEF HandleNewConnection
<1>2. ASSUME NEW param \in BOOLEAN, SetKeyLogFile(param) PROVE SecretsInv'
  <2>1. /\ Live /\ ~ file
        /\ UNCHANGED <<native, listenerFile, filled, derived, logged>>
        /\ promised' = (promised \/ (file' /\ ~ derived))
    BY <1>2 DEF SetKeyLogFile
  <2>2. CASE block = FALSE /\ param = TRUE
    <3>1. block' = TRUE /\ pointed' = TRUE /\ file' = TRUE /\ stranded' = stranded
      BY <1>2, <2>2 DEF SetKeyLogFile
    <3> QED BY <2>1, <2>2, <3>1
  <2>3. CASE block = FALSE /\ param = FALSE
    <3>1. block' = TRUE /\ pointed' = FALSE /\ file' = FALSE /\ stranded' = TRUE
      BY <1>2, <2>3 DEF SetKeyLogFile
    <3> QED BY <2>1, <2>3, <3>1
  <2>4. CASE block = TRUE
    <3>1. file' = TRUE /\ UNCHANGED <<block, pointed, stranded>>
      BY <1>2, <2>4 DEF SetKeyLogFile
    <3> QED BY <2>1, <2>4, <3>1
  <2> QED BY <2>2, <2>3, <2>4
<1>3. ASSUME Start PROVE SecretsInv'
  BY <1>3 DEF Start, tlsVars
<1>4. ASSUME DeriveSecrets PROVE SecretsInv'
  BY <1>4 DEF DeriveSecrets
<1>5. ASSUME HandleConnected PROVE SecretsInv'
  BY <1>5 DEF HandleConnected
<1>6. ASSUME BeginClose PROVE SecretsInv'
  BY <1>6 DEF BeginClose, tlsVars
<1>7. ASSUME Close PROVE SecretsInv'
  BY <1>7 DEF Close
<1>8. ASSUME UNCHANGED <<native, tlsVars>> PROVE SecretsInv'
  BY <1>8 DEF tlsVars
<1> QED
  BY <1>1, <1>2, <1>3, <1>4, <1>5, <1>6, <1>7, <1>8
  DEF Next, SendDatagram, HandleSendState, vars

\* connection.rs:942, listener.rs:237: the block of secrets lives as long as
\* MsQuic points at it, on every path but that of a refused connection.
THEOREM SecretsOutlive == Spec => []SecretsOutliveMsQuic
  BY InitSecrets, StepSecrets, PTL DEF Spec, SecretsInv

\* connection.rs:921-954 and 1127-1195: an accepted key log file has its secrets
\* when the connection is up, unless an earlier set_param failed.
THEOREM KeysLogged == Spec => []KeysAreLogged
  BY InitSecrets, StepSecrets, PTL DEF Spec, SecretsInv

--------------------------------------------------------------------------------
(* Locks: programs *)

\* The order in which locks are taken.
Rank == [l \in LockNames |->
           IF l = "handler" THEN 1 ELSE IF l \in {"connection", "listener"} THEN 2 ELSE 3]

Steps == [do : {"lock", "unlock"}, what : LockNames] \cup [do : {"call"}, what : Workers]

\* One step of a program that takes no lock below low and waits only for the
\* workers of own, or of free when it holds nothing: what it holds goes from h
\* to g.
Does(s, h, g, low, own, free) ==
  \/ /\ s.do = "lock" /\ s.what \in LockNames
     /\ Rank[s.what] >= low /\ \A l \in h : Rank[l] < Rank[s.what]
     /\ g = h \cup {s.what}
  \/ s.do = "unlock" /\ s.what \in h /\ g = h \ {s.what}
  \/ s.do = "call" /\ (s.what \in own \/ (s.what \in free /\ h = {})) /\ g = h

\* held[i] is what is held before step i, and nothing is held in the end.
Follows(p, held, low, own, free) ==
  /\ held \in [1 .. Len(p) + 1 -> SUBSET LockNames]
  /\ held[Len(p) + 1] = {}
  /\ \A i \in 1 .. Len(p) : Does(p[i], held[i], held[i + 1], low, own, free)
  /\ \A i \in 1 .. Len(p) + 1 : \A l \in held[i] : Rank[l] >= low

Orderly(p, low, own, free) ==
  /\ p \in Seq(Steps)
  /\ \E held : Follows(p, held, low, own, free) /\ held[1] = {}

LEMMA EmptyOrderly ==
  ASSUME NEW low \in Nat, NEW own, NEW free
  PROVE  Orderly(<< >>, low, own, free)
<1> DEFINE held == [i \in 1..1 |-> {}]
<1>1. Follows(<< >>, held, low, own, free) /\ held[1] = {}
  BY DEF Follows
<1> HIDE DEF held
<1> QED BY <1>1 DEF Orderly

LEMMA CallOrderly ==
  ASSUME NEW w \in Workers, NEW low \in Nat, NEW own, NEW free, w \in own \cup free
  PROVE  Orderly(CallTo(w), low, own, free)
<1> DEFINE held == [i \in 1..2 |-> {}]
           s == [do |-> "call", what |-> w]
<1>1. CallTo(w) = <<s>> /\ s \in Steps
  BY DEF CallTo, Steps
<1>2. Follows(<<s>>, held, low, own, free) /\ held[1] = {}
  BY DEF Follows, Does
<1> HIDE DEF held, s
<1> QED BY <1>1, <1>2 DEF Orderly

\* An operation that holds nothing between two of its parts.
LEMMA SequenceOrderly ==
  ASSUME NEW low \in Nat, NEW own, NEW free, NEW p, NEW q,
         Orderly(p, low, own, free), Orderly(q, low, own, free)
  PROVE  Orderly(p \o q, low, own, free)
<1>1. PICK f : Follows(p, f, low, own, free) /\ f[1] = {}
  BY DEF Orderly
<1>2. PICK g : Follows(q, g, low, own, free) /\ g[1] = {}
  BY DEF Orderly
<1>3. /\ p \in Seq(Steps) /\ q \in Seq(Steps)
      /\ p \o q \in Seq(Steps)
      /\ Len(p \o q) = Len(p) + Len(q) /\ Len(p) \in Nat /\ Len(q) \in Nat
      /\ \A i \in 1 .. Len(p) : (p \o q)[i] = p[i]
      /\ \A i \in Len(p) + 1 .. Len(p) + Len(q) : (p \o q)[i] = q[i - Len(p)]
  BY DEF Orderly
<1> DEFINE held == [i \in 1 .. Len(p) + Len(q) + 1 |->
                      IF i <= Len(p) THEN f[i] ELSE g[i - Len(p)]]
<1>4. /\ \A i \in 1 .. Len(p) + 1 : held[i] = f[i]
      /\ \A i \in Len(p) + 1 .. Len(p) + Len(q) + 1 : held[i] = g[i - Len(p)]
      /\ held \in [1 .. Len(p) + Len(q) + 1 -> SUBSET LockNames]
  <2>1. /\ f \in [1 .. Len(p) + 1 -> SUBSET LockNames] /\ f[Len(p) + 1] = {}
        /\ g \in [1 .. Len(q) + 1 -> SUBSET LockNames] /\ g[1] = {}
    BY <1>1, <1>2 DEF Follows
  <2>2. ASSUME NEW i \in 1 .. Len(p) + 1 PROVE held[i] = f[i]
    <3>1. CASE i <= Len(p)
      BY <1>3, <3>1
    <3>2. CASE i = Len(p) + 1
      <4>1. i \in 1 .. Len(p) + Len(q) + 1 /\ ~ (i <= Len(p)) /\ i - Len(p) = 1
        BY <1>3, <3>2
      <4> QED BY <2>1, <3>2, <4>1
    <3> QED BY <1>3, <3>1, <3>2
  <2>3. \A i \in Len(p) + 1 .. Len(p) + Len(q) + 1 : held[i] = g[i - Len(p)]
    BY <1>3, <2>1
  <2>4. \A i \in 1 .. Len(p) + Len(q) + 1 :
          IF i <= Len(p) THEN i \in 1 .. Len(p) + 1 ELSE i - Len(p) \in 1 .. Len(q) + 1
    BY <1>3
  <2> QED BY <2>1, <2>2, <2>3, <2>4
<1> HIDE DEF held
<1>5. held \in [1 .. Len(p \o q) + 1 -> SUBSET LockNames]
      /\ held[Len(p \o q) + 1] = {} /\ held[1] = {}
  BY <1>1, <1>2, <1>3, <1>4 DEF Follows
<1>6. ASSUME NEW i \in 1 .. Len(p \o q)
      PROVE  Does((p \o q)[i], held[i], held[i + 1], low, own, free)
  <2>1. CASE i <= Len(p)
    <3>1. i \in 1 .. Len(p) /\ i + 1 \in 1 .. Len(p) + 1
      BY <1>3, <2>1
    <3>2. (p \o q)[i] = p[i] /\ held[i] = f[i] /\ held[i + 1] = f[i + 1]
      BY <1>3, <1>4, <3>1
    <3> QED BY <1>1, <3>1, <3>2 DEF Follows
  <2>2. CASE ~ (i <= Len(p))
    <3>1. /\ i \in Len(p) + 1 .. Len(p) + Len(q)
          /\ i - Len(p) \in 1 .. Len(q)
          /\ i + 1 \in Len(p) + 1 .. Len(p) + Len(q) + 1
          /\ (i + 1) - Len(p) = (i - Len(p)) + 1
      BY <1>3, <2>2
    <3>2. /\ (p \o q)[i] = q[i - Len(p)]
          /\ held[i] = g[i - Len(p)] /\ held[i + 1] = g[(i - Len(p)) + 1]
      BY <1>3, <1>4, <3>1
    <3> QED BY <1>2, <3>1, <3>2 DEF Follows
  <2> QED BY <2>1, <2>2
<1>7. \A i \in 1 .. Len(p \o q) + 1 : \A l \in held[i] : Rank[l] >= low
  <2> TAKE i \in 1 .. Len(p \o q) + 1
  <2>1. CASE i <= Len(p)
    BY <1>1, <1>3, <1>4, <2>1 DEF Follows
  <2>2. CASE ~ (i <= Len(p))
    <3>1. /\ i \in Len(p) + 1 .. Len(p) + Len(q) + 1
          /\ i - Len(p) \in 1 .. Len(q) + 1
      BY <1>3, <2>2
    <3> QED BY <1>2, <1>4, <3>1 DEF Follows
  <2> QED BY <2>1, <2>2
<1>8. Follows(p \o q, held, low, own, free)
  BY <1>5, <1>6, <1>7 DEF Follows
<1> QED BY <1>3, <1>5, <1>8 DEF Orderly

\* Under a lock the same steps follow each other, provided that they take higher
\* locks and wait only for the workers of own.
LEMMA UnderOrderly ==
  ASSUME NEW l \in LockNames, NEW low \in Nat, NEW own, NEW free, NEW body,
         low <= Rank[l], Orderly(body, Rank[l] + 1, own, {})
  PROVE  Orderly(Under(l, body), low, own, free)
<1>1. PICK f : Follows(body, f, Rank[l] + 1, own, {}) /\ f[1] = {}
  BY DEF Orderly
<1> DEFINE n == Len(body)
           u == Under(l, body)
           held == [i \in 1 .. n + 3 |-> IF i \in 2 .. n + 2 THEN f[i - 1] \cup {l} ELSE {}]
<1>2. /\ body \in Seq(Steps) /\ n \in Nat
      /\ Rank[l] \in Nat
      /\ Lock(l) \in Steps /\ Unlock(l) \in Steps
  BY DEF Orderly, Steps, Lock, Unlock, Rank
<1>3. /\ u \in Seq(Steps) /\ Len(u) = n + 2
      /\ u[1] = Lock(l) /\ u[n + 2] = Unlock(l)
      /\ \A i \in 2 .. n + 1 : u[i] = body[i - 1]
  BY <1>2 DEF Under
<1>4. /\ \A i \in 1 .. n + 1 : f[i] \subseteq LockNames
      /\ f[n + 1] = {}
      /\ \A i \in 1 .. n + 1 : \A k \in f[i] : Rank[k] >= Rank[l] + 1
      /\ \A i \in 1 .. n : Does(body[i], f[i], f[i + 1], Rank[l] + 1, own, {})
  BY <1>1 DEF Follows
<1>5. /\ \A i \in 2 .. n + 2 : i - 1 \in 1 .. n + 1 /\ held[i] = f[i - 1] \cup {l}
      /\ held[1] = {} /\ held[n + 3] = {}
      /\ held[2] = {l} /\ held[n + 2] = {l}
      /\ held \in [1 .. n + 3 -> SUBSET LockNames]
  BY <1>1, <1>2, <1>4
<1> HIDE DEF held, u
<1>6. ASSUME NEW i \in 1 .. n + 2
      PROVE  Does(u[i], held[i], held[i + 1], low, own, free)
  <2>1. CASE i = 1
    BY <1>2, <1>3, <1>5, <2>1 DEF Does, Lock
  <2>2. CASE i = n + 2
    BY <1>2, <1>3, <1>5, <2>2 DEF Does, Unlock
  <2>3. CASE i \in 2 .. n + 1
    <3>1. i - 1 \in 1 .. n /\ i + 1 \in 2 .. n + 2 /\ (i + 1) - 1 = (i - 1) + 1
      BY <1>2, <2>3
    <3> DEFINE s == body[i - 1]
               h == f[i - 1]
               g == f[(i - 1) + 1]
    <3>2. u[i] = s /\ held[i] = h \cup {l} /\ held[i + 1] = g \cup {l}
      BY <1>3, <1>5, <2>3, <3>1
    <3>3. Does(s, h, g, Rank[l] + 1, own, {})
      BY <1>4, <3>1
    <3>4. \A k \in h : Rank[k] >= Rank[l] + 1
      BY <1>2, <1>4, <3>1
    <3>5. \A k \in LockNames : Rank[k] \in Nat
      BY DEF Rank
    <3>6. l \notin h
      BY <1>2, <3>4
    <3> HIDE DEF s, h, g
    <3>7. Does(s, h \cup {l}, g \cup {l}, low, own, free)
      BY <1>2, <3>3, <3>4, <3>5, <3>6 DEF Does
    <3> QED BY <3>2, <3>7
  <2> QED BY <1>2, <2>1, <2>2, <2>3
<1>7. ASSUME NEW i \in 1 .. n + 3, NEW k \in held[i]
      PROVE  Rank[k] >= low
  <2>1. \A j \in LockNames : Rank[j] \in Nat
    BY DEF Rank
  <2>2. i \in 2 .. n + 2
    BY <1>2, <1>5, <1>7
  <2>3. k = l \/ k \in f[i - 1]
    BY <1>5, <1>7, <2>2
  <2>4. k \in f[i - 1] => Rank[k] >= Rank[l] + 1 /\ k \in LockNames
    BY <1>4, <1>5, <2>2
  <2> QED BY <1>2, <2>1, <2>3, <2>4
<1>8. Follows(u, held, low, own, free)
  BY <1>2, <1>3, <1>5, <1>6, <1>7 DEF Follows
<1>9. Orderly(u, low, own, free)
  BY <1>3, <1>5, <1>8 DEF Orderly
<1> QED BY <1>9 DEF u

LEMMA BriefOrderly ==
  ASSUME NEW l \in LockNames, NEW low \in Nat, NEW own, NEW free, low <= Rank[l]
  PROVE  Orderly(Brief(l), low, own, free)
  BY EmptyOrderly, UnderOrderly DEF Brief, Rank

\* What a thread that runs the program called n may wait for while it holds a
\* lock, and what it may wait for when it holds nothing.
OwnOf(t, n) == IF t \in Tasks /\ n = "setKeyLogFile" THEN Workers ELSE {t}
FreeOf(t) == IF t \in Workers THEN {} ELSE Workers

ProgramsOf(t) == IF t \in Workers THEN WorkerPrograms(t) ELSE AppPrograms

LEMMA OpenOrderly ==
  ASSUME NEW p \in OpenOutboundStream, NEW low \in {1, 2}, NEW own, NEW free
  PROVE  Orderly(p, low, own, free)
<1>1. /\ Orderly(Brief("stream"), 3, own, {})
      /\ Orderly(Brief("rundown"), 3, own, {})
  BY BriefOrderly DEF LockNames, Rank
<1> QED BY <1>1, UnderOrderly DEF OpenOutboundStream, LockNames, Rank

LEMMA ProgramsOrderly ==
  ASSUME NEW t \in Threads, NEW p \in ProgramsOf(t)
  PROVE  Orderly(p[2], 1, OwnOf(t, p[1]), FreeOf(t))
<1> DEFINE own == OwnOf(t, p[1])
           free == FreeOf(t)
<1>1. \A l \in LockNames : Orderly(Brief(l), 1, own, free)
  BY BriefOrderly DEF Rank
<1>2. \A w \in own \cup free : w \in Workers => Orderly(CallTo(w), 1, own, free)
  BY CallOrderly
<1>3. \A q \in OpenOutboundStream : Orderly(q, 1, own, free)
  BY OpenOrderly
<1>4. \A q, r : Orderly(q, 1, own, free) /\ Orderly(r, 1, own, free)
                  => Orderly(q \o r, 1, own, free)
  BY SequenceOrderly
<1>5. ASSUME t \notin Workers PROVE Orderly(p[2], 1, own, free)
  <2>1. free = Workers /\ t \in Tasks
    BY <1>5 DEF FreeOf, Threads
  <2>2. p \in AppPrograms
    BY <1>5 DEF ProgramsOf
  <2>3. /\ Orderly(Call, 1, own, free) /\ Orderly(CallTo(ListenerWorker), 1, own, free)
    BY <1>2, <2>1 DEF Call, Workers
  <2>4. \A l \in {"connection", "handler", "stream", "id", "listener", "rundown"} :
          Orderly(Brief(l), 1, own, free)
    BY <1>1 DEF LockNames
  <2>5. /\ Orderly(ConnPoll, 1, own, free) /\ Orderly(SetParam, 1, own, free)
        /\ Orderly(SetCallback, 1, own, free) /\ Orderly(StreamPoll, 1, own, free)
        /\ Orderly(ListenerPoll, 1, own, free) /\ Orderly(WaitIdle, 1, own, free)
    BY <2>3, <2>4 DEF ConnPoll, SetParam, SetCallback, StreamPoll, ListenerPoll, WaitIdle
  <2>6. Orderly(DropStream, 1, own, free)
    BY <1>4, <2>3, <2>4 DEF DropStream
  <2>7. Orderly(DropConnection, 1, own, free)
    BY <1>4, <2>3, <2>4, <2>6 DEF DropConnection
  <2>8. /\ Orderly(PollRead, 1, own, free) /\ Orderly(StreamId, 1, own, free)
        /\ Orderly(ListenerStop, 1, own, free)
    BY <1>4, <2>3, <2>4 DEF PollRead, StreamId, ListenerStop
  <2>9. p[1] = "setKeyLogFile" => Orderly(SetSslKeyLog, 1, own, free)
    <3> SUFFICES ASSUME p[1] = "setKeyLogFile" PROVE Orderly(SetSslKeyLog, 1, own, free)
      OBVIOUS
    <3>1. own = Workers
      BY <2>1 DEF OwnOf
    <3>2. Orderly(Call, 3, own, {})
      BY <3>1, CallOrderly DEF Call, Workers
    <3> QED BY <3>2, UnderOrderly DEF SetSslKeyLog, LockNames, Rank
  <2> HIDE DEF own, free
  <2> QED BY <1>3, <2>2, <2>5, <2>6, <2>7, <2>8, <2>9 DEF AppPrograms
<1>6. ASSUME t \in Workers PROVE Orderly(p[2], 1, own, free)
  <2>1. own = {t} /\ free = {}
    BY <1>6, LocksAssumption DEF OwnOf, FreeOf
  <2>2. p \in WorkerPrograms(t)
    BY <1>6 DEF ProgramsOf
  <2>3. \A l \in {"connection", "handler", "stream", "id", "listener", "rundown"} :
          Orderly(Brief(l), 1, own, free)
    BY <1>1 DEF LockNames
  <2>4. ASSUME t = ConnWorker PROVE Orderly(p[2], 1, own, free)
    <3>1. \A low \in {1, 2, 3} : Orderly(Call, low, own, {})
      BY <2>1, <2>4, CallOrderly DEF Call, Workers
    <3>2. ASSUME NEW q \in HandlerMay PROVE Orderly(q, 2, own, {})
      <4>1. Orderly(<< >>, 2, own, {})
        BY EmptyOrderly
      <4>2. Orderly(ConnPoll, 2, own, {})
        BY BriefOrderly DEF ConnPoll, LockNames, Rank
      <4>3. Orderly(SetParam, 2, own, {})
        BY <3>1 DEF SetParam
      <4>4. Orderly(SetSslKeyLog, 2, own, {})
        BY <3>1, UnderOrderly DEF SetSslKeyLog, LockNames, Rank
      <4> QED BY <3>2, <4>1, <4>2, <4>3, <4>4, OpenOrderly DEF HandlerMay
    <3>3. \A q \in Certificate : Orderly(q, 1, own, free)
      BY <3>2, UnderOrderly DEF Certificate, LockNames, Rank
    <3>4. Orderly(StreamId, 1, own, free)
      BY <1>4, <2>1, <2>3, <3>1 DEF StreamId
    <3>5. /\ Orderly(PeerStreamStarted, 1, own, free) /\ Orderly(StartComplete, 1, own, free)
          /\ Orderly(ConnEvent, 1, own, free) /\ Orderly(StreamEvent, 1, own, free)
      BY <1>4, <2>3, <3>4 DEF PeerStreamStarted, StartComplete, ConnEvent, StreamEvent
    <3> HIDE DEF own, free
    <3> QED BY <2>2, <2>4, <3>3, <3>5 DEF WorkerPrograms
  <2>5. ASSUME t = ListenerWorker PROVE Orderly(p[2], 1, own, free)
    <3>1. Orderly(CallTo(ListenerWorker), 3, own, {})
      BY <2>1, <2>5, CallOrderly DEF Workers
    <3>2. Orderly(NewConnection, 1, own, free)
      BY <3>1, UnderOrderly DEF NewConnection, LockNames, Rank
    <3> HIDE DEF own, free
    <3> QED BY <2>2, <2>5, <3>2 DEF WorkerPrograms, ListenerWorker, ConnWorker
  <2> QED BY <1>6, <2>4, <2>5 DEF Workers
<1> QED BY <1>5, <1>6

--------------------------------------------------------------------------------
(* Locks: threads *)

HeldBy(t) == {l \in LockNames : t \in owner[l]}

LocksType ==
  /\ prog \in [Threads -> Seq(Steps)]
  /\ name = [t \in Threads |-> name[t]]
  /\ owner \in [LockNames -> SUBSET Threads]
  /\ \A l \in LockNames : \A t \in owner[l] : owner[l] = {t}

\* What is left of every operation is orderly, from what its thread holds on.
InOrderly(t) ==
  \E held : Follows(prog[t], held, 1, OwnOf(t, name[t]), FreeOf(t)) /\ held[1] = HeldBy(t)

LocksInv == LocksType /\ \A t \in Threads : InOrderly(t)

LEMMA NextStep ==
  ASSUME NEW p \in Seq(Steps), p # << >>, NEW held, NEW low, NEW own, NEW free,
         Follows(p, held, low, own, free)
  PROVE  /\ Does(Head(p), held[1], held[2], low, own, free)
         /\ \E g : Follows(Tail(p), g, low, own, free) /\ g[1] = held[2]
<1>1. /\ Len(p) \in Nat \ {0} /\ Tail(p) \in Seq(Steps) /\ Len(Tail(p)) = Len(p) - 1
      /\ Head(p) = p[1] /\ \A i \in 1 .. Len(p) - 1 : Tail(p)[i] = p[i + 1]
  OBVIOUS
<1> DEFINE n == Len(p)
           g == [i \in 1 .. n |-> held[i + 1]]
<1>2. \A i \in 1 .. n - 1 : i + 1 \in 1 .. n /\ i \in 1 .. n /\ (i + 1) + 1 \in 1 .. n + 1
  BY <1>1
<1>3. g \in [1 .. Len(Tail(p)) + 1 -> SUBSET LockNames] /\ g[Len(Tail(p)) + 1] = {}
  BY <1>1 DEF Follows
<1>4. ASSUME NEW i \in 1 .. Len(Tail(p))
      PROVE  Does(Tail(p)[i], g[i], g[i + 1], low, own, free)
  <2>1. i \in 1 .. n - 1 /\ i + 1 \in 1 .. n /\ i \in 1 .. n
    BY <1>1
  <2>2. g[i] = held[i + 1] /\ g[i + 1] = held[(i + 1) + 1] /\ Tail(p)[i] = p[i + 1]
    BY <1>1, <2>1
  <2> HIDE DEF g
  <2> QED BY <2>1, <2>2 DEF Follows
<1>5. \A i \in 1 .. Len(Tail(p)) + 1 : \A l \in g[i] : Rank[l] >= low
  BY <1>1 DEF Follows
<1>6. g[1] = held[2]
  BY <1>1
<1>7. Does(p[1], held[1], held[1 + 1], low, own, free)
  BY <1>1 DEF Follows
<1>8. Does(Head(p), held[1], held[2], low, own, free)
  BY <1>1, <1>7
<1> HIDE DEF g
<1> QED BY <1>3, <1>4, <1>5, <1>6, <1>8 DEF Follows

LEMMA LocksInitInv == LocksInit => LocksInv
<1> SUFFICES ASSUME LocksInit PROVE LocksInv
  OBVIOUS
<1>1. LocksType
  BY DEF LocksInit, LocksType
<1>2. ASSUME NEW t \in Threads PROVE InOrderly(t)
  <2>1. prog[t] = << >> /\ HeldBy(t) = {}
    BY DEF LocksInit, HeldBy
  <2>2. Orderly(<< >>, 1, OwnOf(t, name[t]), FreeOf(t))
    BY EmptyOrderly
  <2> QED BY <2>1, <2>2 DEF InOrderly, Orderly
<1> QED BY <1>1, <1>2 DEF LocksInv

LEMMA BeginInv ==
  ASSUME LocksInv, NEW t \in Threads, Begin(t)
  PROVE  LocksInv'
<1>1. PICK p \in ProgramsOf(t) : name' = [name EXCEPT ![t] = p[1]] /\ prog' = [prog EXCEPT ![t] = p[2]]
  BY DEF Begin, ProgramsOf
<1>2. prog[t] = << >> /\ owner' = owner
  BY DEF Begin
<1>3. Orderly(p[2], 1, OwnOf(t, p[1]), FreeOf(t))
  BY ProgramsOrderly
<1>4. LocksType'
  BY <1>1, <1>2, <1>3 DEF LocksInv, LocksType, Orderly
<1>5. HeldBy(t) = {}
  <2>1. Len(prog[t]) + 1 = 1
    BY <1>2
  <2> QED BY <2>1 DEF LocksInv, InOrderly, Follows
<1>6. \A u \in Threads : HeldBy(u)' = HeldBy(u)
  BY <1>2 DEF HeldBy
<1>7. InOrderly(t)'
  <2>1. prog'[t] = p[2] /\ name'[t] = p[1]
    BY <1>1 DEF LocksInv, LocksType
  <2> QED BY <1>3, <1>5, <1>6, <2>1 DEF InOrderly, Orderly
<1>8. ASSUME NEW u \in Threads \ {t} PROVE InOrderly(u)'
  <2>1. prog'[u] = prog[u] /\ name'[u] = name[u]
    BY <1>1 DEF LocksInv, LocksType
  <2> QED BY <1>6, <2>1 DEF LocksInv, InOrderly
<1> QED BY <1>4, <1>7, <1>8 DEF LocksInv

LEMMA StepInv ==
  ASSUME LocksInv, NEW t \in Threads, Step(t)
  PROVE  LocksInv'
<1> DEFINE s == Head(prog[t])
           own == OwnOf(t, name[t])
           free == FreeOf(t)
<1>1. /\ prog[t] \in Seq(Steps) /\ prog[t] # << >> /\ WaitsFor(t) = {}
      /\ prog' = [prog EXCEPT ![t] = Tail(@)]
      /\ name' = [name EXCEPT ![t] = IF Len(prog[t]) = 1 THEN "idle" ELSE @]
  BY DEF Step, LocksInv, LocksType
<1>2. PICK held : Follows(prog[t], held, 1, own, free) /\ held[1] = HeldBy(t)
  BY DEF LocksInv, InOrderly
<1>3. /\ Does(s, held[1], held[2], 1, own, free)
      /\ \E g : Follows(Tail(prog[t]), g, 1, own, free) /\ g[1] = held[2]
  BY <1>1, <1>2, NextStep
<1>4. /\ owner' = CASE s.do = "lock" -> [owner EXCEPT ![s.what] = {t}]
                     [] s.do = "unlock" -> [owner EXCEPT ![s.what] = {}]
                     [] s.do = "call" -> owner
      /\ s.do = "lock" => owner[s.what] = {}
  BY <1>1 DEF Step, WaitsFor
<1>5. /\ prog'[t] = Tail(prog[t]) /\ Tail(prog[t]) \in Seq(Steps)
      /\ name'[t] = IF Len(prog[t]) = 1 THEN "idle" ELSE name[t]
      /\ \A u \in Threads \ {t} : prog'[u] = prog[u] /\ name'[u] = name[u]
      /\ prog' \in [Threads -> Seq(Steps)]
      /\ name' = [u \in Threads |-> name'[u]]
  <2>1. /\ prog = [u \in Threads |-> prog[u]] /\ prog \in [Threads -> Seq(Steps)]
        /\ name = [u \in Threads |-> name[u]]
    BY DEF LocksInv, LocksType
  <2>2. Tail(prog[t]) \in Seq(Steps)
    BY <1>1
  <2>3. /\ prog'[t] = Tail(prog[t]) /\ prog' \in [Threads -> Seq(Steps)]
        /\ \A u \in Threads \ {t} : prog'[u] = prog[u]
    BY <1>1, <2>1, <2>2
  <2>4. name' = [u \in Threads |-> IF u # t THEN name[u]
                                   ELSE IF Len(prog[t]) = 1 THEN "idle" ELSE name[t]]
    BY <1>1, <2>1
  <2> QED BY <2>2, <2>3, <2>4
<1> HIDE DEF s
\* The owners after the step.
<1>6. /\ HeldBy(t)' = held[2]
      /\ \A u \in Threads \ {t} : HeldBy(u)' = HeldBy(u)
      /\ owner' \in [LockNames -> SUBSET Threads]
      /\ \A l \in LockNames : \A u \in owner'[l] : owner'[l] = {u}
  <2> USE DEF LocksInv, LocksType
  <2>1. CASE s.do = "lock"
    <3>1. s.what \in LockNames /\ held[2] = HeldBy(t) \cup {s.what}
      BY <1>2, <1>3, <2>1 DEF Does
    <3>2. owner' = [owner EXCEPT ![s.what] = {t}] /\ owner[s.what] = {}
      BY <1>4, <2>1
    <3> QED BY <3>1, <3>2 DEF HeldBy
  <2>2. CASE s.do = "unlock"
    <3>1. s.what \in HeldBy(t) /\ held[2] = HeldBy(t) \ {s.what}
      BY <1>2, <1>3, <2>2 DEF Does
    <3>2. owner' = [owner EXCEPT ![s.what] = {}]
      BY <1>4, <2>2
    <3>3. s.what \in LockNames /\ owner[s.what] = {t}
      BY <3>1 DEF HeldBy
    <3> QED BY <3>1, <3>2, <3>3 DEF HeldBy
  <2>3. CASE s.do = "call"
    <3>1. held[2] = HeldBy(t) /\ owner' = owner
      BY <1>2, <1>3, <1>4, <2>3 DEF Does
    <3> QED BY <3>1 DEF HeldBy
  <2> QED BY <1>3, <2>1, <2>2, <2>3 DEF Does
<1>7. LocksType'
  BY <1>5, <1>6 DEF LocksType
<1>8. InOrderly(t)'
  <2>1. PICK g : Follows(Tail(prog[t]), g, 1, own, free) /\ g[1] = held[2]
    BY <1>3
  <2>2. CASE Len(prog[t]) = 1
    <3>1. Tail(prog[t]) = << >>
      <4>1. Tail(prog[t]) \in Seq(Steps) /\ Len(Tail(prog[t])) = 0
        BY <1>1, <2>2
      <4> QED BY <4>1, EmptySeq
    <3>2. Follows(<< >>, g, 1, OwnOf(t, name'[t]), free)
      BY <2>1, <3>1 DEF Follows
    <3> QED BY <1>5, <1>6, <2>1, <3>1, <3>2 DEF InOrderly
  <2>3. CASE Len(prog[t]) # 1
    BY <1>5, <1>6, <2>1, <2>3 DEF InOrderly
  <2> QED BY <2>2, <2>3
<1>9. ASSUME NEW u \in Threads \ {t} PROVE InOrderly(u)'
  <2>1. InOrderly(u)
    BY DEF LocksInv
  <2>2. prog'[u] = prog[u] /\ name'[u] = name[u] /\ HeldBy(u)' = HeldBy(u)
    BY <1>5, <1>6
  <2> QED BY <2>1, <2>2 DEF InOrderly
<1> QED BY <1>7, <1>8, <1>9 DEF LocksInv

LEMMA LocksInvariance == LocksSpec => []LocksInv
<1>1. LocksInv /\ [LocksNext]_locksVars => LocksInv'
  <2> SUFFICES ASSUME LocksInv, [LocksNext]_locksVars PROVE LocksInv'
    OBVIOUS
  <2>1. CASE UNCHANGED locksVars
    BY <2>1 DEF locksVars, LocksInv, LocksType, InOrderly, HeldBy
  <2> QED BY <2>1, BeginInv, StepInv DEF LocksNext
<1> QED BY <1>1, LocksInitInv, PTL DEF LocksSpec

\* A thread that is not in set_sslkeylog_file, and waits while it holds a lock,
\* waits for a lock of higher rank.
LEMMA WaitsUpwards ==
  ASSUME LocksInv, NEW t \in Threads, WaitsFor(t) # {},
         ~ (t \in Tasks /\ name[t] = "setKeyLogFile")
  PROVE  LET s == Head(prog[t]) IN
         \/ /\ s.do = "lock" /\ s.what \in LockNames /\ WaitsFor(t) = owner[s.what]
            /\ \A l \in LockNames : t \in owner[l] => Rank[l] < Rank[s.what]
         \/ /\ s.do = "call" /\ WaitsFor(t) = {s.what} /\ s.what \in Workers
            /\ t \notin Workers /\ \A l \in LockNames : t \notin owner[l]
<1>1. prog[t] \in Seq(Steps) /\ prog[t] # << >>
  BY DEF WaitsFor, LocksInv, LocksType
<1> DEFINE s == Head(prog[t])
<1>2. PICK held : Follows(prog[t], held, 1, {t}, FreeOf(t)) /\ held[1] = HeldBy(t)
  BY DEF LocksInv, InOrderly, OwnOf
<1>3. Does(s, held[1], held[2], 1, {t}, FreeOf(t))
  BY <1>1, <1>2, NextStep
<1>4. WaitsFor(t) = CASE s.do = "lock" -> owner[s.what]
                      [] s.do = "call" -> IF t # s.what /\ prog[s.what] # << >> THEN {s.what} ELSE {}
                      [] s.do = "unlock" -> {}
  BY <1>1 DEF WaitsFor
<1> HIDE DEF s
<1>5. CASE s.do = "lock"
  BY <1>2, <1>3, <1>4, <1>5 DEF Does, HeldBy, s
<1>6. CASE s.do = "call"
  <2>1. t # s.what /\ WaitsFor(t) = {s.what}
    BY <1>4, <1>6
  <2>2. s.what \in FreeOf(t) /\ HeldBy(t) = {}
    BY <1>2, <1>3, <1>6, <2>1 DEF Does
  <2> QED BY <1>6, <2>1, <2>2 DEF FreeOf, HeldBy, s
<1>7. CASE s.do = "unlock"
  BY <1>4, <1>7
<1> QED BY <1>3, <1>5, <1>6, <1>7 DEF Does

\* connection.rs:2215, 612 and 942, stream.rs:770 and 618, listener.rs:163: for
\* any number of threads, a circle of threads that wait for each other has one
\* in set_sslkeylog_file.
THEOREM NoCircle == LocksSpec => []NoCircularWait
<1>1. LocksInv => NoCircularWait
  <2> SUFFICES ASSUME LocksInv, NEW circle \in SUBSET Threads, circle # {},
                      \A t \in circle : WaitsFor(t) \cap circle # {}
               PROVE  \E t \in circle \cap Tasks : name[t] = "setKeyLogFile"
    BY DEF NoCircularWait
  <2> SUFFICES ASSUME ~ \E t \in circle \cap Tasks : name[t] = "setKeyLogFile"
               PROVE  FALSE
    OBVIOUS
  <2> DEFINE Locks(t, l) == /\ l \in LockNames /\ WaitsFor(t) = owner[l]
                            /\ \A k \in LockNames : t \in owner[k] => Rank[k] < Rank[l]
             Calls(t) == /\ \E w \in Workers : WaitsFor(t) = {w}
                         /\ t \notin Workers /\ \A l \in LockNames : t \notin owner[l]
  <2>1. ASSUME NEW t \in circle
        PROVE  (\E l : Locks(t, l)) \/ Calls(t)
    BY WaitsUpwards
  <2>2. ASSUME NEW t \in circle, NEW l, Locks(t, l)
        PROVE  \E u \in circle : \E k : Locks(u, k) /\ Rank[l] < Rank[k]
    <3>1. PICK u \in circle : u \in owner[l]
      BY <2>2
    <3> QED BY <2>1, <2>2, <3>1
  <2> HIDE DEF Locks, Calls
  <2>3. \A l \in LockNames : Rank[l] \in {1, 2, 3}
    BY DEF Rank
  <2>4. ASSUME NEW t \in circle, NEW l, Locks(t, l) PROVE FALSE
    <3>1. \A u \in circle : \A k : Locks(u, k) => k \in LockNames
      BY DEF Locks
    <3>2. \A u \in circle : \A k : Locks(u, k) => Rank[k] # 3
      BY <2>2, <2>3, <3>1
    <3>3. \A u \in circle : \A k : Locks(u, k) => Rank[k] # 2
      BY <2>2, <2>3, <3>1, <3>2
    <3> QED BY <2>2, <2>3, <2>4, <3>1, <3>2, <3>3
  <2>5. PICK t \in circle : TRUE
    OBVIOUS
  <2>6. PICK w \in Workers : w \in circle
    BY <2>1, <2>4, <2>5 DEF Calls
  <2> QED BY <2>1, <2>4, <2>6 DEF Calls
<1> QED BY <1>1, LocksInvariance, PTL

\* Who is waited for is in an operation: a thread that is in none holds no lock.
LEMMA WaitsForBusy ==
  ASSUME LocksInv, NEW t \in Threads, NEW u \in WaitsFor(t)
  PROVE  u \in Threads /\ prog[u] # << >>
<1> DEFINE s == Head(prog[t])
<1>1. prog[t] # << >> /\ s \in Steps
  <2>1. prog[t] # << >> /\ prog[t] \in Seq(Steps)
    BY DEF WaitsFor, LocksInv, LocksType
  <2> QED BY <2>1, HeadTailProperties
<1>2. WaitsFor(t) = CASE s.do = "lock" -> owner[s.what]
                      [] s.do = "call" -> IF t # s.what /\ prog[s.what] # << >> THEN {s.what} ELSE {}
                      [] s.do = "unlock" -> {}
  BY <1>1 DEF WaitsFor
<1> HIDE DEF s
<1>3. CASE s.do = "lock"
  <2>1. s.what \in LockNames /\ u \in owner[s.what]
    BY <1>1, <1>2, <1>3 DEF Steps
  <2>2. u \in Threads /\ HeldBy(u) # {}
    BY <2>1 DEF LocksInv, LocksType, HeldBy
  <2>3. ASSUME prog[u] = << >> PROVE FALSE
    <3>1. PICK held : Follows(<< >>, held, 1, OwnOf(u, name[u]), FreeOf(u)) /\ held[1] = HeldBy(u)
      BY <2>2, <2>3 DEF LocksInv, InOrderly
    <3>2. held[1] = {}
      BY <3>1 DEF Follows
    <3> QED BY <2>2, <3>1, <3>2
  <2> QED BY <2>2, <2>3
<1>4. CASE s.do = "call"
  BY <1>1, <1>2, <1>4 DEF Steps, Threads
<1>5. CASE s.do = "unlock"
  BY <1>2, <1>5
<1> QED BY <1>1, <1>3, <1>4, <1>5 DEF Steps

\* connection.rs:942: while an operation is under way some operation can go on,
\* for any number of threads, unless a thread is in set_sslkeylog_file.
THEOREM SomeoneRuns ==
  LocksSpec => []( (\E t \in Threads : prog[t] # << >>) =>
                   \/ \E t \in Threads : prog[t] # << >> /\ WaitsFor(t) = {}
                   \/ \E t \in Tasks : name[t] = "setKeyLogFile" )
<1> DEFINE Busy == {t \in Threads : prog[t] # << >>}
<1>1. LocksInv /\ NoCircularWait =>
        ( (\E t \in Threads : prog[t] # << >>) =>
          \/ \E t \in Threads : prog[t] # << >> /\ WaitsFor(t) = {}
          \/ \E t \in Tasks : name[t] = "setKeyLogFile" )
  <2> SUFFICES ASSUME LocksInv, NoCircularWait, Busy # {},
                      \A t \in Busy : WaitsFor(t) # {}
               PROVE  \E t \in Tasks : name[t] = "setKeyLogFile"
    OBVIOUS
  <2>1. \A t \in Busy : WaitsFor(t) \cap Busy # {}
    BY WaitsForBusy
  <2>2. Busy \in (SUBSET Threads) \ {{}}
    OBVIOUS
  <2> HIDE DEF Busy
  <2> QED BY <2>1, <2>2 DEF NoCircularWait
<1> QED BY <1>1, LocksInvariance, NoCircle, PTL
================================================================================
