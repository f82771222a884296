------------------------------ MODULE WebProofs ------------------------------
(***************************************************************************)
(* The web application's two ends.  Its connection to the server:          *)
(* ClientPipeline for any number of requests, connections and slips:       *)
(* replies and callers are in step on every connection on which no frame   *)
(* was cut short and no late bytes were read, and callers get what         *)
(* RequestPromises promises.  PipelineKept is inductive as it stands; the  *)
(* refinement needs besides that no request is anywhere twice.  And its    *)
(* forms: SubmitForms for any tree of categories and any texts; FormsKept  *)
(* is inductive, and says of each page what its next one relies on.        *)
(***************************************************************************)
EXTENDS ClientPipeline, SubmitForms, SequenceTheorems, WellFoundedInduction, TLAPS

-----------------------------------------------------------------------------
(* What of a sequence follows its first k elements.                        *)

(* An element appended comes last.                                         *)
LEMMA RestOfAppend ==
    ASSUME NEW S, NEW p \in Seq(S), NEW e \in S, NEW k \in 0..Len(p)
    PROVE  SubSeq(Append(p, e), k + 1, Len(Append(p, e))) = Append(SubSeq(p, k + 1, Len(p)), e)
<1> DEFINE q == Append(p, e)
           a == SubSeq(q, k + 1, Len(q))
           b == SubSeq(p, k + 1, Len(p))
<1>1. Len(p) \in Nat
  BY LenProperties
<1>2. q \in Seq(S) /\ Len(q) = Len(p) + 1 /\ q[Len(p) + 1] = e
      /\ \A i \in 1..Len(p) : q[i] = p[i]
  BY AppendProperties
<1>3. \A i \in 1..Len(q) : q[i] \in S
  BY <1>2, ElementOfSeq
<1>4. \A i \in 1..Len(p) : p[i] \in S
  BY ElementOfSeq
<1> HIDE DEF q
<1>5. /\ a \in Seq(S) /\ Len(a) = Len(p) + 1 - k
      /\ \A i \in 1..(Len(p) + 1 - k) : a[i] = q[k + i]
  <2>1. \A i \in (k + 1)..Len(q) : q[i] \in S
    BY <1>1, <1>3
  <2>2. /\ a \in Seq(S)
        /\ Len(a) = IF k + 1 <= Len(q) THEN Len(q) - (k + 1) + 1 ELSE 0
        /\ \A i \in 1..(Len(q) - (k + 1) + 1) : a[i] = q[k + 1 + i - 1]
    BY <1>1, <1>2, <2>1, SubSeqProperties
  <2> HIDE DEF a
  <2> QED
    BY <1>1, <1>2, <2>2
<1>6. /\ b \in Seq(S) /\ Len(b) = Len(p) - k
      /\ \A i \in 1..(Len(p) - k) : b[i] = p[k + i]
  <2>1. \A i \in (k + 1)..Len(p) : p[i] \in S
    BY <1>1, <1>4
  <2>2. /\ b \in Seq(S)
        /\ Len(b) = IF k + 1 <= Len(p) THEN Len(p) - (k + 1) + 1 ELSE 0
        /\ \A i \in 1..(Len(p) - (k + 1) + 1) : b[i] = p[k + 1 + i - 1]
    BY <1>1, <2>1, SubSeqProperties
  <2> HIDE DEF b
  <2> QED
    BY <1>1, <2>2
<1> HIDE DEF a, b
<1>7. /\ Append(b, e) \in Seq(S) /\ Len(Append(b, e)) = Len(b) + 1
      /\ Append(b, e)[Len(b) + 1] = e
      /\ \A i \in 1..Len(b) : Append(b, e)[i] = b[i]
  BY <1>6, AppendProperties
<1> DEFINE c == Append(b, e)
<1>8. Len(a) = Len(c) /\ \A i \in 1..Len(a) : a[i] = c[i]
  <2> DEFINE n == Len(p)
             m == Len(b)
  <2>1. n \in Nat /\ k \in 0..n /\ m = n - k
    BY <1>1, <1>6
  <2>2. Len(a) = m + 1 /\ Len(c) = m + 1
    BY <1>5, <1>6, <1>7, <2>1
  <2>3. \A i \in 1..(m + 1) : a[i] = q[k + i]
    BY <1>5, <2>1, <2>2
  <2>4. c[m + 1] = e /\ \A i \in 1..m : c[i] = p[k + i]
    BY <1>6, <1>7, <2>1
  <2>5. q[n + 1] = e /\ \A i \in 1..n : q[i] = p[i]
    BY <1>2
  <2> HIDE DEF a, b, c, n, m
  <2>6. \A i \in 1..(m + 1) : a[i] = c[i]
    <3> SUFFICES ASSUME NEW i \in 1..(m + 1) PROVE a[i] = c[i]
      OBVIOUS
    <3>1. CASE i = m + 1
      <4>1. k + i = n + 1
        BY <2>1, <3>1
      <4> QED
        BY <2>1, <2>3, <2>4, <2>5, <3>1, <4>1
    <3>2. CASE i \in 1..m
      BY <2>1, <2>3, <2>4, <2>5, <3>2
    <3> QED
      BY <2>1, <3>1, <3>2
  <2> QED
    BY <2>2, <2>6
<1>9. a = c
  BY <1>5, <1>7, <1>8, SeqEqual
<1> QED
  BY <1>9 DEF a, b, q

(* One element less is the tail.                                           *)
LEMMA RestOfNext ==
    ASSUME NEW S, NEW p \in Seq(S), NEW k \in 0..(Len(p) - 1)
    PROVE  /\ SubSeq(p, k + 1, Len(p)) # <<>>
           /\ Head(SubSeq(p, k + 1, Len(p))) = p[k + 1]
           /\ Tail(SubSeq(p, k + 1, Len(p))) = SubSeq(p, (k + 1) + 1, Len(p))
<1>1. Len(p) \in Nat /\ k + 1 \in 1..Len(p) /\ Len(p) \in (k + 1)..Len(p)
  BY LenProperties
<1>2. \A i \in (k + 1)..Len(p) : p[i] \in S
  BY <1>1, ElementOfSeq
<1> DEFINE b == SubSeq(p, k + 1, Len(p))
           m == Len(p)
<1>3. Len(b) = m - (k + 1) + 1
  BY <1>1, <1>2, SubSeqProperties
<1>4. b # <<>>
  <2>1. m \in Nat /\ k + 1 \in 1..m
    BY <1>1
  <2> HIDE DEF b, m
  <2>2. Len(b) # 0
    BY <1>3, <2>1
  <2> QED
    BY <2>2, EmptySeq
<1> QED
  BY <1>1, <1>4, HeadTailOfSubSeq

(* What follows is a sequence of the same elements.                        *)
LEMMA RestIsSeq ==
    ASSUME NEW S, NEW p \in Seq(S), NEW k \in Nat
    PROVE  SubSeq(p, k + 1, Len(p)) \in Seq(S)
<1>1. Len(p) \in Nat
  BY LenProperties
<1>2. \A i \in (k + 1)..Len(p) : p[i] \in S
  BY <1>1, ElementOfSeq
<1> QED
  BY <1>1, <1>2, SubSeqProperties

(* Head and tail of a concatenation whose first part has any.              *)
LEMMA HeadTailOfConcat ==
    ASSUME NEW S, NEW s \in Seq(S), NEW t \in Seq(S), s # <<>>
    PROVE  /\ s \o t # <<>>
           /\ Head(s \o t) = Head(s)
           /\ Tail(s \o t) = Tail(s) \o t
<1>1. s \o t \in Seq(S) /\ s \o t # <<>>
  BY ConcatProperties, ConcatEqualIffEmpty
<1>2. Len(s) \in Nat \ {0} /\ Len(t) \in Nat
  BY EmptySeq, LenProperties
<1>3. /\ Len(s \o t) = Len(s) + Len(t)
      /\ \A i \in 1..(Len(s) + Len(t)) : (s \o t)[i] = IF i <= Len(s) THEN s[i] ELSE t[i - Len(s)]
  BY ConcatProperties
<1>4. /\ Tail(s) \in Seq(S) /\ Len(Tail(s)) = Len(s) - 1
      /\ \A i \in 1..Len(Tail(s)) : Tail(s)[i] = s[i + 1]
  BY HeadTailProperties
<1>5. /\ Tail(s \o t) \in Seq(S) /\ Len(Tail(s \o t)) = Len(s \o t) - 1
      /\ \A i \in 1..Len(Tail(s \o t)) : Tail(s \o t)[i] = (s \o t)[i + 1]
  BY <1>1, HeadTailProperties
<1>6. /\ Tail(s) \o t \in Seq(S) /\ Len(Tail(s) \o t) = Len(Tail(s)) + Len(t)
      /\ \A i \in 1..(Len(Tail(s)) + Len(t)) :
           (Tail(s) \o t)[i] = IF i <= Len(Tail(s)) THEN Tail(s)[i] ELSE t[i - Len(Tail(s))]
  BY <1>4, ConcatProperties
<1> DEFINE a == Tail(s \o t)
           b == Tail(s) \o t
<1>7. Len(a) = Len(b) /\ \A i \in 1..Len(a) : a[i] = b[i]
  <2> DEFINE st == s \o t
             ts == Tail(s)
             m == Len(s)
             n == Len(t)
  <2>1. m \in Nat \ {0} /\ n \in Nat
    BY <1>2
  <2>2. Len(a) = m + n - 1 /\ Len(b) = m - 1 + n
    BY <1>2, <1>3, <1>4, <1>5, <1>6
  <2>3. \A i \in 1..(m + n - 1) : a[i] = st[i + 1]
    BY <2>2, <1>5
  <2>4. \A i \in 1..(m + n) : st[i] = IF i <= m THEN s[i] ELSE t[i - m]
    BY <1>3
  <2>5. \A i \in 1..(m - 1 + n) : b[i] = IF i <= m - 1 THEN ts[i] ELSE t[i - (m - 1)]
    BY <1>4, <1>6
  <2>6. \A i \in 1..(m - 1) : ts[i] = s[i + 1]
    BY <1>4
  <2> HIDE DEF a, b, st, ts, m, n
  <2>7. \A i \in 1..(m + n - 1) : a[i] = b[i]
    <3> SUFFICES ASSUME NEW i \in 1..(m + n - 1) PROVE a[i] = b[i]
      OBVIOUS
    <3>1. CASE i <= m - 1
      BY <2>1, <2>3, <2>4, <2>5, <2>6, <3>1
    <3>2. CASE i > m - 1
      <4>1. i + 1 - m = i - (m - 1)
        BY <2>1
      <4>2. a[i] = t[i + 1 - m]
        <5>1. PICK j \in 1..(m + n) : j = i + 1 /\ ~(j <= m)
          BY <2>1, <3>2
        <5>2. st[j] = t[j - m]
          BY <2>4, <5>1
        <5>3. a[i] = st[j]
          BY <2>3, <5>1
        <5>4. j - m = i + 1 - m
          BY <2>1, <5>1
        <5> QED
          BY <5>2, <5>3, <5>4, Zenon
      <4>3. b[i] = t[i - (m - 1)]
        BY <2>1, <2>5, <3>2
      <4> QED
        BY <4>1, <4>2, <4>3
    <3> QED
      BY <2>1, <3>1, <3>2
  <2> QED
    BY <2>1, <2>2, <2>7
<1>8. a = b
  BY <1>5, <1>6, <1>7, SeqEqual
<1>9. Head(s \o t) = (s \o t)[1] /\ Head(s) = s[1]
  OBVIOUS
<1> QED
  BY <1>1, <1>2, <1>3, <1>8, <1>9

-----------------------------------------------------------------------------
(* PipelineKept is inductive.                                              *)

(* Nothing is sent, owed or read at first.                                 *)
LEMMA InitKept == Init => PipelineKept
<1> SUFFICES ASSUME Init PROVE PipelineKept
  OBVIOUS
<1> USE DEF Init, Conn, None
<1>1. TypeOK
  <2>1. <<>> \in Seq(Request) /\ <<>> \in Seq(Frame)
    BY EmptySeq
  <2>2. chain \in Seq(Request) /\ queue \in Seq(Request) /\ buffer \in Seq(Frame)
        /\ pipe \in [Conn -> Seq(Frame)]
    BY <2>1
  <2>3. /\ outcome \in [Request -> Outcome] /\ reply \in [Request -> Frame \cup {NoReply}]
        /\ reads \in [Loop -> Conn \cup {None}] /\ half \in [Conn -> BOOLEAN]
        /\ served \in [Conn -> Nat] /\ taken \in [Conn -> Nat] /\ executed \in [Request -> Nat]
    BY DEF Outcome
  <2>4. step \in {"idle", "connect", "push", "written", "refused"} /\ running \in BOOLEAN
    OBVIOUS
  <2>5. opened \in 0..MaxConn
    BY MaxConnAssumption
  <2>6. /\ via \in Conn \cup {None} /\ conn \in Conn \cup {None}
        /\ closed \in SUBSET Conn /\ up \in SUBSET Conn
        /\ short \in SUBSET (1..opened) /\ mixed \in SUBSET (1..opened) /\ lost \in SUBSET Request
    OBVIOUS
  <2> HIDE DEF Init
  <2> QED
    BY <2>2, <2>3, <2>4, <2>5, <2>6 DEF TypeOK
<1>2. ConnectionsKept
  BY DEF ConnectionsKept, Loop
<1>3. SenderKept /\ FramesKept
  BY EmptySeq DEF SenderKept, FramesKept
<1>4. QueueMatchesWire
  BY DEF QueueMatchesWire, OutOfStep
<1>5. RepliesAreOwn
  BY RequestAssumption DEF RepliesAreOwn
<1> QED
  BY <1>1, <1>2, <1>3, <1>4, <1>5 DEF PipelineKept

(* A caller asks, or gives up waiting.                                     *)
LEMMA CallerKeeps ==
    ASSUME PipelineKept, NEW r \in Request, Call(r) \/ Timeout(r)
    PROVE  PipelineKept'
<1> USE DEF PipelineKept
<1> USE DEF client, sockets, frames, server, sender, history
<1>1. CASE Call(r)
  <2> USE <1>1 DEF Call
  <2>1. chain' \in Seq(Request) /\ chain' # <<>>
    BY AppendProperties DEF TypeOK
  <2>2. TypeOK'
    BY <2>1 DEF TypeOK, Outcome
  <2>3. ConnectionsKept'
    BY DEF ConnectionsKept
  <2>4. SenderKept' /\ FramesKept'
    BY <2>1 DEF SenderKept, FramesKept
  <2>5. Refused' = Refused
    <3>1. step = "refused" => Head(chain') = Head(chain)
      BY HeadTailAppend DEF TypeOK, SenderKept
    <3> QED
      BY <3>1 DEF Refused
  <2>6. QueueMatchesWire'
    BY <2>5 DEF QueueMatchesWire, Unread, OutOfStep
  <2>7. RepliesAreOwn'
    BY RequestAssumption DEF RepliesAreOwn, TypeOK
  <2> QED
    BY <2>2, <2>3, <2>4, <2>6, <2>7
<1>2. CASE Timeout(r)
  <2> USE <1>2 DEF Timeout
  <2>1. TypeOK'
    BY DEF TypeOK, Outcome
  <2>2. ConnectionsKept' /\ SenderKept' /\ FramesKept'
    BY DEF ConnectionsKept, SenderKept, FramesKept
  <2>3. QueueMatchesWire'
    BY DEF QueueMatchesWire, Unread, Refused, OutOfStep
  <2>4. RepliesAreOwn'
    BY RequestAssumption DEF RepliesAreOwn, TypeOK
  <2> QED
    BY <2>1, <2>2, <2>3, <2>4
<1> QED
  BY <1>1, <1>2

(* Without a connection nothing is owed, and nothing is half read.         *)
LEMMA DisconnectKeeps ==
    ASSUME PipelineKept, NEW failing, Disconnect(failing),
           UNCHANGED <<reply, opened, up, frames, server, history>>,
           \/ UNCHANGED sender
           \/ chain # <<>> /\ chain' = Tail(chain) /\ step' = "idle" /\ via' = None,
           reads' = reads \/ \E i \in Loop : reads' = [reads EXCEPT ![i] = None]
    PROVE  PipelineKept'
<1> USE DEF PipelineKept, Disconnect, sender, frames, server, history
<1>1. TypeOK'
  <2>1. chain' \in Seq(Request)
    <3>1. chain \in Seq(Request)
      BY DEF TypeOK
    <3>2. chain # <<>> => Tail(chain) \in Seq(Request)
      BY <3>1, HeadTailProperties
    <3> QED
      BY <3>1, <3>2
  <2>2. outcome' \in [Request -> Outcome]
    BY DEF TypeOK, Outcome
  <2>3. closed' \in SUBSET Conn
    BY DEF TypeOK, Conn, None
  <2>4. queue' \in Seq(Request) /\ buffer' \in Seq(Frame)
    BY EmptySeq
  <2>5. reads' \in [Loop -> Conn \cup {None}]
    BY DEF TypeOK
  <2> QED
    BY <2>1, <2>2, <2>3, <2>4, <2>5 DEF TypeOK
<1>2. ConnectionsKept'
  <2>1. closed' = 1..opened
    BY DEF ConnectionsKept, TypeOK, Conn, None
  <2>2. closed' = (1..opened') \ {conn'}
    BY <2>1 DEF None
  <2>3. \A i \in Loop : reads'[i] # None => i <= reads'[i] /\ reads'[i] <= opened'
    BY DEF ConnectionsKept, TypeOK
  <2> QED
    BY <2>2, <2>3 DEF ConnectionsKept
<1>3. SenderKept'
  BY DEF SenderKept
<1>4. FramesKept'
  BY DEF FramesKept
<1>5. QueueMatchesWire'
  <2>1. None \notin OutOfStep'
    BY DEF TypeOK, OutOfStep, None
  <2> QED
    BY <2>1 DEF QueueMatchesWire
<1>6. RepliesAreOwn'
  BY RequestAssumption DEF RepliesAreOwn
<1> QED
  BY <1>1, <1>2, <1>3, <1>4, <1>5, <1>6

(* Sends that fail, close() and reads that end drop the connection.        *)
LEMMA DroppingKeeps ==
    ASSUME PipelineKept,
           ConnectFails \/ WriteFails \/ Close \/ \E i \in Loop : ReadEnd(i)
    PROVE  PipelineKept'
<1>1. ASSUME SendFails, step # "idle" PROVE PipelineKept'
  <2>1. chain # <<>>
    BY <1>1 DEF PipelineKept, SenderKept
  <2> QED
    BY <1>1, <2>1, DisconnectKeeps DEF SendFails
<1>2. CASE ConnectFails
  BY <1>1, <1>2 DEF ConnectFails
<1>3. CASE WriteFails
  BY <1>1, <1>3 DEF WriteFails
<1>4. CASE Close
  BY <1>4, DisconnectKeeps DEF Close
<1>5. CASE \E i \in Loop : ReadEnd(i)
  BY <1>5, DisconnectKeeps DEF ReadEnd
<1> QED
  BY <1>2, <1>3, <1>4, <1>5

(* The chain takes the next request, or is done with one.                  *)
LEMMA ChainKeeps ==
    ASSUME PipelineKept, SendStart \/ WriteOk
    PROVE  PipelineKept'
<1> USE DEF PipelineKept, callers, client, sockets, frames, server, history
<1>1. CASE SendStart
  <2> USE <1>1 DEF SendStart
  <2>1. TypeOK'
    BY DEF TypeOK
  <2>2. ConnectionsKept' /\ FramesKept' /\ RepliesAreOwn'
    BY DEF ConnectionsKept, FramesKept, RepliesAreOwn
  <2>3. SenderKept'
    <3>1. conn # None => conn \in 1..opened
      BY DEF ConnectionsKept, TypeOK, Conn, None
    <3> QED
      BY <3>1 DEF SenderKept
  <2>4. QueueMatchesWire'
    BY DEF QueueMatchesWire, Unread, Refused, OutOfStep
  <2> QED
    BY <2>1, <2>2, <2>3, <2>4
<1>2. CASE WriteOk
  <2> USE <1>2 DEF WriteOk
  <2>1. chain' \in Seq(Request)
    BY HeadTailProperties DEF TypeOK, SenderKept
  <2>2. TypeOK'
    BY <2>1 DEF TypeOK
  <2>3. ConnectionsKept' /\ FramesKept' /\ RepliesAreOwn'
    BY DEF ConnectionsKept, FramesKept, RepliesAreOwn
  <2>4. SenderKept'
    BY DEF SenderKept
  <2>5. QueueMatchesWire'
    BY DEF QueueMatchesWire, Unread, Refused, OutOfStep
  <2> QED
    BY <2>2, <2>3, <2>4, <2>5
<1> QED
  BY <1>1, <1>2

(* A new connection owes nothing yet, and its loop is the one that reads.  *)
LEMMA ConnectKeeps ==
    ASSUME PipelineKept, ConnectOk
    PROVE  PipelineKept'
<1> DEFINE c == opened + 1
<1> USE DEF PipelineKept, callers, frames, server
<1>1. /\ conn = None /\ ~running /\ queue = <<>> /\ chain # <<>>
      /\ closed = 1..opened /\ up \subseteq 1..opened /\ buffer \in {<<>>, <<Garbage>>}
  BY DEF ConnectOk, SenderKept, ConnectionsKept, QueueMatchesWire, Refused, None
<1>2. opened \in Nat /\ c \in Conn /\ c # None /\ c > opened
  BY MaxConnAssumption DEF ConnectOk, TypeOK, Conn, None
<1>3. pipe[c] = <<>> /\ taken[c] = 0 /\ ~half[c]
  <2>1. pipe[c] = <<>>
    BY <1>2 DEF FramesKept
  <2>2. taken[c] \in Nat /\ served[c] \in Nat /\ taken[c] <= served[c] /\ served[c] <= Len(pipe[c])
        /\ (half[c] => taken[c] < served[c])
    BY <1>2 DEF TypeOK, FramesKept
  <2>3. Len(pipe[c]) = 0
    BY <2>1, EmptySeq
  <2> QED
    BY <2>1, <2>2, <2>3
<1>4. /\ opened' = c /\ up' = up \cup {c} /\ conn' = c /\ running' = TRUE /\ via' = c
      /\ reads' = [reads EXCEPT ![c] = c] /\ step' = "push"
      /\ mixed' = IF buffer = <<Garbage>> THEN mixed \cup {c} ELSE mixed
      /\ UNCHANGED <<callers, chain, queue, buffer, closed, frames, server, short, lost>>
  BY <1>1 DEF ConnectOk, StartReadLoop
<1>5. TypeOK'
  <2>1. short' \in SUBSET (1..opened') /\ mixed' \in SUBSET (1..opened')
    BY <1>2, <1>4 DEF TypeOK
  <2> QED
    BY <1>2, <1>4, <2>1 DEF TypeOK, ConnectOk, Loop, Conn
<1>6. ConnectionsKept'
  <2>1. closed' = (1..opened') \ {conn'}
    BY <1>1, <1>2, <1>4
  <2>2. up' \subseteq 1..opened'
    BY <1>1, <1>2, <1>4
  <2>3. reads'[c] = c /\ \A i \in Loop \ {c} : reads'[i] = reads[i]
    BY <1>2, <1>4 DEF TypeOK, Loop
  <2>4. \A i \in Loop : reads'[i] # None => i <= reads'[i] /\ reads'[i] <= opened'
    <3> SUFFICES ASSUME NEW i \in Loop, reads'[i] # None PROVE i <= reads'[i] /\ reads'[i] <= opened'
      OBVIOUS
    <3>1. CASE i = c
      BY <1>2, <1>4, <2>3, <3>1
    <3>2. CASE i # c
      <4>1. reads'[i] = reads[i] /\ reads[i] \in Conn /\ reads[i] <= opened /\ i <= reads[i]
        BY <2>3, <3>2 DEF ConnectionsKept, TypeOK
      <4> QED
        BY <1>2, <1>4, <4>1 DEF Conn
    <3> QED
      BY <3>1, <3>2
  <2> QED
    BY <1>2, <1>4, <2>1, <2>2, <2>3, <2>4 DEF ConnectionsKept
<1>7. SenderKept'
  BY <1>1, <1>2, <1>4 DEF SenderKept
<1>8. FramesKept'
  BY <1>2, <1>4 DEF FramesKept, TypeOK, Conn
<1>9. QueueMatchesWire'
  <2>1. SubSeq(pipe'[conn'], taken'[conn'] + 1, Len(pipe'[conn'])) = <<>>
    <3>1. Len(<<>>) = 0 /\ SubSeq(<<>>, 0 + 1, 0) = <<>>
      BY EmptySeq, SubSeqEmpty
    <3> QED
      BY <1>3, <1>4, <3>1
  <2>2. Refused' = <<>>
    BY <1>4 DEF Refused
  <2>3. <<>> \o <<>> = <<>>
    BY EmptySeq, ConcatEmptySeq
  <2>4. conn' \notin OutOfStep' => buffer' = <<>>
    BY <1>1, <1>4 DEF OutOfStep
  <2>5. ToSet(queue') = {}
    BY <1>1, <1>4 DEF ToSet
  <2> QED
    BY <1>1, <1>2, <1>3, <1>4, <2>1, <2>2, <2>3, <2>4, <2>5 DEF QueueMatchesWire, Unread
<1>10. RepliesAreOwn'
  BY <1>4 DEF RepliesAreOwn
<1> QED
  BY <1>5, <1>6, <1>7, <1>8, <1>9, <1>10

(* The entry and the frame are queued together, or the frame is refused;   *)
(* where it is cut short, all that wait on the connection are lost.        *)
LEMMA PushKeeps ==
    ASSUME PipelineKept, Push
    PROVE  PipelineKept'
<1> DEFINE h == Head(chain)
<1> USE DEF PipelineKept, callers, sockets, server
<1>1. /\ h \in Request /\ via \in 1..opened /\ via \in Conn /\ via # None /\ chain # <<>>
      /\ (conn # None => via = conn) /\ Refused = <<>> /\ step = "push"
  <2>1. chain # <<>> /\ chain \in Seq(Request) /\ via \in 1..opened /\ step = "push"
    BY DEF Push, SenderKept, TypeOK
  <2>2. h \in Request
    BY <2>1, HeadTailProperties
  <2>3. via \in Conn /\ via # None /\ (conn # None => via = conn)
    BY <2>1 DEF SenderKept, TypeOK, Conn, None
  <2> QED
    BY <2>1, <2>2, <2>3 DEF Refused
<1> HIDE DEF h
<1>2. /\ queue' = Append(queue, h) /\ queue' \in Seq(Request)
      /\ lost' = IF via \in OutOfStep' THEN lost \cup ToSet(queue') ELSE lost
      /\ UNCHANGED <<callers, chain, via, conn, running, buffer, reads, sockets, taken, half, server,
                     mixed>>
  BY <1>1, AppendProperties DEF Push, TypeOK, h
<1>3. lost \subseteq lost' /\ lost' \in SUBSET Request
  <2>1. ToSet(queue') \subseteq Request
    BY <1>2, ElementOfSeq DEF ToSet
  <2> QED
    BY <1>2, <2>1 DEF TypeOK
<1>4. ConnectionsKept' /\ RepliesAreOwn' /\ SenderKept'
  <2>1. ConnectionsKept' /\ RepliesAreOwn'
    BY <1>2, <1>3 DEF ConnectionsKept, RepliesAreOwn
  <2>2. SenderKept'
    BY <1>1, <1>2 DEF SenderKept, Push
  <2> QED
    BY <2>1, <2>2
<1>5. conn' \in OutOfStep' => ToSet(queue') \subseteq lost'
  <2>1. short' \in SUBSET (1..opened) /\ mixed' \in SUBSET (1..opened)
    BY <1>1, <1>2 DEF Push, TypeOK
  <2>2. None \notin OutOfStep'
    BY <2>1 DEF OutOfStep, None
  <2> QED
    BY <1>1, <1>2, <2>2
<1>6. CASE /\ via \notin closed
           /\ \E read \in Framed(h) : pipe' = [pipe EXCEPT ![via] = @ \o read]
           /\ step' = "written" /\ UNCHANGED short
  <2>1. conn = via
    BY <1>1, <1>6 DEF ConnectionsKept, None
  <2>2. /\ pipe[via] \in Seq(Frame) /\ Len(pipe[via]) \in Nat
        /\ taken[via] \in 0..Len(pipe[via])
        /\ served[via] \in Nat /\ served[via] <= Len(pipe[via])
    BY <1>1, LenProperties DEF TypeOK, FramesKept
  <2>3. PICK read \in Framed(h) : pipe' = [pipe EXCEPT ![via] = pipe[via] \o read]
    BY <1>6
  <2>4. read \in Seq(Frame) /\ Len(read) \in Nat /\ (via \notin short => read = <<h>>)
    <3>1. h \in Frame /\ Garbage \in Frame
      BY <1>1 DEF Frame
    <3>2. <<>> \in Seq(Frame) /\ <<h>> \in Seq(Frame) /\ <<Garbage>> \in Seq(Frame)
      BY <3>1
    <3> QED
      BY <2>3, <3>2, LenProperties DEF Framed
  <2>5. /\ pipe'[via] = pipe[via] \o read
        /\ pipe'[via] \in Seq(Frame)
        /\ Len(pipe'[via]) = Len(pipe[via]) + Len(read)
        /\ \A i \in 1..Len(pipe[via]) : pipe'[via][i] = pipe[via][i]
        /\ \A c \in Conn \ {via} : pipe'[c] = pipe[c]
    <3>1. pipe'[via] = pipe[via] \o read /\ \A c \in Conn \ {via} : pipe'[c] = pipe[c]
      BY <1>1, <2>3 DEF TypeOK
    <3>2. /\ pipe[via] \o read \in Seq(Frame)
          /\ Len(pipe[via] \o read) = Len(pipe[via]) + Len(read)
          /\ \A i \in 1..(Len(pipe[via]) + Len(read)) :
               (pipe[via] \o read)[i] = IF i <= Len(pipe[via]) THEN pipe[via][i]
                                        ELSE read[i - Len(pipe[via])]
      BY <2>2, <2>4, ConcatProperties
    <3>3. \A i \in 1..Len(pipe[via]) :
            i \in 1..(Len(pipe[via]) + Len(read)) /\ i <= Len(pipe[via])
      BY <2>2, <2>4
    <3> QED
      BY <3>1, <3>2, <3>3
  <2>6. TypeOK'
    <3>1. pipe' \in [Conn -> Seq(Frame)]
      BY <2>3, <2>5 DEF TypeOK
    <3> QED
      BY <1>2, <1>3, <1>6, <3>1 DEF TypeOK
  <2>7. FramesKept'
    BY <1>1, <1>2, <2>2, <2>4, <2>5 DEF FramesKept, TypeOK, Conn
  <2>8. ASSUME conn \notin OutOfStep'
        PROVE  /\ queue' = Unread(conn)' \o Refused'
               /\ buffer' = IF half'[conn] THEN <<pipe'[conn][taken'[conn] + 1]>> ELSE <<>>
    <3>1. conn \notin OutOfStep /\ read = <<h>>
      BY <1>2, <1>6, <2>1, <2>4, <2>8 DEF OutOfStep
    <3>2. h \in Frame
      BY <1>1 DEF Frame
    <3>3. pipe'[via] = Append(pipe[via], h)
      BY <2>2, <2>5, <3>1, <3>2, AppendIsConcat
    <3>4. Unread(via) \in Seq(Frame)
      BY <2>2, RestIsSeq DEF Unread
    <3>5. SubSeq(pipe'[via], taken[via] + 1, Len(pipe'[via])) = Append(Unread(via), h)
      BY <2>2, <3>2, <3>3, RestOfAppend DEF Unread
    <3>6. queue = Unread(via)
      BY <1>1, <2>1, <3>1, <3>4, ConcatEmptySeq DEF QueueMatchesWire
    <3>7. Append(Unread(via), h) \o <<>> = Append(Unread(via), h)
      BY <3>2, <3>4, AppendProperties, ConcatEmptySeq
    <3>8. Refused' = <<>>
      BY <1>6 DEF Refused
    <3>9. half[via] => pipe'[via][taken[via] + 1] = pipe[via][taken[via] + 1]
      <4>1. half[via] => taken[via] + 1 \in 1..Len(pipe[via])
        BY <1>1, <2>2 DEF FramesKept
      <4> QED
        BY <2>5, <4>1
    <3> QED
      BY <1>1, <1>2, <2>1, <3>1, <3>5, <3>6, <3>7, <3>8, <3>9 DEF QueueMatchesWire, Unread
  <2>9. QueueMatchesWire'
    BY <1>1, <1>2, <1>5, <2>1, <2>8 DEF QueueMatchesWire
  <2> QED
    BY <1>4, <2>6, <2>7, <2>9
<1>7. CASE /\ via \notin closed /\ short' = short \cup {via}
           /\ step' = "written" /\ UNCHANGED pipe
  <2>1. conn = via /\ conn # None
    BY <1>1, <1>7 DEF ConnectionsKept, None
  <2>2. short' \in SUBSET (1..opened) /\ conn \in OutOfStep'
    BY <1>1, <1>7, <2>1 DEF TypeOK, OutOfStep
  <2>3. TypeOK'
    BY <1>2, <1>3, <1>7, <2>2 DEF TypeOK
  <2>4. FramesKept'
    BY <1>2, <1>7 DEF FramesKept
  <2>5. QueueMatchesWire'
    BY <1>2, <1>5, <2>1, <2>2 DEF QueueMatchesWire
  <2> QED
    BY <1>4, <2>3, <2>4, <2>5
<1>8. CASE /\ step' = "refused"
           /\ UNCHANGED <<pipe, short>>
  <2>1. TypeOK'
    BY <1>2, <1>3, <1>8 DEF TypeOK
  <2>2. FramesKept'
    BY <1>2, <1>8 DEF FramesKept
  <2>3. Refused' = <<h>>
    BY <1>2, <1>8 DEF Refused, h
  <2>4. CASE conn = None
    <3>1. queue = <<>>
      BY <1>1, <2>4 DEF QueueMatchesWire
    <3>2. Append(<<>>, h) = <<h>>
      BY <1>1, EmptySeq, AppendIsConcat, ConcatEmptySeq
    <3>3. queue' = Refused'
      BY <1>2, <2>3, <3>1, <3>2
    <3>4. QueueMatchesWire'
      BY <1>2, <1>5, <2>4, <3>3 DEF QueueMatchesWire
    <3> QED
      BY <1>4, <2>1, <2>2, <3>4
  <2>5. CASE conn # None
    <3>1. conn \in Conn
      BY <2>5 DEF TypeOK
    <3>2. Unread(conn) \in Seq(Frame) /\ h \in Frame
      BY <1>1, <3>1, RestIsSeq DEF Unread, TypeOK, Frame
    <3>3. ASSUME conn \notin OutOfStep PROVE queue' = Unread(conn) \o <<h>>
      <4>1. queue = Unread(conn)
        BY <1>1, <2>5, <3>2, <3>3, ConcatEmptySeq DEF QueueMatchesWire
      <4> QED
        BY <1>2, <3>2, <4>1, AppendIsConcat
    <3>4. QueueMatchesWire'
      BY <1>2, <1>5, <1>8, <2>3, <2>5, <3>3 DEF QueueMatchesWire, Unread, OutOfStep
    <3> QED
      BY <1>4, <2>1, <2>2, <3>4
  <2> QED
    BY <2>4, <2>5
<1> QED
  BY <1>6, <1>7, <1>8 DEF Push, h

(* The server executes what it was sent; what it owes stays owed.          *)
LEMMA ServerKeeps ==
    ASSUME PipelineKept, NEW c \in Conn, Execute(c) \/ Drop(c)
    PROVE  PipelineKept'
<1> USE DEF PipelineKept, callers, sender, client, frames, server, history
<1>1. CASE Execute(c)
  <2> USE <1>1 DEF Execute, sockets
  <2>1. served[c] \in Nat /\ Len(pipe[c]) \in Nat /\ served[c] + 1 \in 1..Len(pipe[c])
    BY LenProperties DEF TypeOK
  <2>2. served' = [served EXCEPT ![c] = served[c] + 1]
    OBVIOUS
  <2>3. served' \in [Conn -> Nat]
    BY <2>1, <2>2 DEF TypeOK
  <2>4. executed' \in [Request -> Nat]
    BY DEF TypeOK
  <2>5. TypeOK'
    BY <2>3, <2>4 DEF TypeOK
  <2>6. ConnectionsKept' /\ SenderKept' /\ QueueMatchesWire' /\ RepliesAreOwn'
    BY DEF ConnectionsKept, SenderKept, QueueMatchesWire, Unread, Refused, RepliesAreOwn, OutOfStep
  <2>7. FramesKept'
    <3> SUFFICES ASSUME NEW d \in Conn
                 PROVE  /\ taken[d] <= served'[d]
                        /\ served'[d] <= Len(pipe[d])
                        /\ half[d] => taken[d] < served'[d]
                        /\ d > opened => pipe[d] = <<>>
      BY DEF FramesKept
    <3>1. CASE d = c
      BY <2>1, <2>2, <3>1 DEF FramesKept, TypeOK
    <3>2. CASE d # c
      BY <2>2, <3>2 DEF FramesKept, TypeOK
    <3> QED
      BY <3>1, <3>2
  <2> QED
    BY <2>5, <2>6, <2>7
<1>2. CASE Drop(c)
  <2> USE <1>2 DEF Drop
  <2>1. TypeOK'
    BY DEF TypeOK
  <2>2. ConnectionsKept'
    BY DEF ConnectionsKept
  <2>3. SenderKept' /\ FramesKept' /\ QueueMatchesWire' /\ RepliesAreOwn'
    BY DEF SenderKept, FramesKept, QueueMatchesWire, Unread, Refused, RepliesAreOwn, OutOfStep
  <2> QED
    BY <2>1, <2>2, <2>3
<1> QED
  BY <1>1, <1>2

(* What a loop read was on its way, and it reads the current connection    *)
(* next, if any.                                                           *)
LEMMA ReadsKeep ==
    ASSUME PipelineKept, NEW i \in Loop, NEW c, c = reads[i], Reads(i)
    PROVE  /\ c \in Conn /\ c # None /\ c \in 1..opened /\ (c \notin closed => c = conn)
           /\ pipe[c] \in Seq(Frame) /\ Len(pipe[c]) \in Nat
           /\ taken[c] \in Nat /\ served[c] \in Nat
           /\ taken[c] < served[c] /\ served[c] <= Len(pipe[c])
           /\ half'[c] = ~half[c] /\ taken'[c] = IF half[c] THEN taken[c] + 1 ELSE taken[c]
           /\ \A d \in Conn \ {c} : half'[d] = half[d] /\ taken'[d] = taken[d]
           /\ half' \in [Conn -> BOOLEAN] /\ taken' \in [Conn -> Nat]
           /\ reads' \in [Loop -> Conn \cup {None}]
           /\ UNCHANGED <<chain, step, via, conn, running, opened, closed, up, pipe, served, executed,
                          short>>
           /\ ConnectionsKept' /\ SenderKept' /\ FramesKept'
<1> USE DEF PipelineKept, sender, server, sockets
<1>1. /\ c \in Conn /\ c # None /\ c \in 1..opened /\ (c \notin closed => c = conn)
      /\ i \in Nat /\ i <= c
  BY DEF Reads, ConnectionsKept, TypeOK, Conn, Loop
<1>2. /\ pipe[c] \in Seq(Frame) /\ Len(pipe[c]) \in Nat
      /\ taken[c] \in Nat /\ served[c] \in Nat
      /\ taken[c] < served[c] /\ served[c] <= Len(pipe[c])
  BY <1>1, LenProperties DEF Reads, TypeOK, FramesKept
<1>3. /\ half' = [half EXCEPT ![c] = ~half[c]]
      /\ taken' = [taken EXCEPT ![c] = IF half[c] THEN taken[c] + 1 ELSE taken[c]]
      /\ reads' = [reads EXCEPT ![i] = IF running THEN conn ELSE None]
      /\ UNCHANGED <<chain, step, via, conn, running, opened, closed, up, pipe, served, executed, short>>
  BY DEF Reads
<1>4. /\ half \in [Conn -> BOOLEAN] /\ taken \in [Conn -> Nat] /\ reads \in [Loop -> Conn \cup {None}]
      /\ conn \in Conn \cup {None}
  BY DEF TypeOK
<1>5. /\ half'[c] = ~half[c] /\ taken'[c] = IF half[c] THEN taken[c] + 1 ELSE taken[c]
      /\ \A d \in Conn \ {c} : half'[d] = half[d] /\ taken'[d] = taken[d]
      /\ half' \in [Conn -> BOOLEAN] /\ taken' \in [Conn -> Nat]
      /\ reads' \in [Loop -> Conn \cup {None}]
  BY <1>1, <1>2, <1>3, <1>4
<1>6. ConnectionsKept'
  <2>1. /\ reads'[i] = IF running THEN conn ELSE None
        /\ \A j \in Loop \ {i} : reads'[j] = reads[j]
    BY <1>3, <1>4
  <2>2. conn # None => reads'[conn] = conn
    BY <1>4, <2>1 DEF ConnectionsKept, Loop
  <2>3. \A j \in Loop : reads'[j] # None => j <= reads'[j] /\ reads'[j] <= opened
    <3> SUFFICES ASSUME NEW j \in Loop, reads'[j] # None PROVE j <= reads'[j] /\ reads'[j] <= opened
      OBVIOUS
    <3>1. CASE j = i
      <4>1. reads'[j] = conn /\ conn # None /\ conn = opened
        BY <2>1, <3>1 DEF ConnectionsKept
      <4>2. opened \in Nat /\ c <= opened /\ c \in Nat
        BY <1>1 DEF TypeOK, Conn
      <4> QED
        BY <1>1, <3>1, <4>1, <4>2
    <3>2. CASE j # i
      BY <2>1, <3>2 DEF ConnectionsKept
    <3> QED
      BY <3>1, <3>2
  <2> QED
    BY <1>3, <2>2, <2>3 DEF ConnectionsKept
<1>7. SenderKept'
  BY <1>3 DEF SenderKept
<1>8. FramesKept'
  <2> SUFFICES ASSUME NEW d \in Conn
               PROVE  /\ taken'[d] <= served[d]
                      /\ served[d] <= Len(pipe[d])
                      /\ half'[d] => taken'[d] < served[d]
                      /\ d > opened => pipe[d] = <<>>
    BY <1>3 DEF FramesKept
  <2>1. CASE d = c
    BY <1>1, <1>2, <1>5, <2>1 DEF FramesKept, TypeOK
  <2>2. CASE d # c
    BY <1>5, <2>2 DEF FramesKept
  <2> QED
    BY <2>1, <2>2
<1> QED
  BY <1>1, <1>2, <1>3, <1>5, <1>6, <1>7, <1>8

(* On a connection that is in step the next reply belongs to the head of   *)
(* the queue.                                                              *)
LEMMA ReadingFits ==
    ASSUME PipelineKept, NEW i \in Loop, Reads(i), reads[i] \notin closed, conn \notin OutOfStep
    PROVE  /\ pipe[conn][taken[conn] + 1] \in Request
           /\ queue # <<>> /\ Head(queue) = pipe[conn][taken[conn] + 1]
           /\ Tail(queue) = SubSeq(pipe[conn], (taken[conn] + 1) + 1, Len(pipe[conn])) \o Refused
<1> DEFINE c == conn
           owner == pipe[c][taken[c] + 1]
<1> USE DEF PipelineKept
<1>1. /\ reads[i] = c /\ c \in Conn /\ c # None
      /\ pipe[c] \in Seq(Frame) /\ Len(pipe[c]) \in Nat
      /\ taken[c] \in Nat /\ served[c] \in Nat
      /\ taken[c] < served[c] /\ served[c] <= Len(pipe[c])
  BY ReadsKeep
<1>2. /\ Unread(c) \in Seq(Frame) /\ Unread(c) # <<>> /\ Head(Unread(c)) = owner
      /\ Tail(Unread(c)) = SubSeq(pipe[c], (taken[c] + 1) + 1, Len(pipe[c]))
  <2>1. taken[c] \in 0..(Len(pipe[c]) - 1)
    BY <1>1
  <2> QED
    BY <1>1, <2>1, RestOfNext, RestIsSeq DEF Unread
<1>3. Refused \in Seq(Frame)
  <2>1. CASE step = "refused"
    <3>1. Head(chain) \in Frame
      BY <2>1, HeadTailProperties DEF SenderKept, TypeOK, Frame
    <3>2. <<Head(chain)>> \in Seq(Frame)
      BY <3>1
    <3> QED
      BY <2>1, <3>2 DEF Refused
  <2>2. CASE step # "refused"
    BY <2>2, EmptySeq DEF Refused
  <2> QED
    BY <2>1, <2>2
<1>4. queue = Unread(c) \o Refused
  BY <1>1 DEF QueueMatchesWire
<1>5. queue # <<>> /\ Head(queue) = owner /\ Tail(queue) = Tail(Unread(c)) \o Refused
  BY <1>2, <1>3, <1>4, HeadTailOfConcat
<1>6. Head(queue) \in Request
  BY <1>5, HeadTailProperties DEF TypeOK
<1> QED
  BY <1>2, <1>5, <1>6

(* A frame that is complete settles the entry at the head of the queue.    *)
LEMMA DeliverIs ==
    ASSUME PipelineKept, NEW owner \in Frame, Deliver(owner)
    PROVE  /\ queue' \in Seq(Request) /\ ToSet(queue') \subseteq ToSet(queue)
           /\ outcome' \in [Request -> Outcome] /\ reply' \in [Request -> Frame \cup {NoReply}]
           /\ \A r \in Request :
                \/ outcome'[r] = outcome[r] /\ reply'[r] = reply[r]
                \/ /\ queue # <<>> /\ r = Head(queue) /\ r \in ToSet(queue)
                   /\ outcome[r] = "pending" /\ outcome'[r] = "answered" /\ reply'[r] = owner
<1> USE DEF PipelineKept
<1>1. CASE queue = <<>>
  BY <1>1 DEF Deliver, TypeOK
<1>2. CASE queue # <<>>
  <2> DEFINE h == Head(queue)
  <2>1. queue \in Seq(Request) /\ Len(queue) \in Nat /\ Len(queue) >= 1 /\ h = queue[1] /\ h \in Request
        /\ Tail(queue) \in Seq(Request) /\ Len(Tail(queue)) = Len(queue) - 1
        /\ \A k \in 1..Len(Tail(queue)) : Tail(queue)[k] = queue[k + 1]
    BY <1>2, HeadTailProperties, LenProperties, EmptySeq DEF TypeOK
  <2>2. h \in ToSet(queue)
    BY <2>1 DEF ToSet
  <2>3. ToSet(Tail(queue)) \subseteq ToSet(queue)
    BY <2>1 DEF ToSet
  <2> HIDE DEF h
  <2>4. /\ queue' = Tail(queue)
        /\ IF outcome[h] = "pending"
           THEN /\ outcome' = [outcome EXCEPT ![h] = "answered"]
                /\ reply' = [reply EXCEPT ![h] = owner]
           ELSE UNCHANGED <<outcome, reply>>
    BY <1>2 DEF Deliver, h
  <2>5. outcome \in [Request -> Outcome] /\ reply \in [Request -> Frame \cup {NoReply}]
    BY DEF TypeOK
  <2>6. CASE outcome[h] = "pending"
    BY <1>2, <2>1, <2>2, <2>3, <2>4, <2>5, <2>6 DEF Outcome, h
  <2>7. CASE outcome[h] # "pending"
    BY <1>2, <2>1, <2>2, <2>3, <2>4, <2>5, <2>7 DEF Outcome
  <2> QED
    BY <2>6, <2>7
<1> QED
  BY <1>1, <1>2

(* A fragment read belongs to the request at the head of the queue; the    *)
(* one that completes a reply goes to the caller who asked for it.  Where a*)
(* frame was cut short it may go to another, who is lost.                  *)
LEMMA ReadKeeps ==
    ASSUME PipelineKept, NEW i \in Loop, ReadData(i)
    PROVE  PipelineKept'
<1> DEFINE c == conn
           owner == pipe[c][taken[c] + 1]
           unparsed == Append(buffer, owner)
<1> USE DEF PipelineKept
<1>1. Reads(i) /\ reads[i] \notin closed /\ UNCHANGED <<mixed, lost>>
  BY DEF ReadData
<1>2. /\ reads[i] = c /\ c # None /\ c \in Conn
      /\ pipe[c] \in Seq(Frame) /\ Len(pipe[c]) \in Nat
      /\ taken[c] \in Nat /\ served[c] \in Nat
      /\ taken[c] < served[c] /\ served[c] <= Len(pipe[c])
      /\ half'[c] = ~half[c] /\ taken'[c] = IF half[c] THEN taken[c] + 1 ELSE taken[c]
  BY <1>1, ReadsKeep
<1>3. /\ half' \in [Conn -> BOOLEAN] /\ taken' \in [Conn -> Nat]
      /\ reads' \in [Loop -> Conn \cup {None}]
      /\ UNCHANGED <<chain, step, via, conn, running, opened, closed, up, pipe, served, executed, short>>
      /\ ConnectionsKept' /\ SenderKept' /\ FramesKept'
  BY <1>1, ReadsKeep
<1>4. half \in [Conn -> BOOLEAN] /\ buffer \in Seq(Frame) /\ Len(buffer) \in Nat
  BY LenProperties DEF TypeOK
<1>5. owner \in Frame
  <2>1. taken[c] + 1 \in 1..Len(pipe[c])
    BY <1>2
  <2> QED
    BY <1>2, <2>1, ElementOfSeq
<1>6. c \notin OutOfStep =>
        /\ owner \in Request
        /\ queue # <<>> /\ Head(queue) = owner /\ queue = Unread(c) \o Refused
        /\ Tail(queue) = SubSeq(pipe[c], (taken[c] + 1) + 1, Len(pipe[c])) \o Refused
        /\ buffer = IF half[c] THEN <<owner>> ELSE <<>>
  BY <1>1, <1>2, ReadingFits DEF QueueMatchesWire
<1>7. IF Len(unparsed) = 2
      THEN buffer' = <<>> /\ Deliver(Head(unparsed))
      ELSE buffer' = unparsed /\ UNCHANGED <<queue, outcome, reply>>
  BY <1>2 DEF ReadData
<1>8. UNCHANGED <<Refused, OutOfStep>>
  BY <1>1, <1>3 DEF Refused, OutOfStep
<1>9. /\ unparsed \in Seq(Frame) /\ Len(unparsed) = Len(buffer) + 1
      /\ unparsed[Len(buffer) + 1] = owner
      /\ \A k \in 1..Len(buffer) : unparsed[k] = buffer[k]
  BY <1>4, <1>5, AppendProperties
<1> HIDE DEF c, owner, unparsed
<1>10. CASE Len(unparsed) = 2
  <2> DEFINE told == Head(unparsed)
  <2>1. told \in Frame /\ told = unparsed[1]
    <3>1. unparsed # <<>>
      BY <1>9, <1>10, EmptySeq
    <3> QED
      BY <1>9, <3>1, HeadTailProperties
  <2>2. c \notin OutOfStep => half[c] /\ told = owner
    <3> SUFFICES ASSUME c \notin OutOfStep PROVE half[c] /\ told = owner
      OBVIOUS
    <3>1. Len(buffer) = 1
      <4>1. Len(buffer) + 1 = 2
        BY <1>9, <1>10
      <4>2. \A n \in Nat : n + 1 = 2 => n = 1
        OBVIOUS
      <4> QED
        BY <1>4, <4>1, <4>2, Zenon
    <3>2. told = buffer[1]
      <4>1. 1 \in 1..Len(buffer)
        BY <3>1
      <4> QED
        BY <1>9, <2>1, <4>1
    <3>3. buffer = IF half[c] THEN <<owner>> ELSE <<>>
      BY <1>6
    <3>4. half[c]
      <4>1. ASSUME ~half[c] PROVE FALSE
        <5>1. buffer = <<>>
          BY <3>3, <4>1
        <5> QED
          BY <3>1, <5>1, EmptySeq
      <4> QED
        BY <4>1
    <3>5. buffer = <<owner>>
      BY <3>3, <3>4
    <3> QED
      BY <3>2, <3>4, <3>5
  <2> HIDE DEF told
  <2>3. buffer' = <<>> /\ Deliver(told)
    BY <1>7, <1>10 DEF told
  <2>4. /\ queue' \in Seq(Request) /\ ToSet(queue') \subseteq ToSet(queue)
        /\ outcome' \in [Request -> Outcome] /\ reply' \in [Request -> Frame \cup {NoReply}]
        /\ \A r \in Request :
             \/ outcome'[r] = outcome[r] /\ reply'[r] = reply[r]
             \/ /\ queue # <<>> /\ r = Head(queue) /\ r \in ToSet(queue)
                /\ outcome[r] = "pending" /\ outcome'[r] = "answered" /\ reply'[r] = told
    BY <2>1, <2>3, DeliverIs
  <2>5. TypeOK'
    <3>1. buffer' \in Seq(Frame)
      BY <2>3, EmptySeq
    <3> QED
      BY <1>1, <1>3, <2>4, <3>1 DEF TypeOK
  <2>6. c \notin OutOfStep => queue' = Tail(queue)
    BY <1>6, <2>3 DEF Deliver
  <2>7. QueueMatchesWire'
    <3>1. c \notin OutOfStep => queue' = Unread(c)' \o Refused
      <4> SUFFICES ASSUME c \notin OutOfStep PROVE queue' = Unread(c)' \o Refused
        OBVIOUS
      <4>1. taken'[c] = taken[c] + 1
        BY <1>2, <2>2
      <4> QED
        BY <1>3, <1>6, <2>6, <4>1 DEF Unread, c
    <3>2. c \notin OutOfStep => ~half'[c]
      BY <1>2, <2>2
    <3>3. c \in OutOfStep => ToSet(queue') \subseteq lost'
      BY <1>1, <2>4 DEF QueueMatchesWire, c
    <3> QED
      BY <1>2, <1>3, <1>8, <2>3, <3>1, <3>2, <3>3 DEF QueueMatchesWire, c
  <2>8. RepliesAreOwn'
    <3> SUFFICES ASSUME NEW r \in Request
                 PROVE  /\ reply'[r] \in {r, NoReply} \/ r \in lost'
                        /\ reply'[r] # NoReply <=> outcome'[r] = "answered"
      BY DEF RepliesAreOwn
    <3>1. CASE outcome'[r] = outcome[r] /\ reply'[r] = reply[r]
      BY <1>1, <3>1 DEF RepliesAreOwn
    <3>2. CASE /\ queue # <<>> /\ r = Head(queue) /\ r \in ToSet(queue)
               /\ outcome'[r] = "answered" /\ reply'[r] = told
      <4>1. told # NoReply
        BY <2>1, RequestAssumption DEF Frame
      <4>2. told = r \/ r \in lost
        BY <1>6, <2>2, <3>2 DEF QueueMatchesWire, c
      <4> QED
        BY <1>1, <3>2, <4>1, <4>2
    <3> QED
      BY <2>4, <3>1, <3>2
  <2> QED
    BY <1>3, <2>5, <2>7, <2>8
<1>11. CASE Len(unparsed) # 2
  <2>1. buffer' = unparsed /\ UNCHANGED <<queue, outcome, reply>>
    BY <1>7, <1>11
  <2>2. TypeOK'
    BY <1>1, <1>3, <1>9, <2>1 DEF TypeOK
  <2>3. ASSUME c \notin OutOfStep PROVE ~half[c] /\ unparsed = <<owner>>
    <3>1. ~half[c]
      <4>1. half[c] => Len(buffer) = 1
        BY <1>6, <2>3
      <4> QED
        BY <1>4, <1>9, <1>11, <4>1
    <3>2. buffer = <<>>
      BY <1>6, <2>3, <3>1
    <3> QED
      BY <3>1, <3>2 DEF unparsed
  <2>4. QueueMatchesWire'
    <3>1. c \notin OutOfStep => half'[c] /\ taken'[c] = taken[c]
      BY <1>2, <1>4, <2>3
    <3> QED
      BY <1>1, <1>2, <1>3, <1>6, <1>8, <2>1, <2>3, <3>1 DEF QueueMatchesWire, Unread, c, owner
  <2>5. RepliesAreOwn'
    BY <1>1, <2>1 DEF RepliesAreOwn
  <2> QED
    BY <1>3, <2>2, <2>4, <2>5
<1> QED
  BY <1>10, <1>11

(* What comes late misleads those who wait by then, or is left for the next*)
(* connection: they are lost, and so is whoever uses it.                   *)
LEMMA StrayKeeps ==
    ASSUME PipelineKept, NEW i \in Loop, ReadStray(i)
    PROVE  /\ PipelineKept'
           /\ lost \subseteq lost' /\ lost' \subseteq lost \cup ToSet(queue)
           /\ \A r \in Request : outcome'[r] # outcome[r] =>
                r \in lost' /\ outcome[r] = "pending" /\ outcome'[r] = "answered"
           /\ outcome' \in [Request -> Outcome] /\ UNCHANGED <<chain, step, pipe, server>>
           /\ ToSet(queue') \subseteq ToSet(queue)
<1> DEFINE c == reads[i]
<1> USE DEF PipelineKept
<1>1. Reads(i) /\ c \in closed \cup mixed
  BY DEF ReadStray
<1>2. /\ c \in Conn /\ c # None /\ (c \notin closed => c = conn)
      /\ \A d \in Conn \ {c} : half'[d] = half[d] /\ taken'[d] = taken[d]
      /\ half' \in [Conn -> BOOLEAN] /\ taken' \in [Conn -> Nat]
      /\ reads' \in [Loop -> Conn \cup {None}]
      /\ UNCHANGED <<chain, step, via, conn, running, opened, closed, up, pipe, served, executed, short>>
      /\ ConnectionsKept' /\ SenderKept' /\ FramesKept'
  BY <1>1, ReadsKeep
<1>3. PICK n \in 0..Len(queue), rest \in {<<>>, <<Garbage>>} :
         /\ buffer # <<>> => rest = <<Garbage>>
         /\ Misdeliver(n)
         /\ buffer' = rest
         /\ IF n = 0 /\ rest = <<>>
            THEN UNCHANGED <<mixed, lost>>
            ELSE mixed' = (mixed \cup {conn}) \ {None} /\ lost' = lost \cup ToSet(queue)
  BY DEF ReadStray
<1> DEFINE first == SubSeq(queue, 1, n)
           told == {r \in ToSet(first) : outcome[r] = "pending"}
<1>4. queue \in Seq(Request) /\ Len(queue) \in Nat /\ n \in Nat
      /\ \A k \in 1..Len(queue) : queue[k] \in Request
  BY LenProperties, ElementOfSeq DEF TypeOK
<1>5. first \in Seq(Request) /\ ToSet(first) \subseteq ToSet(queue)
  <2>1. /\ first \in Seq(Request)
        /\ Len(first) = IF 1 <= n THEN n - 1 + 1 ELSE 0
        /\ \A k \in 1..(n - 1 + 1) : first[k] = queue[1 + k - 1]
    BY <1>4, SubSeqProperties
  <2> HIDE DEF first
  <2>2. \A k \in 1..Len(first) : k \in 1..Len(queue) /\ first[k] = queue[k]
    BY <1>4, <2>1
  <2> QED
    BY <1>4, <2>1, <2>2 DEF ToSet
<1>6. n = 0 => first = <<>>
  BY SubSeqEmpty
<1>7. queue' \in Seq(Request) /\ ToSet(queue') \subseteq ToSet(queue) /\ (n = 0 => queue' = queue)
  <2>1. queue' = SubSeq(queue, n + 1, Len(queue))
    BY <1>3 DEF Misdeliver
  <2>2. queue' \in Seq(Request)
    BY <1>4, <2>1, RestIsSeq
  <2>3. /\ Len(queue') = IF n + 1 <= Len(queue) THEN Len(queue) - (n + 1) + 1 ELSE 0
        /\ \A k \in 1..(Len(queue) - (n + 1) + 1) : queue'[k] = queue[n + 1 + k - 1]
    BY <1>4, <2>1, SubSeqProperties
  <2>4. \A k \in 1..Len(queue') : n + k \in 1..Len(queue) /\ queue'[k] = queue[n + k]
    BY <1>3, <1>4, <2>3
  <2>5. ToSet(queue') \subseteq ToSet(queue)
    BY <1>4, <2>2, <2>4 DEF ToSet
  <2>6. n = 0 => queue' = queue
    <3>1. n = 0 => Len(queue') = Len(queue)
      BY <1>4, <2>3
    <3> QED
      BY <1>4, <2>2, <2>4, <3>1, SeqEqual
  <2> QED
    BY <2>2, <2>5, <2>6
<1> HIDE DEF first
<1>8. /\ outcome' = [r \in Request |-> IF r \in told THEN "answered" ELSE outcome[r]]
      /\ reply' = [r \in Request |-> IF r \in told THEN Garbage ELSE reply[r]]
  BY <1>3 DEF Misdeliver, first
<1>9. /\ lost \subseteq lost' /\ lost' \subseteq lost \cup ToSet(queue) /\ told \subseteq lost'
      /\ ToSet(queue) \subseteq Request
  <2>1. n = 0 => told = {}
    BY <1>6 DEF ToSet
  <2>2. ToSet(queue) \subseteq Request
    BY <1>4 DEF ToSet
  <2> QED
    BY <1>3, <1>5, <2>1, <2>2
<1>10. TypeOK'
  <2>1. buffer' \in Seq(Frame)
    <3>1. Garbage \in Frame /\ <<>> \in Seq(Frame)
      BY EmptySeq DEF Frame
    <3>2. <<Garbage>> \in Seq(Frame)
      BY <3>1
    <3> QED
      BY <1>3, <3>1, <3>2
  <2>2. outcome' \in [Request -> Outcome] /\ reply' \in [Request -> Frame \cup {NoReply}]
    BY <1>8 DEF TypeOK, Outcome, Frame
  <2>3. short' \in SUBSET (1..opened') /\ mixed' \in SUBSET (1..opened')
    <3>1. conn # None => conn \in 1..opened
      BY DEF ConnectionsKept, TypeOK, Conn, None
    <3>2. short \in SUBSET (1..opened) /\ mixed \in SUBSET (1..opened)
      BY DEF TypeOK
    <3>3. UNCHANGED <<opened, short>>
      BY <1>2
    <3>4. mixed' = mixed \/ mixed' = (mixed \cup {conn}) \ {None}
      BY <1>3
    <3> QED
      BY <3>1, <3>2, <3>3, <3>4
  <2>4. lost' \in SUBSET Request
    BY <1>9 DEF TypeOK
  <2> QED
    BY <1>2, <1>7, <2>1, <2>2, <2>3, <2>4 DEF TypeOK
<1>11. RepliesAreOwn'
  <2> SUFFICES ASSUME NEW r \in Request
               PROVE  /\ reply'[r] \in {r, NoReply} \/ r \in lost'
                      /\ reply'[r] # NoReply <=> outcome'[r] = "answered"
    BY DEF RepliesAreOwn
  <2>1. CASE r \in told
    BY <1>8, <1>9, <2>1, RequestAssumption
  <2>2. CASE r \notin told
    BY <1>8, <1>9, <2>2 DEF RepliesAreOwn
  <2> QED
    BY <2>1, <2>2
<1>12. QueueMatchesWire'
  <2>1. Refused' = Refused
    BY <1>2 DEF Refused
  <2>2. None \notin OutOfStep /\ None \notin OutOfStep'
    BY <1>10 DEF TypeOK, OutOfStep, None
  <2>3. CASE n = 0 /\ rest = <<>>
    <3>1. UNCHANGED <<buffer, queue, mixed, lost, conn, OutOfStep>>
      BY <1>2, <1>3, <1>7, <2>3 DEF OutOfStep
    <3>2. conn # None /\ conn \notin OutOfStep => conn # c
      BY <1>1 DEF ConnectionsKept, OutOfStep
    <3>3. conn # None /\ conn \notin OutOfStep =>
            half'[conn] = half[conn] /\ taken'[conn] = taken[conn]
      BY <1>2, <3>2 DEF TypeOK
    <3> QED
      BY <1>2, <2>1, <3>1, <3>3 DEF QueueMatchesWire, Unread
  <2>4. CASE ~(n = 0 /\ rest = <<>>)
    <3>1. lost' = lost \cup ToSet(queue) /\ (conn # None => conn \in OutOfStep')
      BY <1>3, <2>4 DEF OutOfStep
    <3>2. conn = None => queue' = <<>> \/ queue' = Refused
      <4> SUFFICES ASSUME conn = None PROVE queue' = <<>> \/ queue' = Refused
        OBVIOUS
      <4>1. queue = <<>> \/ queue = Refused
        BY DEF QueueMatchesWire
      <4>2. Len(queue) \in {0, 1}
        BY <4>1, EmptySeq DEF Refused
      <4>3. n = 0 \/ n = Len(queue)
        BY <1>4, <4>2
      <4>4. n = Len(queue) => queue' = <<>>
        BY <1>3, <1>4, SubSeqEmpty DEF Misdeliver
      <4> QED
        BY <1>7, <4>1, <4>3, <4>4
    <3> QED
      BY <1>2, <1>3, <1>7, <2>1, <2>2, <3>1, <3>2 DEF QueueMatchesWire
  <2> QED
    BY <2>3, <2>4
<1>13. \A r \in Request : outcome'[r] # outcome[r] =>
         r \in lost' /\ outcome[r] = "pending" /\ outcome'[r] = "answered"
  BY <1>8, <1>9
<1>14. outcome' \in [Request -> Outcome] /\ UNCHANGED <<chain, step, pipe, server>>
  BY <1>2, <1>10 DEF TypeOK, server
<1> QED
  BY <1>2, <1>7, <1>9, <1>10, <1>11, <1>12, <1>13, <1>14

(* Every step of callers, client, sockets and server keeps it.             *)
LEMMA NextKeeps == PipelineKept /\ [Next]_vars => PipelineKept'
<1> SUFFICES ASSUME PipelineKept, [Next]_vars PROVE PipelineKept'
  OBVIOUS
<1>1. CASE UNCHANGED vars
  BY <1>1 DEF vars, callers, sender, client, sockets, frames, server, PipelineKept, TypeOK,
     ConnectionsKept, SenderKept, FramesKept, QueueMatchesWire, Unread, Refused, RepliesAreOwn, OutOfStep,
     history
<1> QED
  BY <1>1, CallerKeeps, DroppingKeeps, ChainKeeps, ConnectKeeps, PushKeeps, ServerKeeps, ReadKeeps,
     StrayKeeps DEF Next

(* However connections come and go and callers give up, replies and callers*)
(* get out of step only on a connection on which a frame was cut short or  *)
(* late bytes were read, and only for those who wait on it: every other    *)
(* caller is told its own reply or none (request(), readLoop() and         *)
(* disconnect() of dmoz-client.ts).                                        *)
THEOREM RepliesStayInStep == Spec => []PipelineKept
BY InitKept, NextKeeps, PTL DEF Spec

-----------------------------------------------------------------------------
(* No request is anywhere twice.                                           *)

Sent(frame, r) == \E c \in Conn : \E i \in 1..Len(frame[c]) : frame[c][i] = r

(* Requests wait, were sent or are lost because somebody asked.            *)
OnlyAsked ==
    /\ \A i \in 1..Len(chain) : outcome[chain[i]] # "idle"
    /\ \A r \in Request :
         Sent(pipe, r) \/ r \in ToSet(queue) \/ r \in lost => outcome[r] # "idle"

(* A request waits once and is sent once, then it waits for the write.     *)
WaitingOnce ==
    /\ \A i, j \in 1..Len(chain) : chain[i] = chain[j] => i = j
    /\ \A i \in 1..Len(chain) : Sent(pipe, chain[i]) => i = 1 /\ step = "written"

SentOnce ==
    \A c, d \in Conn : \A i \in 1..Len(pipe[c]), j \in 1..Len(pipe[d]) :
      pipe[c][i] \in Request /\ pipe[c][i] = pipe[d][j] => c = d /\ i = j

(* What was served was executed once, and nothing else was.                *)
ExecutedOnce ==
    /\ \A c \in Conn : \A i \in 1..Len(pipe[c]) :
         pipe[c][i] \in Request => executed[pipe[c][i]] = IF i <= served[c] THEN 1 ELSE 0
    /\ \A r \in Request : ~Sent(pipe, r) => executed[r] = 0

IInv ==
    /\ PipelineKept
    /\ OnlyAsked
    /\ WaitingOnce
    /\ SentOnce
    /\ ExecutedOnce

(* Nothing was asked at first.                                             *)
LEMMA InitInvariant == Init => IInv
<1> SUFFICES ASSUME Init PROVE IInv
  OBVIOUS
<1>1. Len(chain) = 0 /\ Len(queue) = 0 /\ \A c \in Conn : Len(pipe[c]) = 0
  BY EmptySeq DEF Init
<1>2. 1..0 = {}
  OBVIOUS
<1>3. \A r \in Request : executed[r] = 0 /\ r \notin lost
  BY DEF Init
<1>4. ToSet(queue) = {}
  BY <1>1, <1>2 DEF ToSet
<1> QED
  BY <1>1, <1>2, <1>3, <1>4, InitKept DEF IInv, OnlyAsked, WaitingOnce, SentOnce, ExecutedOnce, Sent

(* Steps that send and execute nothing.                                    *)
LEMMA NothingSent ==
    ASSUME IInv, PipelineKept', UNCHANGED <<chain, pipe, server>>,
           \A r \in Request : outcome[r] # "idle" => outcome'[r] # "idle",
           \A r \in Request : r \in ToSet(queue') \/ r \in lost' => outcome[r] # "idle",
           step = "written" => step' = "written"
    PROVE  IInv'
<1> USE DEF IInv, server
<1>1. \A r \in Request : Sent(pipe', r) = Sent(pipe, r)
  BY DEF Sent
<1>2. \A i \in 1..Len(chain) : chain[i] \in Request
  BY ElementOfSeq DEF PipelineKept, TypeOK
<1>3. OnlyAsked'
  BY <1>1, <1>2 DEF OnlyAsked
<1>4. WaitingOnce'
  BY <1>1, <1>2 DEF WaitingOnce
<1>5. SentOnce'
  BY DEF SentOnce
<1>6. ExecutedOnce'
  BY <1>1 DEF ExecutedOnce
<1> QED
  BY <1>3, <1>4, <1>5, <1>6

(* The chain goes on to the next request.                                  *)
LEMMA ChainGoesOn ==
    ASSUME IInv, PipelineKept', chain # <<>>, chain' = Tail(chain), UNCHANGED <<pipe, server>>,
           \A r \in Request : outcome[r] # "idle" => outcome'[r] # "idle",
           \A r \in Request : r \in ToSet(queue') \/ r \in lost' => outcome[r] # "idle"
    PROVE  IInv'
<1> USE DEF IInv, server
<1>1. \A r \in Request : Sent(pipe', r) = Sent(pipe, r)
  BY DEF Sent
<1>2. \A i \in 1..Len(chain) : chain[i] \in Request
  BY ElementOfSeq DEF PipelineKept, TypeOK
<1>3. /\ Len(chain) \in Nat /\ Len(chain') = Len(chain) - 1
      /\ \A i \in 1..Len(chain') : chain'[i] = chain[i + 1]
  BY HeadTailProperties, LenProperties DEF PipelineKept, TypeOK
<1>4. \A i \in 1..Len(chain') : i + 1 \in 1..Len(chain) /\ i + 1 # 1
  BY <1>3
<1>5. OnlyAsked'
  BY <1>1, <1>2, <1>3, <1>4 DEF OnlyAsked
<1>6. WaitingOnce'
  <2>1. \A i, j \in 1..Len(chain') : chain'[i] = chain'[j] => i + 1 = j + 1
    BY <1>3, <1>4 DEF WaitingOnce
  <2>2. \A i, j \in 1..Len(chain') : i + 1 = j + 1 => i = j
    BY <1>3
  <2>3. \A i \in 1..Len(chain') : ~Sent(pipe', chain'[i])
    BY <1>1, <1>2, <1>3, <1>4 DEF WaitingOnce
  <2> QED
    BY <2>1, <2>2, <2>3 DEF WaitingOnce
<1>7. SentOnce'
  BY DEF SentOnce
<1>8. ExecutedOnce'
  BY <1>1 DEF ExecutedOnce
<1> QED
  BY <1>5, <1>6, <1>7, <1>8

(* A lost connection only fails requests that were pending, and then nobody*)
(* waits on it.                                                            *)
LEMMA DisconnectFails ==
    ASSUME PipelineKept, NEW failing, Disconnect(failing)
    PROVE  /\ outcome' \in [Request -> Outcome]
           /\ \A r \in Request :
                outcome'[r] # outcome[r] => outcome[r] = "pending" /\ outcome'[r] = "failed"
           /\ ToSet(queue') = {}
<1>1. Len(<<>>) = 0 /\ 1..0 = {}
  BY EmptySeq
<1>2. ToSet(<<>>) = {}
  BY <1>1 DEF ToSet
<1> QED
  BY <1>2 DEF Disconnect, PipelineKept, TypeOK, Outcome

(* A request asked now was neither asked nor sent before.                  *)
LEMMA CallOnce ==
    ASSUME IInv, PipelineKept', NEW r \in Request, Call(r)
    PROVE  IInv'
<1> USE DEF IInv, server, frames
<1>1. /\ outcome[r] = "idle" /\ outcome' = [outcome EXCEPT ![r] = "pending"]
      /\ chain' = Append(chain, r) /\ UNCHANGED <<step, pipe, server, queue, lost>>
  BY DEF Call, client, history
<1>2. /\ Len(chain) \in Nat /\ Len(chain') = Len(chain) + 1 /\ chain'[Len(chain) + 1] = r
      /\ \A i \in 1..Len(chain) : chain'[i] = chain[i] /\ chain[i] \in Request
  <2>1. chain \in Seq(Request)
    BY DEF PipelineKept, TypeOK
  <2>2. Len(chain) \in Nat /\ \A i \in 1..Len(chain) : chain[i] \in Request
    BY <2>1, LenProperties, ElementOfSeq
  <2> QED
    BY <1>1, <2>1, <2>2, AppendProperties
<1>3. ~Sent(pipe, r) /\ \A i \in 1..Len(chain) : chain[i] # r
  BY <1>1 DEF OnlyAsked
<1>4. \A q \in Request : Sent(pipe', q) = Sent(pipe, q)
  BY <1>1 DEF Sent
<1>5. \A i \in 1..Len(chain') : i \in 1..Len(chain) \/ i = Len(chain) + 1
  BY <1>2
<1>6. \A q \in Request : outcome'[q] = IF q = r THEN "pending" ELSE outcome[q]
  BY <1>1 DEF PipelineKept, TypeOK
<1>7. OnlyAsked'
  BY <1>1, <1>2, <1>4, <1>5, <1>6 DEF OnlyAsked
<1>8. WaitingOnce'
  <2>1. \A i, j \in 1..Len(chain') : chain'[i] = chain'[j] => i = j
    BY <1>2, <1>3, <1>5 DEF WaitingOnce
  <2>2. \A i \in 1..Len(chain') : Sent(pipe', chain'[i]) => i = 1 /\ step' = "written"
    BY <1>1, <1>2, <1>3, <1>4, <1>5 DEF WaitingOnce
  <2> QED
    BY <2>1, <2>2 DEF WaitingOnce
<1>9. SentOnce'
  BY <1>1 DEF SentOnce
<1>10. ExecutedOnce'
  BY <1>1, <1>4 DEF ExecutedOnce
<1> QED
  BY <1>7, <1>8, <1>9, <1>10

(* What one write makes the server read is one frame more, or none: the    *)
(* request of that write, or nobody's.                                     *)
LEMMA PushWrites ==
    ASSUME PipelineKept, Push
    PROVE  \/ UNCHANGED pipe
           \/ /\ step' = "written"
              /\ \E f \in Frame :
                   /\ f = Head(chain) \/ f \notin Request
                   /\ Len(pipe'[via]) = Len(pipe[via]) + 1
                   /\ pipe'[via][Len(pipe[via]) + 1] = f
                   /\ \A i \in 1..Len(pipe[via]) : pipe'[via][i] = pipe[via][i]
                   /\ \A d \in Conn \ {via} : pipe'[d] = pipe[d]
<1> DEFINE h == Head(chain)
<1> USE DEF PipelineKept
<1>1. chain # <<>> /\ chain \in Seq(Request) /\ via \in 1..opened
  BY DEF Push, SenderKept, TypeOK
<1>2. h \in Request /\ via \in Conn /\ pipe[via] \in Seq(Frame) /\ Len(pipe[via]) \in Nat
  <2>1. h \in Request
    BY <1>1, HeadTailProperties
  <2>2. via \in Conn
    BY <1>1 DEF TypeOK, Conn, None
  <2>3. pipe[via] \in Seq(Frame)
    BY <2>2 DEF TypeOK
  <2> QED
    BY <2>1, <2>2, <2>3, LenProperties
<1> HIDE DEF h
<1> SUFFICES ASSUME ~ UNCHANGED pipe
             PROVE  /\ step' = "written"
                    /\ \E f \in Frame :
                         /\ f = h \/ f \notin Request
                         /\ Len(pipe'[via]) = Len(pipe[via]) + 1
                         /\ pipe'[via][Len(pipe[via]) + 1] = f
                         /\ \A i \in 1..Len(pipe[via]) : pipe'[via][i] = pipe[via][i]
                         /\ \A d \in Conn \ {via} : pipe'[d] = pipe[d]
  BY DEF h
<1>3. step' = "written" /\ \E read \in Framed(h) : pipe' = [pipe EXCEPT ![via] = pipe[via] \o read]
  BY DEF Push, h
<1>4. PICK read \in Framed(h) : pipe' = [pipe EXCEPT ![via] = pipe[via] \o read]
  BY <1>3
<1>5. pipe'[via] = pipe[via] \o read /\ \A d \in Conn \ {via} : pipe'[d] = pipe[d]
  BY <1>2, <1>4 DEF TypeOK
<1>6. read # <<>>
  <2> SUFFICES ASSUME read = <<>> PROVE FALSE
    OBVIOUS
  <2>1. pipe[via] \o read = pipe[via]
    BY <1>2, ConcatEmptySeq
  <2> QED
    BY <1>2, <1>4, <2>1 DEF TypeOK
<1>7. PICK f \in Frame : read = <<f>> /\ (f = h \/ f \notin Request)
  BY <1>2, <1>6, RequestAssumption DEF Framed, Frame
<1>8. read \in Seq(Frame) /\ Len(read) = 1 /\ read[1] = f
  BY <1>7
<1>9. /\ Len(pipe[via] \o read) = Len(pipe[via]) + 1
      /\ \A i \in 1..(Len(pipe[via]) + 1) :
           (pipe[via] \o read)[i] = IF i <= Len(pipe[via]) THEN pipe[via][i]
                                    ELSE read[i - Len(pipe[via])]
  <2>1. /\ pipe[via] \o read \in Seq(Frame)
        /\ Len(pipe[via] \o read) = Len(pipe[via]) + Len(read)
        /\ \A i \in 1..(Len(pipe[via]) + Len(read)) :
             (pipe[via] \o read)[i] = IF i <= Len(pipe[via]) THEN pipe[via][i]
                                      ELSE read[i - Len(pipe[via])]
    BY <1>2, <1>8, ConcatProperties
  <2> QED
    BY <1>8, <2>1
<1>10. /\ \A i \in 1..Len(pipe[via]) : i \in 1..(Len(pipe[via]) + 1) /\ i <= Len(pipe[via])
       /\ Len(pipe[via]) + 1 \in 1..(Len(pipe[via]) + 1)
       /\ ~(Len(pipe[via]) + 1 <= Len(pipe[via]))
       /\ Len(pipe[via]) + 1 - Len(pipe[via]) = 1
  BY <1>2
<1>11. (pipe[via] \o read)[Len(pipe[via]) + 1] = f
  BY <1>8, <1>9, <1>10
<1> QED
  BY <1>3, <1>5, <1>7, <1>9, <1>10, <1>11

(* A request sent now was not sent before.                                 *)
LEMMA PushOnce ==
    ASSUME IInv, PipelineKept', Push
    PROVE  /\ IInv'
           /\ lost \subseteq lost' /\ \A r \in lost' : outcome[r] # "idle"
<1> DEFINE h == Head(chain)
           c == via
<1> USE DEF IInv, server, callers
<1>1. /\ chain \in Seq(Request) /\ Len(chain) \in Nat \ {0} /\ h = chain[1] /\ h \in Request
      /\ via \in Conn /\ step = "push"
  <2>1. chain # <<>> /\ chain \in Seq(Request) /\ via \in 1..opened /\ step = "push"
    BY DEF Push, SenderKept, TypeOK, PipelineKept
  <2>2. Len(chain) \in Nat \ {0} /\ h = chain[1] /\ h \in Request
    BY <2>1, EmptySeq, HeadTailProperties
  <2>3. via \in Conn
    BY <2>1 DEF TypeOK, PipelineKept, Conn, None
  <2> QED
    BY <2>1, <2>2, <2>3
<1>2. UNCHANGED <<chain, outcome, served, executed>>
  BY DEF Push
<1>3. ~Sent(pipe, h) /\ outcome[h] # "idle"
  BY <1>1 DEF WaitingOnce, OnlyAsked
<1>4. /\ lost \subseteq lost' /\ lost' \subseteq lost \cup ToSet(queue')
      /\ ToSet(queue') \subseteq ToSet(queue) \cup {h}
  <2>1. queue' = Append(queue, h) /\ (lost' = lost \/ lost' = lost \cup ToSet(queue'))
    BY DEF Push
  <2>2. queue \in Seq(Request) /\ Len(queue) \in Nat
    BY LenProperties DEF PipelineKept, TypeOK
  <2>3. /\ Len(queue') = Len(queue) + 1 /\ queue'[Len(queue) + 1] = h
        /\ \A i \in 1..Len(queue) : queue'[i] = queue[i]
    BY <1>1, <2>1, <2>2, AppendProperties
  <2>4. \A i \in 1..Len(queue') : i \in 1..Len(queue) \/ i = Len(queue) + 1
    BY <2>2, <2>3
  <2>5. ToSet(queue') \subseteq ToSet(queue) \cup {h}
    BY <2>3, <2>4 DEF ToSet
  <2> QED
    BY <2>1, <2>5
<1>5. \A r \in Request : r \in ToSet(queue') \/ r \in lost' => outcome[r] # "idle"
  BY <1>3, <1>4 DEF OnlyAsked
<1>6. \A r \in lost' : outcome[r] # "idle"
  BY <1>5 DEF PipelineKept, TypeOK
<1> HIDE DEF h, c
<1>7. ASSUME step' = "written", NEW f \in Frame, f = h \/ f \notin Request,
             Len(pipe'[c]) = Len(pipe[c]) + 1, pipe'[c][Len(pipe[c]) + 1] = f,
             \A i \in 1..Len(pipe[c]) : pipe'[c][i] = pipe[c][i],
             \A d \in Conn \ {c} : pipe'[d] = pipe[d]
      PROVE  IInv'
  <2> DEFINE n == Len(pipe[c])
  <2>1. n \in Nat /\ c \in Conn
    BY <1>1, LenProperties DEF PipelineKept, TypeOK, c
  <2>2. served[c] \in Nat /\ served[c] <= n
    BY <1>1 DEF PipelineKept, TypeOK, FramesKept, c
  <2>3. \A d \in Conn : \A i \in 1..Len(pipe'[d]) :
          \/ d = c /\ i = n + 1 /\ pipe'[d][i] = f
          \/ i \in 1..Len(pipe[d]) /\ pipe'[d][i] = pipe[d][i]
    <3> SUFFICES ASSUME NEW d \in Conn, NEW i \in 1..Len(pipe'[d])
                 PROVE  \/ d = c /\ i = n + 1 /\ pipe'[d][i] = f
                        \/ i \in 1..Len(pipe[d]) /\ pipe'[d][i] = pipe[d][i]
      OBVIOUS
    <3>1. CASE d = c
      <4>1. i \in 1..n \/ i = n + 1
        BY <1>7, <2>1, <3>1
      <4> QED
        BY <1>7, <3>1, <4>1
    <3>2. CASE d # c
      BY <1>7, <3>2
    <3> QED
      BY <3>1, <3>2
  <2>4. \A d \in Conn : \A i \in 1..Len(pipe[d]) :
          i \in 1..Len(pipe'[d]) /\ pipe'[d][i] = pipe[d][i]
    <3> SUFFICES ASSUME NEW d \in Conn, NEW i \in 1..Len(pipe[d])
                 PROVE  i \in 1..Len(pipe'[d]) /\ pipe'[d][i] = pipe[d][i]
      OBVIOUS
    <3>1. CASE d = c
      <4>1. i \in 1..(n + 1)
        BY <2>1, <3>1
      <4> QED
        BY <1>7, <3>1, <4>1
    <3>2. CASE d # c
      BY <1>7, <3>2
    <3> QED
      BY <3>1, <3>2
  <2>5. n + 1 \in 1..Len(pipe'[c]) /\ pipe'[c][n + 1] = f
    BY <1>7, <2>1
  <2> HIDE DEF n
  <2>6. \A r \in Request : Sent(pipe', r) <=> (r = f \/ Sent(pipe, r))
    <3>1. ASSUME NEW r \in Request, Sent(pipe', r) PROVE r = f \/ Sent(pipe, r)
      BY <2>3, <3>1 DEF Sent
    <3>2. ASSUME NEW r \in Request, Sent(pipe, r) PROVE Sent(pipe', r)
      BY <2>4, <3>2 DEF Sent
    <3>3. Sent(pipe', f)
      BY <2>1, <2>5 DEF Sent
    <3> QED
      BY <3>1, <3>2, <3>3
  <2>7. \A i \in 1..Len(chain) : chain[i] \in Request
    BY <1>1, ElementOfSeq
  <2>8. OnlyAsked'
    BY <1>2, <1>3, <1>5, <1>7, <2>6, <2>7 DEF OnlyAsked
  <2>9. WaitingOnce'
    <3>1. \A i \in 1..Len(chain) : Sent(pipe', chain[i]) => i = 1
      <4> SUFFICES ASSUME NEW i \in 1..Len(chain), Sent(pipe', chain[i]) PROVE i = 1
        OBVIOUS
      <4>1. chain[i] = h \/ Sent(pipe, chain[i])
        BY <1>7, <2>6, <2>7
      <4>2. 1 \in 1..Len(chain)
        BY <1>1
      <4> QED
        BY <1>1, <4>1, <4>2 DEF WaitingOnce
    <3> QED
      BY <1>2, <1>7, <3>1 DEF WaitingOnce
  <2>10. SentOnce'
    <3>1. f \in Request => \A d \in Conn : \A i \in 1..Len(pipe[d]) : pipe[d][i] # f
      BY <1>3, <1>7 DEF Sent
    <3> QED
      BY <2>3, <3>1 DEF SentOnce
  <2>11. ExecutedOnce'
    <3>1. (f \in Request => executed[f] = 0) /\ ~(n + 1 <= served[c])
      BY <1>1, <1>3, <1>7, <2>1, <2>2 DEF ExecutedOnce
    <3>2. \A d \in Conn : \A i \in 1..Len(pipe'[d]) :
            pipe'[d][i] \in Request =>
              executed[pipe'[d][i]] = IF i <= served[d] THEN 1 ELSE 0
      <4> SUFFICES ASSUME NEW d \in Conn, NEW i \in 1..Len(pipe'[d]), pipe'[d][i] \in Request
                   PROVE  executed[pipe'[d][i]] = IF i <= served[d] THEN 1 ELSE 0
        OBVIOUS
      <4>1. CASE d = c /\ i = n + 1 /\ pipe'[d][i] = f
        BY <3>1, <4>1
      <4>2. CASE i \in 1..Len(pipe[d]) /\ pipe'[d][i] = pipe[d][i]
        BY <4>2 DEF ExecutedOnce
      <4> QED
        BY <2>3, <4>1, <4>2
    <3> QED
      BY <1>2, <2>6, <3>2 DEF ExecutedOnce
  <2> QED
    BY <2>8, <2>9, <2>10, <2>11
<1>8. ASSUME UNCHANGED pipe PROVE IInv'
  BY <1>1, <1>2, <1>5, <1>8, NothingSent
<1>9. IInv'
  BY <1>7, <1>8, PushWrites DEF h, c
<1> QED
  BY <1>4, <1>6, <1>9

(* A request executed now was not executed before.                         *)
LEMMA ExecuteOnce ==
    ASSUME IInv, PipelineKept', NEW c \in Conn, Execute(c)
    PROVE  /\ IInv' /\ UNCHANGED <<outcome, lost>>
           /\ \/ UNCHANGED executed
              \/ \E r \in Request : /\ outcome[r] # "idle" /\ executed[r] = 0
                                    /\ executed' = [executed EXCEPT ![r] = 1]
<1> DEFINE n == served[c] + 1
           frame == pipe[c][n]
<1> USE DEF IInv, callers, sender, frames
<1>1. pipe[c] \in Seq(Frame) /\ served[c] \in Nat /\ n \in 1..Len(pipe[c])
  <2>1. pipe[c] \in Seq(Frame) /\ Len(pipe[c]) \in Nat /\ served[c] \in Nat
        /\ served[c] < Len(pipe[c])
    BY LenProperties DEF Execute, PipelineKept, TypeOK
  <2> QED
    BY <2>1
<1>2. frame \in Request => executed[frame] = 0 /\ outcome[frame] # "idle"
  <2>1. ~(n <= served[c])
    BY <1>1
  <2>2. Sent(pipe, frame)
    BY <1>1 DEF Sent
  <2> QED
    BY <1>1, <2>1, <2>2 DEF ExecutedOnce, OnlyAsked
<1>3. /\ served' = [served EXCEPT ![c] = n]
      /\ executed' = [r \in Request |-> IF r = frame THEN executed[r] + 1 ELSE executed[r]]
      /\ UNCHANGED <<outcome, chain, step, pipe, queue, lost>>
  BY DEF Execute, client, history
<1> HIDE DEF frame
<1>4. \A q \in Request : executed'[q] = IF q = frame THEN 1 ELSE executed[q]
  BY <1>2, <1>3
<1>5. executed \in [Request -> Nat]
  BY DEF PipelineKept, TypeOK
<1>6. \/ UNCHANGED executed
      \/ \E r \in Request : /\ outcome[r] # "idle" /\ executed[r] = 0
                            /\ executed' = [executed EXCEPT ![r] = 1]
  <2>1. CASE frame \in Request
    <3>1. executed' = [executed EXCEPT ![frame] = 1]
      <4> DEFINE once == [executed EXCEPT ![frame] = 1]
      <4>0. executed' \in [Request -> Nat]
        BY DEF PipelineKept, TypeOK
      <4>1. executed' \in [Request -> Nat] /\ once \in [Request -> Nat]
        BY <1>5, <4>0
      <4>2. \A q \in Request : executed'[q] = once[q]
        BY <1>4, <1>5
      <4> HIDE DEF once
      <4>3. executed' = once
        BY <4>1, <4>2
      <4> QED
        BY <4>3 DEF once
    <3> QED
      BY <1>2, <2>1, <3>1
  <2>2. CASE frame \notin Request
    BY <1>3, <1>5, <2>2
  <2> QED
    BY <2>1, <2>2
<1>7. \A d \in Conn : served'[d] = IF d = c THEN n ELSE served[d]
  BY <1>3 DEF PipelineKept, TypeOK
<1>8. \A q \in Request : Sent(pipe', q) = Sent(pipe, q)
  BY <1>3 DEF Sent
<1>9. OnlyAsked' /\ WaitingOnce' /\ SentOnce'
  <2>1. \A i \in 1..Len(chain) : chain[i] \in Request
    BY ElementOfSeq DEF PipelineKept, TypeOK
  <2> QED
    BY <1>3, <1>8, <2>1 DEF OnlyAsked, WaitingOnce, SentOnce
<1>10. ExecutedOnce'
  <2>1. ASSUME NEW d \in Conn, NEW i \in 1..Len(pipe[d]), pipe[d][i] \in Request
        PROVE  executed'[pipe[d][i]] = IF i <= served'[d] THEN 1 ELSE 0
    <3>1. CASE d = c /\ i = n
      BY <1>1, <1>4, <1>7, <2>1, <3>1 DEF frame
    <3>2. CASE ~(d = c /\ i = n)
      <4>1. pipe[d][i] # frame
        BY <1>1, <2>1, <3>2 DEF SentOnce, frame
      <4>2. executed'[pipe[d][i]] = IF i <= served[d] THEN 1 ELSE 0
        BY <1>4, <2>1, <4>1 DEF ExecutedOnce
      <4>3. i <= served'[d] <=> i <= served[d]
        <5>1. CASE d = c
          BY <1>1, <1>7, <3>2, <5>1
        <5>2. CASE d # c
          BY <1>7, <5>2
        <5> QED
          BY <5>1, <5>2
      <4> QED
        BY <4>2, <4>3
    <3> QED
      BY <3>1, <3>2
  <2>2. ASSUME NEW q \in Request, ~Sent(pipe, q) PROVE executed'[q] = 0
    <3>1. Sent(pipe, frame)
      BY <1>1 DEF Sent, frame
    <3> QED
      BY <1>4, <2>2, <3>1 DEF ExecutedOnce
  <2> QED
    BY <1>3, <1>8, <2>1, <2>2 DEF ExecutedOnce
<1> QED
  BY <1>3, <1>6, <1>9, <1>10

-----------------------------------------------------------------------------
(* The client implements RequestPromises.                                  *)

(* Every step keeps the invariant and is a step of the promises, or none.  *)
LEMMA StepRefines ==
    ASSUME IInv, [Next]_vars
    PROVE  IInv' /\ [Promises!Next]_(Promises!vars)
<1>1. PipelineKept'
  BY NextKeeps DEF IInv
<1>2. \A r \in Request : r \in ToSet(queue) \/ r \in lost => outcome[r] # "idle"
  BY DEF IInv, OnlyAsked
<1>3. lost \subseteq Request /\ lost' \subseteq Request
  BY <1>1 DEF IInv, PipelineKept, TypeOK
<1> USE <1>1 DEF Promises!Next, Promises!vars
<1>4. CASE UNCHANGED vars
  <2>1. UNCHANGED <<chain, step, queue, pipe, served, executed, outcome, lost>>
    BY <1>4 DEF vars, callers, sender, client, frames, server, history
  <2> QED
    BY <1>2, <2>1, NothingSent DEF server
<1>5. ASSUME NEW r \in Request, Call(r)
      PROVE  IInv' /\ [Promises!Next]_(Promises!vars)
  BY <1>5, CallOnce DEF Call, Promises!Call, server, history
<1>6. ASSUME NEW r \in Request, Timeout(r)
      PROVE  IInv' /\ [Promises!Next]_(Promises!vars)
  <2>1. UNCHANGED <<chain, step, pipe, queue, lost, server>>
    BY <1>6 DEF Timeout, sender, client, frames, history
  <2>2. \A q \in Request : outcome[q] # "idle" => outcome'[q] # "idle"
    BY <1>6 DEF Timeout, IInv, PipelineKept, TypeOK
  <2>3. IInv'
    BY <1>2, <2>1, <2>2, NothingSent
  <2> QED
    BY <1>6, <2>1, <2>3 DEF Timeout, Promises!Timeout, server
<1>7. ASSUME SendStart \/ ConnectOk \/ \E c \in Conn : Drop(c)
      PROVE  IInv' /\ [Promises!Next]_(Promises!vars)
  <2>1. /\ UNCHANGED <<chain, pipe, queue, lost, server, outcome, executed>>
        /\ step = "written" => step' = "written"
    BY <1>7 DEF SendStart, ConnectOk, Drop, callers, sender, client, frames, server, history
  <2> QED
    BY <1>2, <2>1, NothingSent
<1>8. ASSUME NEW failing, Disconnect(failing), UNCHANGED <<pipe, server, lost>>,
             UNCHANGED <<chain, step>> \/ (chain # <<>> /\ chain' = Tail(chain))
      PROVE  IInv' /\ [Promises!Next]_(Promises!vars)
  <2>1. /\ outcome' \in [Request -> Outcome]
        /\ \A r \in Request :
             outcome'[r] # outcome[r] => outcome[r] = "pending" /\ outcome'[r] = "failed"
        /\ ToSet(queue') = {}
    BY <1>8, DisconnectFails DEF IInv
  <2>2. Promises!Fail
    BY <1>8, <2>1 DEF Promises!Fail, Outcome, server
  <2>3. \A r \in Request : outcome[r] # "idle" => outcome'[r] # "idle"
    BY <2>1
  <2>4. \A r \in Request : r \in ToSet(queue') \/ r \in lost' => outcome[r] # "idle"
    BY <1>2, <1>8, <2>1
  <2>5. IInv'
    BY <1>8, <2>3, <2>4, NothingSent, ChainGoesOn
  <2> QED
    BY <2>2, <2>5
<1>9. ASSUME ConnectFails \/ WriteFails \/ Close \/ \E i \in Loop : ReadEnd(i)
      PROVE  IInv' /\ [Promises!Next]_(Promises!vars)
  <2>1. CASE SendFails /\ step # "idle"
    <3>1. chain # <<>>
      BY <2>1 DEF IInv, PipelineKept, SenderKept
    <3> QED
      BY <2>1, <3>1, <1>8 DEF SendFails, frames, history
  <2>2. CASE Close
    BY <2>2, <1>8 DEF Close, sender, frames, history
  <2>3. CASE \E i \in Loop : ReadEnd(i)
    BY <2>3, <1>8 DEF ReadEnd, sender, frames, history
  <2> QED
    BY <1>9, <2>1, <2>2, <2>3 DEF ConnectFails, WriteFails
<1>10. ASSUME WriteOk
       PROVE  IInv' /\ [Promises!Next]_(Promises!vars)
  <2>1. chain # <<>>
    BY <1>10 DEF WriteOk, IInv, PipelineKept, SenderKept
  <2>2. chain' = Tail(chain) /\ UNCHANGED <<pipe, queue, lost, server, outcome, executed>>
    BY <1>10 DEF WriteOk, callers, client, frames, server, history
  <2> QED
    BY <1>2, <2>1, <2>2, ChainGoesOn
<1>11. ASSUME Push
       PROVE  IInv' /\ [Promises!Next]_(Promises!vars)
  <2>1. IInv' /\ lost \subseteq lost' /\ \A r \in lost' : outcome[r] # "idle"
    BY <1>11, PushOnce
  <2>2. UNCHANGED <<outcome, executed>> /\ outcome \in [Request -> Outcome]
    BY <1>11 DEF Push, callers, server, IInv, PipelineKept, TypeOK
  <2>3. Promises!Lose
    BY <2>1, <2>2 DEF Promises!Lose
  <2> QED
    BY <2>1, <2>3
<1>12. ASSUME NEW c \in Conn, Execute(c)
       PROVE  IInv' /\ [Promises!Next]_(Promises!vars)
  BY <1>12, ExecuteOnce DEF Promises!Execute
<1>13. ASSUME NEW i \in Loop, ReadData(i)
       PROVE  IInv' /\ [Promises!Next]_(Promises!vars)
  <2> DEFINE r == Head(queue)
  <2>1. /\ Reads(i) /\ reads[i] \notin closed
        /\ UNCHANGED <<chain, step, pipe, served, executed, lost>>
    BY <1>13 DEF ReadData, Reads, sender, server
  <2>2. \/ UNCHANGED <<queue, outcome>>
        \/ \E owner \in Frame : Deliver(owner)
    <3>1. /\ buffer \in Seq(Frame) /\ pipe[reads[i]] \in Seq(Frame)
          /\ taken[reads[i]] + 1 \in 1..Len(pipe[reads[i]])
      <4>1. /\ pipe[reads[i]] \in Seq(Frame) /\ Len(pipe[reads[i]]) \in Nat
            /\ taken[reads[i]] \in Nat /\ served[reads[i]] \in Nat
            /\ taken[reads[i]] < served[reads[i]] /\ served[reads[i]] <= Len(pipe[reads[i]])
        BY <2>1, ReadsKeep DEF IInv
      <4>2. taken[reads[i]] + 1 \in 1..Len(pipe[reads[i]])
        BY <4>1
      <4>3. buffer \in Seq(Frame)
        BY DEF IInv, PipelineKept, TypeOK
      <4> QED
        BY <4>1, <4>2, <4>3
    <3> DEFINE unparsed == Append(buffer, pipe[reads[i]][taken[reads[i]] + 1])
    <3>2. unparsed \in Seq(Frame) /\ unparsed # <<>>
      <4>1. pipe[reads[i]][taken[reads[i]] + 1] \in Frame
        BY <3>1, ElementOfSeq
      <4>2. Len(buffer) \in Nat /\ Len(unparsed) = Len(buffer) + 1 /\ unparsed \in Seq(Frame)
        BY <3>1, <4>1, AppendProperties, LenProperties
      <4> HIDE DEF unparsed
      <4> QED
        BY <4>2, EmptySeq
    <3> HIDE DEF unparsed
    <3>3. Head(unparsed) \in Frame
      BY <3>2, HeadTailProperties
    <3>4. Deliver(Head(unparsed)) \/ UNCHANGED <<queue, outcome>>
      BY <1>13 DEF ReadData, unparsed
    <3> QED
      BY <3>3, <3>4
  <2>3. /\ ToSet(queue') \subseteq ToSet(queue)
        /\ outcome' \in [Request -> Outcome] /\ outcome \in [Request -> Outcome]
        /\ \A q \in Request :
             \/ outcome'[q] = outcome[q]
             \/ /\ queue # <<>> /\ q = r /\ q \in ToSet(queue)
                /\ outcome[q] = "pending" /\ outcome'[q] = "answered"
    <3>1. CASE UNCHANGED <<queue, outcome>>
      BY <3>1 DEF IInv, PipelineKept, TypeOK
    <3>2. CASE \E owner \in Frame : Deliver(owner)
      BY <3>2, DeliverIs DEF IInv, PipelineKept, TypeOK
    <3> QED
      BY <2>2, <3>1, <3>2
  <2> HIDE DEF r
  <2>4. IInv'
    <3>1. \A q \in Request : outcome[q] # "idle" => outcome'[q] # "idle"
      BY <2>3
    <3>2. \A q \in Request : q \in ToSet(queue') \/ q \in lost' => outcome[q] # "idle"
      BY <1>2, <2>1, <2>3
    <3> QED
      BY <2>1, <3>1, <3>2, NothingSent DEF server
  <2>5. CASE \A q \in Request : outcome'[q] = outcome[q]
    <3>1. outcome' = outcome
      BY <2>3, <2>5
    <3> QED
      BY <2>1, <2>4, <3>1
  <2>6. CASE ~ \A q \in Request : outcome'[q] = outcome[q]
    <3>1. /\ r \in Request /\ r \in ToSet(queue) /\ outcome[r] = "pending" /\ outcome'[r] = "answered"
          /\ \A q \in Request : q # r => outcome'[q] = outcome[q]
      BY <2>3, <2>6
    <3>2. outcome' = [outcome EXCEPT ![r] = "answered"]
      BY <2>3, <3>1
    <3>3. executed[r] = 1 \/ r \in lost
      <4>1. reads[i] = conn /\ conn \in Conn
        BY <2>1, ReadsKeep DEF IInv
      <4>2. CASE conn \in OutOfStep
        BY <3>1, <4>2 DEF IInv, PipelineKept, QueueMatchesWire
      <4>3. CASE conn \notin OutOfStep
        <5>1. r = pipe[conn][taken[conn] + 1]
          BY <2>1, <4>3, ReadingFits DEF IInv, r
        <5>2. /\ taken[conn] \in Nat /\ served[conn] \in Nat /\ Len(pipe[conn]) \in Nat
              /\ taken[conn] < served[conn] /\ served[conn] <= Len(pipe[conn])
          BY <2>1, <4>1, ReadsKeep DEF IInv
        <5>3. taken[conn] + 1 \in 1..Len(pipe[conn]) /\ taken[conn] + 1 <= served[conn]
          BY <5>2
        <5> QED
          BY <3>1, <4>1, <5>1, <5>3 DEF IInv, ExecutedOnce
      <4> QED
        BY <4>2, <4>3
    <3>4. Promises!Answer(r)
      BY <2>1, <3>1, <3>2, <3>3 DEF Promises!Answer
    <3> QED
      BY <2>4, <3>1, <3>4
  <2> QED
    BY <2>5, <2>6
<1>14. ASSUME NEW i \in Loop, ReadStray(i)
       PROVE  IInv' /\ [Promises!Next]_(Promises!vars)
  <2>1. /\ lost \subseteq lost' /\ lost' \subseteq lost \cup ToSet(queue)
        /\ \A r \in Request : outcome'[r] # outcome[r] =>
             r \in lost' /\ outcome[r] = "pending" /\ outcome'[r] = "answered"
        /\ outcome' \in [Request -> Outcome] /\ UNCHANGED <<chain, step, pipe, server>>
        /\ ToSet(queue') \subseteq ToSet(queue)
    BY <1>14, StrayKeeps DEF IInv
  <2>2. \A r \in Request : r \in ToSet(queue') \/ r \in lost' => outcome[r] # "idle"
    BY <1>2, <2>1
  <2>3. \A r \in Request : outcome[r] # "idle" => outcome'[r] # "idle"
    BY <2>1
  <2>4. IInv'
    BY <2>1, <2>2, <2>3, NothingSent
  <2>5. outcome' = [r \in Request |-> outcome'[r]]
    BY <2>1
  <2>6. Promises!Lose
    BY <1>3, <2>1, <2>2, <2>5 DEF Promises!Lose, server
  <2> QED
    BY <2>4, <2>6
<1> QED
  BY <1>4, <1>5, <1>6, <1>7, <1>9, <1>10, <1>11, <1>12, <1>13, <1>14 DEF Next

(* A request is executed at most once, settles at most once, and is        *)
(* answered only by its own execution, unless it waited on a connection on *)
(* which a frame was cut short or late bytes were read.                    *)
THEOREM Implementation == Spec => ImplementsPromises
<1>1. Init => IInv /\ Promises!Init
  BY InitInvariant DEF Init, Promises!Init
<1>2. IInv /\ [Next]_vars => IInv' /\ [Promises!Next]_(Promises!vars)
  BY StepRefines
<1> QED
  BY <1>1, <1>2, PTL DEF Spec, ImplementsPromises, Promises!Spec

-----------------------------------------------------------------------------
(* The forms.                                                              *)

(* What a submission holds is typed, and read as the site reads it.        *)
TypedText == Seq(Character)

Submission ==
    [url : TypedText, title : TypedText, description : TypedText, categoryId : {0} \cup Category,
     subcategoryId : {0} \cup Category, affiliated : BOOLEAN]

Fault == {"url", "title", "description", "categoryId", "confirm", "submit"}

SentForm ==
    [state : Submission, target : {0} \cup Category,
     shown : [url : TypedText, title : TypedText, description : TypedText, affiliated : BOOLEAN,
              top : {0} \cup Category, sub : {0} \cup Category, atTop : BOOLEAN]]

Page ==
    [step : 0..StepBroken, state : Submission,
     errors : SUBSET Fault, tops : Seq(Category), top : {0} \cup Category, subs : Seq(Category),
     sub : {0} \cup Category, preset : {0} \cup Category, loading : BOOLEAN,
     asked : SUBSET Category, raced : BOOLEAN,
     sent : Seq(SentForm)]

PageIsRead == ParseFormState(wizard.state) = wizard.state

(* A submission is sent from the last step only.                         *)
SentAtTheEnd == wizard.sent # <<>> => wizard.step \in {4, StepDone}

(* What is chosen below is of the list on the page.                        *)
ChosenIsListed == wizard.sub # 0 => wizard.sub \in ToSet(wizard.subs)

(* A list that is neither loading nor late is of the category chosen.      *)
ListIsOfTop ==
    wizard.step = 3 /\ wizard.top # 0 /\ ~wizard.loading /\ ~wizard.raced =>
      wizard.subs \in {<<>>, Below[wizard.top]}

OfTop(state, raced) ==
    /\ state.categoryId # 0
    /\ state.subcategoryId # 0 /\ ~raced => state.subcategoryId \in ToSet(Below[state.categoryId])

ReviewIsOfTop == wizard.step = 4 => OfTop(wizard.state, wizard.raced)

(* A submission was shown as it is sent.                                   *)
IsShown(sent) ==
    LET shown == sent.shown IN
    /\ sent.state.url = shown.url /\ sent.state.title = shown.title
    /\ sent.state.description = shown.description
    /\ sent.state.affiliated = shown.affiliated
    /\ shown.atTop => shown.top \in {0, sent.target}
    /\ ~shown.atTop => shown.sub \in {0, sent.target}

WizardKept ==
    /\ wizard \in Page /\ PageIsRead /\ SentAtTheEnd /\ ChosenIsListed /\ ListIsOfTop
    /\ ReviewIsOfTop
    /\ \A k \in DOMAIN wizard.sent :
         OfTop(wizard.sent[k].state, wizard.raced) /\ IsShown(wizard.sent[k])

(* The box of a picker shows what is picked.                               *)
PickerKept ==
    /\ DOMAIN picker = DOMAIN NoPicker
    /\ picker.id # 0 => picker.text = Label[picker.id] /\ picker.label = Label[picker.id]
    /\ \A k \in DOMAIN picker.sent :
         picker.sent[k].id # 0 => picker.sent[k].shown = Label[picker.sent[k].id]

BulkKept ==
    /\ DOMAIN bulk = DOMAIN NoBulk
    /\ \A k \in DOMAIN bulk.sent :
         bulk.sent[k].op = "delete" => Cardinality(bulk.sent[k].ids) = bulk.sent[k].phrase

FormsKept == WizardKept /\ PickerKept /\ BulkKept

-----------------------------------------------------------------------------
(* Texts: what is read is trimmed and cut, and reads the same again.       *)

(* A text that begins and ends with no space is trimmed.                   *)
LEMMA TrimOfTrimmed ==
    ASSUME NEW S, NEW s \in Seq(S), s # <<>> => s[1] # Blank /\ s[Len(s)] # Blank
    PROVE  Trim(s) = s
<1> DEFINE kept == {k \in DOMAIN s : s[k] # Blank}
           least == CHOOSE k \in kept : \A j \in kept : k <= j
           most == CHOOSE k \in kept : \A j \in kept : j <= k
<1>1. CASE s = <<>>
  BY <1>1 DEF Trim
<1>2. CASE s # <<>>
  <2>1. Len(s) \in Nat \ {0} /\ DOMAIN s = 1..Len(s)
    BY <1>2
  <2>2. 1 \in kept /\ Len(s) \in kept /\ kept \subseteq 1..Len(s)
    BY <1>2, <2>1
  <2> HIDE DEF kept
  <2>3. \A j \in kept : 1 <= j /\ j <= Len(s)
    BY <2>1, <2>2
  <2>4. least \in kept /\ \A j \in kept : least <= j
    BY <2>2, <2>3
  <2>5. most \in kept /\ \A j \in kept : j <= most
    BY <2>2, <2>3
  <2> HIDE DEF least, most
  <2>6. least = 1
    BY <2>1, <2>2, <2>3, <2>4
  <2>7. most = Len(s)
    <3>1. Len(s) <= most /\ most <= Len(s) /\ most \in Nat /\ Len(s) \in Nat
      BY <2>1, <2>2, <2>3, <2>5
    <3>2. \A m, n \in Nat : m <= n /\ n <= m => m = n
      OBVIOUS
    <3> QED
      BY <3>1, <3>2
  <2>8. Trim(s) = SubSeq(s, least, most)
    BY <2>2 DEF Trim, kept, least, most
  <2>9. SubSeq(s, 1, Len(s)) = s
    BY <2>1
  <2> QED
    BY <2>6, <2>7, <2>8, <2>9
<1> QED
  BY <1>1, <1>2

LEMMA LeastOf ==
    ASSUME NEW S, S \subseteq Nat, S # {}
    PROVE  \E m \in S : \A n \in S : m <= n
<1> DEFINE R == OpToRel(<, Nat)
<1>1. IsWellFoundedOn(R, Nat)
  BY NatLessThanWellFounded
<1>2. \A x, y \in Nat : <<x, y>> \in R <=> x < y
  BY DEF OpToRel
<1> HIDE DEF R
<1>3. PICK m \in S : \A y \in S : ~(<<y, m>> \in R)
  BY <1>1, WFMin
<1>4. \A n \in S : m <= n
  <2> TAKE n \in S
  <2>1. m \in Nat /\ n \in Nat /\ ~(n < m)
    BY <1>2, <1>3
  <2> QED
    BY <2>1
<1> QED
  BY <1>4

LEMMA GreatestOf ==
    ASSUME NEW b \in Nat, NEW S, S \subseteq 0..b, S # {}
    PROVE  \E m \in S : \A n \in S : n <= m
<1> DEFINE T == {b - n : n \in S}
<1>1. T \subseteq Nat
  <2>1. \A n \in S : b - n \in Nat
    OBVIOUS
  <2> QED
    BY <2>1
<1>2. T # {}
  OBVIOUS
<1> HIDE DEF T
<1>3. PICK t \in T : \A u \in T : t <= u
  BY <1>1, <1>2, LeastOf
<1>4. PICK m \in S : t = b - m
  BY <1>3 DEF T
<1>5. \A n \in S : b - m <= b - n
  BY <1>3, <1>4 DEF T
<1>6. \A n \in S : n <= m
  BY <1>5
<1> QED
  BY <1>6

(* What is left begins and ends with no space, and is no longer.           *)
LEMMA TrimTrims ==
    ASSUME NEW S, NEW s \in Seq(S)
    PROVE  /\ Trim(s) \in Seq(S) /\ Len(Trim(s)) <= Len(s)
           /\ Trim(s) # <<>> => Trim(s)[1] # Blank /\ Trim(s)[Len(Trim(s))] # Blank
<1> DEFINE kept == {k \in DOMAIN s : s[k] # Blank}
           least == CHOOSE k \in kept : \A j \in kept : k <= j
           most == CHOOSE k \in kept : \A j \in kept : j <= k
<1>1. Len(s) \in Nat /\ DOMAIN s = 1..Len(s) /\ \A k \in 1..Len(s) : s[k] \in S
  OBVIOUS
<1>2. CASE kept = {}
  BY <1>1, <1>2 DEF Trim
<1>3. CASE kept # {}
  <2>1. kept \subseteq 1..Len(s) /\ \A k \in kept : s[k] # Blank
    BY <1>1
  <2>2. Trim(s) = SubSeq(s, least, most)
    BY <1>3 DEF Trim
  <2> HIDE DEF kept
  <2>3. kept \subseteq Nat /\ kept \subseteq 0..Len(s)
    BY <1>1, <2>1
  <2>4. \E k \in kept : \A j \in kept : k <= j
    BY <1>3, <2>3, LeastOf
  <2>5. least \in kept /\ \A j \in kept : least <= j
    BY <2>4
  <2>6. \E k \in kept : \A j \in kept : j <= k
    BY <1>1, <1>3, <2>3, GreatestOf
  <2>7. most \in kept
    BY <2>6
  <2> HIDE DEF least, most
  <2>8. least \in 1..Len(s) /\ most \in 1..Len(s) /\ least <= most
    BY <2>1, <2>5, <2>7
  <2>9. \A k \in least..most : s[k] \in S
    BY <1>1, <2>8
  <2>10. /\ SubSeq(s, least, most) \in Seq(S)
         /\ Len(SubSeq(s, least, most)) = most - least + 1
         /\ \A k \in 1..(most - least + 1) : SubSeq(s, least, most)[k] = s[least + k - 1]
    BY <1>1, <2>8, <2>9, SubSeqProperties
  <2>11. /\ SubSeq(s, least, most)[1] = s[least]
         /\ SubSeq(s, least, most)[most - least + 1] = s[most]
    BY <1>1, <2>8, <2>10
  <2> QED
    BY <1>1, <2>1, <2>2, <2>5, <2>7, <2>8, <2>10, <2>11
<1> QED
  BY <1>2, <1>3

LEMMA ReadTwice ==
    ASSUME NEW S, NEW v \in Seq(S), NEW max \in Nat
    PROVE  /\ ReadString(v, max) \in Seq(S)
           /\ ReadString(ReadString(v, max), max) = ReadString(v, max)
<1> DEFINE cut == SubSeq(v, 1, IF Len(v) < max THEN Len(v) ELSE max)
           r == ReadString(v, max)
<1>1. Len(v) \in Nat /\ \A k \in 1..Len(v) : v[k] \in S
  OBVIOUS
<1>2. cut \in Seq(S) /\ Len(cut) <= max
  <2> DEFINE n == IF Len(v) < max THEN Len(v) ELSE max
  <2>1. n \in Nat /\ n <= max /\ n <= Len(v)
    BY <1>1
  <2> HIDE DEF n
  <2>2. \A k \in 1..n : v[k] \in S
    BY <1>1, <2>1
  <2>3. SubSeq(v, 1, n) \in Seq(S) /\ Len(SubSeq(v, 1, n)) = IF 1 <= n THEN n - 1 + 1 ELSE 0
    BY <2>1, <2>2, SubSeqProperties
  <2>4. SubSeq(v, 1, n) \in Seq(S) /\ Len(SubSeq(v, 1, n)) <= max
    BY <2>1, <2>3
  <2> QED
    BY <2>4 DEF n
<1>3. r = Trim(cut)
  BY DEF ReadString
<1> HIDE DEF cut, r
<1>4. /\ r \in Seq(S) /\ Len(r) <= max
      /\ r # <<>> => r[1] # Blank /\ r[Len(r)] # Blank
  <2>1. /\ Trim(cut) \in Seq(S) /\ Len(Trim(cut)) <= Len(cut)
        /\ Trim(cut) # <<>> => Trim(cut)[1] # Blank /\ Trim(cut)[Len(Trim(cut))] # Blank
    BY <1>2, TrimTrims
  <2>2. Len(cut) \in Nat /\ Len(Trim(cut)) \in Nat
    BY <1>2, <2>1
  <2> QED
    BY <1>2, <1>3, <2>1, <2>2
<1>5. Trim(r) = r
  BY <1>4, TrimOfTrimmed
<1>6. Len(r) \in Nat /\ (IF Len(r) < max THEN Len(r) ELSE max) = Len(r)
  BY <1>4
<1>7. SubSeq(r, 1, Len(r)) = r
  BY <1>4
<1>8. ReadString(r, max) = r
  BY <1>5, <1>6, <1>7 DEF ReadString
<1> QED
  BY <1>4, <1>8 DEF r

LEMMA ParsedIsRead ==
    ASSUME NEW form \in Submission
    PROVE  /\ ParseFormState(form) \in Submission
           /\ ParseFormState(ParseFormState(form)) = ParseFormState(form)
           /\ ParseFormState(form).categoryId = form.categoryId
           /\ ParseFormState(form).subcategoryId = form.subcategoryId
<1>1. UrlMax \in Nat /\ TitleMax \in Nat /\ DescriptionMax \in Nat
  BY TypedAssumption
<1>2. form.url \in TypedText /\ form.title \in TypedText /\ form.description \in TypedText
  BY DEF Submission
<1> DEFINE u == ReadString(form.url, UrlMax)
           t == ReadString(form.title, TitleMax)
           d == ReadString(form.description, DescriptionMax)
<1>3. u \in TypedText /\ ReadString(u, UrlMax) = u
  BY <1>1, <1>2, ReadTwice DEF TypedText
<1>4. t \in TypedText /\ ReadString(t, TitleMax) = t
  BY <1>1, <1>2, ReadTwice DEF TypedText
<1>5. d \in TypedText /\ ReadString(d, DescriptionMax) = d
  BY <1>1, <1>2, ReadTwice DEF TypedText
<1>6. ParseFormState(form) = [form EXCEPT !.url = u, !.title = t, !.description = d]
  BY DEF ParseFormState
<1> HIDE DEF u, t, d
<1>7. ParseFormState(form) \in Submission
  BY <1>3, <1>4, <1>5, <1>6 DEF Submission
<1>8. /\ ParseFormState(form).url = u /\ ParseFormState(form).title = t
      /\ ParseFormState(form).description = d
      /\ ParseFormState(form).categoryId = form.categoryId
      /\ ParseFormState(form).subcategoryId = form.subcategoryId
  BY <1>6 DEF Submission
<1>9. \A p \in Submission :
        p.url = u /\ p.title = t /\ p.description = d => ParseFormState(p) = p
  BY <1>3, <1>4, <1>5 DEF ParseFormState, Submission
<1> QED
  BY <1>7, <1>8, <1>9

-----------------------------------------------------------------------------
(* The pages of a submission.                                              *)

LEMMA EmptyIsRead ==
    EmptyState \in Submission /\ ParseFormState(EmptyState) = EmptyState
<1>1. EmptyState \in Submission
  BY DEF EmptyState, Submission, TypedText
<1>2. \A max \in Nat : ReadString(<<>>, max) = <<>>
  <2> TAKE max \in Nat
  <2>1. (IF Len(<<>>) < max THEN Len(<<>>) ELSE max) = 0
    OBVIOUS
  <2>2. SubSeq(<<>>, 1, 0) = <<>>
    OBVIOUS
  <2>3. Trim(<<>>) = <<>>
    BY DEF Trim
  <2> QED
    BY <2>1, <2>2, <2>3 DEF ReadString
<1>3. UrlMax \in Nat /\ TitleMax \in Nat /\ DescriptionMax \in Nat
  BY TypedAssumption
<1>4. \A form \in Submission : form.url = <<>> /\ form.title = <<>> /\ form.description = <<>> =>
        ParseFormState(form) = form
  BY <1>2, <1>3 DEF ParseFormState, Submission
<1>5. EmptyState.url = <<>> /\ EmptyState.title = <<>> /\ EmptyState.description = <<>>
  BY DEF EmptyState
<1> QED
  BY <1>1, <1>4, <1>5

LEMMA NoWizardIsPage ==
    NoWizard \in Page /\ Broken \in Page
<1>1. EmptyState \in Submission
  BY EmptyIsRead
<1>2. <<>> \in Seq(Category) /\ <<>> \in Seq(SentForm)
  OBVIOUS
<1>3. 0 \in 0..StepBroken /\ StepBroken \in 0..StepBroken
  BY DEF StepBroken
<1>4. NoWizard \in Page
  BY <1>1, <1>2, <1>3 DEF NoWizard, Page
<1> QED
  BY <1>3, <1>4 DEF Broken, Page

LEMMA ListsOfCategories ==
    ASSUME NEW id \in {0} \cup Category
    PROVE  /\ LoadTopCategories \subseteq Seq(Category)
           /\ LoadSubCategories(id) \subseteq Seq(Category)
           /\ id # 0 => id \in Category /\ LoadSubCategories(id) = {<<>>, Below[id]}
<1>1. \A i \in DOMAIN RootList : RootList[i] \in Category
  BY CategoryAssumption
<1>2. RootList \in Seq(Category) /\ \A c \in Category : Below[c] \in Seq(Category)
  BY CategoryAssumption
<1>3. LoadTopCategories \subseteq Seq(Category)
  BY <1>1, <1>2 DEF LoadTopCategories
<1>4. id \in Nat /\ (id # 0 => id \in Category /\ ~(id <= 0))
  BY CategoryAssumption
<1>5. <<>> \in Seq(Category)
  OBVIOUS
<1> QED
  <2>1. LoadSubCategories(id) = IF id <= 0 THEN {<<>>} ELSE {<<>>, Below[id]}
    BY DEF LoadSubCategories
  <2>2. CASE id = 0
    BY <1>3, <1>5, <2>1, <2>2
  <2>3. CASE id # 0
    <3>1. LoadSubCategories(id) = {<<>>, Below[id]}
      BY <1>4, <2>1, <2>3
    <3> QED
      BY <1>2, <1>3, <1>4, <1>5, <2>3, <3>1
  <2> QED
    BY <2>2, <2>3

(* What buildData() makes.                                                 *)
LEMMA BuiltPage ==
    ASSUME NEW at \in 1..StepDone, NEW state \in Submission, NEW errors \in SUBSET Fault,
           NEW raced \in BOOLEAN, NEW sent \in Seq(SentForm),
           NEW page \in BuildData(at, state, errors, raced, sent)
    PROVE  /\ page \in Page
           /\ page.sub # 0 => page.sub \in ToSet(page.subs)
           /\ page.top # 0 => page.subs \in {<<>>, Below[page.top]}
           /\ \/ page = Broken
              \/ /\ page.step = at /\ page.state = state /\ page.sent = sent
                 /\ page.raced = (raced /\ at \in {4, StepDone})
<1>1. NoWizard \in Page /\ Broken \in Page
  BY NoWizardIsPage
<1>2. state.categoryId \in {0} \cup Category /\ state.subcategoryId \in {0} \cup Category
  BY DEF Submission
<1>3. CASE at = StepDone
  <2>1. page = [NoWizard EXCEPT !.step = at, !.state = state, !.sent = sent, !.raced = raced]
    BY <1>3 DEF BuildData
  <2>2. page \in Page
    <3>1. at \in 0..StepBroken
      BY DEF StepDone, StepBroken
    <3> QED
      BY <1>1, <2>1, <3>1 DEF Page
  <2>3. page.sub = 0 /\ page.top = 0
    BY <2>1 DEF NoWizard
  <2>4. page.step = at /\ page.state = state /\ page.sent = sent /\ page.raced = raced
    BY <2>1 DEF NoWizard
  <2> QED
    BY <1>3, <2>2, <2>3, <2>4
<1>4. CASE at # StepDone /\ page = Broken
  <2>1. page.sub = 0 /\ page.top = 0
    BY <1>4 DEF Broken, NoWizard
  <2> QED
    BY <1>1, <1>4, <2>1
<1>5. CASE at # StepDone /\ page # Broken
  <2>1. PICK tops \in LoadTopCategories, subs \in LoadSubCategories(state.categoryId) :
          page = WizardPage(at, state, errors, raced, sent, tops, subs)
    BY <1>5 DEF BuildData
  <2> DEFINE preset == IF state.subcategoryId \in ToSet(subs) THEN state.subcategoryId ELSE 0
             top == IF state.categoryId \in ToSet(tops) THEN state.categoryId ELSE 0
             late == raced /\ at = 4
  <2>2. /\ preset \in {0} \cup Category /\ top \in {0} \cup Category /\ late \in BOOLEAN
        /\ preset # 0 => preset \in ToSet(subs)
        /\ top # 0 => top = state.categoryId
    BY <1>2
  <2>3. page = [NoWizard EXCEPT !.step = at, !.state = state, !.errors = errors, !.tops = tops,
                                !.top = top, !.subs = subs, !.sub = preset, !.preset = preset,
                                !.raced = late, !.sent = sent]
    BY <2>1, Zenon DEF WizardPage
  <2>4. page.raced = late => page.raced = (raced /\ at = 4)
    OBVIOUS
  <2> HIDE DEF preset, top, late
  <2>5. /\ tops \in Seq(Category) /\ subs \in Seq(Category)
        /\ state.categoryId # 0 => subs \in {<<>>, Below[state.categoryId]}
    BY <1>2, ListsOfCategories
  <2>6. at \in 0..StepBroken
    BY DEF StepDone, StepBroken
  <2>7. page \in Page
    BY <1>1, <2>2, <2>3, <2>5, <2>6 DEF Page
  <2>8. /\ page.step = at /\ page.state = state /\ page.sent = sent /\ page.raced = late
        /\ page.top = top /\ page.subs = subs /\ page.sub = preset
    BY <2>3 DEF NoWizard
  <2>9. page.sub # 0 => page.sub \in ToSet(page.subs)
    BY <2>2, <2>8
  <2>10. page.top # 0 => page.subs \in {<<>>, Below[page.top]}
    BY <2>2, <2>5, <2>8
  <2> QED
    BY <1>5, <2>7, <2>8, <2>9, <2>10, <2>4
<1> QED
  BY <1>3, <1>4, <1>5

(* A page the site makes is as good as what it is made of.                 *)
LEMMA BuildKeeps ==
    ASSUME NEW at \in 1..StepDone, NEW state \in Submission, NEW errors \in SUBSET Fault,
           NEW raced \in BOOLEAN, NEW sent \in Seq(SentForm),
           wizard' \in BuildData(at, state, errors, raced, sent),
           ParseFormState(state) = state,
           sent # <<>> => at \in {4, StepDone},
           at = 4 => OfTop(state, raced),
           \A k \in DOMAIN sent : OfTop(sent[k].state, raced) /\ IsShown(sent[k])
    PROVE  WizardKept'
<1>1. /\ wizard' \in Page
      /\ wizard'.sub # 0 => wizard'.sub \in ToSet(wizard'.subs)
      /\ wizard'.top # 0 => wizard'.subs \in {<<>>, Below[wizard'.top]}
      /\ \/ wizard' = Broken
         \/ /\ wizard'.step = at /\ wizard'.state = state /\ wizard'.sent = sent
            /\ wizard'.raced = (raced /\ at \in {4, StepDone})
  BY BuiltPage
<1>2. ChosenIsListed' /\ ListIsOfTop'
  BY <1>1 DEF ChosenIsListed, ListIsOfTop
<1>3. CASE wizard' = Broken
  <2>1. /\ wizard'.step = StepBroken /\ wizard'.state = EmptyState /\ wizard'.sent = <<>>
    BY <1>3 DEF Broken, NoWizard
  <2>2. PageIsRead' /\ SentAtTheEnd' /\ ReviewIsOfTop'
    BY <2>1, EmptyIsRead DEF PageIsRead, SentAtTheEnd, ReviewIsOfTop, StepBroken
  <2> QED
    BY <1>1, <1>2, <2>1, <2>2 DEF WizardKept
<1>4. CASE wizard' # Broken
  <2>1. /\ wizard'.step = at /\ wizard'.state = state /\ wizard'.sent = sent
        /\ wizard'.raced = (raced /\ at \in {4, StepDone})
    BY <1>1, <1>4
  <2>2. at \in {4, StepDone} => wizard'.raced = raced
    BY <2>1
  <2>3. PageIsRead' /\ SentAtTheEnd' /\ ReviewIsOfTop'
    BY <2>1, <2>2 DEF PageIsRead, SentAtTheEnd, ReviewIsOfTop
  <2>4. \A k \in DOMAIN sent : OfTop(sent[k].state, wizard'.raced) /\ IsShown(sent[k])
    <3>1. CASE sent = <<>>
      BY <3>1
    <3>2. CASE sent # <<>>
      BY <2>2, <3>2
    <3> QED
      BY <3>1, <3>2
  <2> QED
    BY <1>1, <1>2, <2>1, <2>3, <2>4 DEF WizardKept
<1> QED
  BY <1>3, <1>4

LEMMA FormOfPage ==
    ASSUME wizard \in Page, NEW form \in Forms
    PROVE  /\ form \in Submission /\ wizard.step \in 1..4
           /\ wizard.step = 4 => form = wizard.state
           /\ wizard.step = 3 =>
                /\ form.categoryId = wizard.top
                /\ form.subcategoryId # 0 => ~wizard.loading /\ form.subcategoryId = wizard.sub
<1>1. /\ wizard.state \in Submission /\ wizard.top \in {0} \cup Category
      /\ wizard.sub \in {0} \cup Category
  BY DEF Page
<1>2. /\ wizard.state.url \in TypedText /\ wizard.state.title \in TypedText
      /\ wizard.state.description \in TypedText
  BY <1>1 DEF Submission
<1>3. TypedUrl \subseteq TypedText /\ TypedTitle \subseteq TypedText /\ TypedDescription \subseteq TypedText
  BY TypedAssumption DEF TypedText
<1>4. CASE wizard.step = 1
  <2>1. PICK u \in TypedUrl, t \in TypedTitle : form = Step1Form(u, t)
    BY <1>4 DEF Forms
  <2>2. form \in Submission
    BY <1>3, <2>1, EmptyIsRead DEF Step1Form, Submission
  <2> QED
    BY <1>4, <2>2
<1>5. CASE wizard.step = 2
  <2>1. PICK d \in TypedDescription : form = Step2Form(wizard.state, d)
    BY <1>5 DEF Forms
  <2>2. form \in Submission
    BY <1>2, <1>3, <2>1, EmptyIsRead DEF Step2Form, Submission
  <2> QED
    BY <1>5, <2>2
<1>6. CASE wizard.step = 3
  <2>1. PICK a \in BOOLEAN : form = Step3Form(wizard, a)
    BY <1>6 DEF Forms
  <2> DEFINE below == IF wizard.loading \/ wizard.subs = <<>> THEN 0 ELSE wizard.sub
  <2>2. below \in {0} \cup Category /\ (below # 0 => ~wizard.loading /\ below = wizard.sub)
    BY <1>1
  <2>3. form = [url |-> wizard.state.url, title |-> wizard.state.title,
                description |-> wizard.state.description, categoryId |-> wizard.top,
                subcategoryId |-> below, affiliated |-> a]
    BY <2>1 DEF Step3Form, EmptyState
  <2> HIDE DEF below
  <2>4. form \in Submission
    BY <1>1, <1>2, <2>2, <2>3 DEF Submission
  <2>5. form.categoryId = wizard.top /\ form.subcategoryId = below
    BY <2>3
  <2> QED
    BY <1>6, <2>2, <2>4, <2>5
<1>7. CASE wizard.step = 4
  <2>1. form = wizard.state
    BY <1>7 DEF Forms, HiddenState
  <2> QED
    BY <1>1, <1>7, <2>1
<1>8. wizard.step \in {1, 2, 3, 4}
  BY DEF Forms
<1> QED
  BY <1>4, <1>5, <1>6, <1>7, <1>8

LEMMA FaultsFound ==
    ASSUME NEW at \in 1..4, NEW state \in Submission, NEW confirmed
    PROVE  /\ ValidateForStep(at, state, confirmed) \in SUBSET Fault
           /\ at \in {3, 4} /\ ValidateForStep(at, state, confirmed) = {} => state.categoryId # 0
<1>1. ValidateStep1(state) \in SUBSET Fault /\ ValidateStep2(state) \in SUBSET Fault
  BY DEF ValidateStep1, ValidateStep2, Fault
<1>2. /\ ValidateStep3(state) \in SUBSET Fault
      /\ ValidateStep3(state) = {} => state.categoryId # 0
  <2>1. state.categoryId = 0 => state.categoryId <= 0
    OBVIOUS
  <2> QED
    BY <2>1 DEF ValidateStep3, Fault
<1>3. (IF confirmed THEN {} ELSE {"confirm"}) \in SUBSET Fault
  BY DEF Fault
<1>4. CASE at = 1
  BY <1>1, <1>4 DEF ValidateForStep
<1>5. CASE at = 2
  BY <1>1, <1>5 DEF ValidateForStep
<1>6. CASE at = 3
  BY <1>2, <1>6 DEF ValidateForStep
<1>7. CASE at = 4
  <2>1. ValidateForStep(at, state, confirmed) =
          ValidateStep1(state) \cup ValidateStep2(state) \cup ValidateStep3(state)
            \cup (IF confirmed THEN {} ELSE {"confirm"})
    BY <1>7 DEF ValidateForStep
  <2> QED
    BY <1>1, <1>2, <1>3, <1>7, <2>1
<1> QED
  BY <1>4, <1>5, <1>6, <1>7

(* What the last page listed is what it sends, to the category it named.   *)
LEMMA ReviewShows ==
    ASSUME wizard \in Page, NEW sent,
           sent = [state |-> wizard.state, target |-> TargetCategory(wizard.state),
                   shown |-> Review(wizard)]
    PROVE  sent \in SentForm /\ IsShown(sent)
<1> DEFINE state == wizard.state
           shown == Review(wizard)
<1>1. /\ state \in Submission /\ wizard.tops \in Seq(Category) /\ wizard.subs \in Seq(Category)
  BY DEF Page
<1>2. /\ state.url \in TypedText /\ state.title \in TypedText /\ state.description \in TypedText
      /\ state.affiliated \in BOOLEAN
      /\ state.categoryId \in {0} \cup Category /\ state.subcategoryId \in {0} \cup Category
  BY <1>1 DEF Submission
<1>3. \A id, list : Named(id, list) \in {0, id}
  BY DEF Named
<1>4. /\ Named(state.categoryId, wizard.tops) \in {0, state.categoryId}
      /\ Named(state.subcategoryId, wizard.subs) \in {0, state.subcategoryId}
  BY <1>2, <1>3
<1>5. state.subcategoryId # 0 => state.subcategoryId > 0
  <2>1. Category \subseteq Nat \ {0}
    BY CategoryAssumption
  <2>2. ASSUME state.subcategoryId # 0
        PROVE  state.subcategoryId \in Nat \ {0}
    BY <1>2, <2>1, <2>2, Zenon
  <2>3. \A n \in Nat \ {0} : n > 0
    OBVIOUS
  <2> QED
    BY <2>2, <2>3, Zenon
<1>6. TargetCategory(state) = IF state.subcategoryId # 0 THEN state.subcategoryId ELSE state.categoryId
  <2>1. CASE state.subcategoryId = 0
    BY <2>1 DEF TargetCategory
  <2>2. CASE state.subcategoryId # 0
    BY <1>5, <2>2 DEF TargetCategory
  <2> QED
    BY <2>1, <2>2
<1>7. /\ shown.url = state.url /\ shown.title = state.title /\ shown.description = state.description
      /\ shown.affiliated = state.affiliated
      /\ shown.top = Named(state.categoryId, wizard.tops)
      /\ shown.sub = Named(state.subcategoryId, wizard.subs)
      /\ shown.atTop = (state.subcategoryId = 0)
  BY DEF Review
<1>8. shown \in [url : TypedText, title : TypedText, description : TypedText, affiliated : BOOLEAN,
                 top : {0} \cup Category, sub : {0} \cup Category, atTop : BOOLEAN]
  BY <1>2, <1>4 DEF Review
<1> HIDE DEF state, shown
<1>9. sent.state = state /\ sent.target = TargetCategory(state) /\ sent.shown = shown
  BY DEF state, shown
<1>10. sent \in SentForm
  BY <1>1, <1>2, <1>6, <1>8 DEF SentForm, state, shown
<1>11. IsShown(sent)
  BY <1>4, <1>6, <1>7, <1>9 DEF IsShown
<1> QED
  BY <1>10, <1>11

LEMMA PostKeeps ==
    ASSUME WizardKept, NEW form \in Forms, NEW action \in {"next", "back"}, NEW confirmed \in BOOLEAN,
           Post(action, form, confirmed)
    PROVE  WizardKept'
<1> DEFINE at == wizard.step
           state == ParseFormState(form)
           errors == ValidateForStep(at, state, confirmed)
<1>1. /\ form \in Submission /\ at \in 1..4
      /\ at = 4 => form = wizard.state
      /\ at = 3 => /\ form.categoryId = wizard.top
                   /\ form.subcategoryId # 0 => ~wizard.loading /\ form.subcategoryId = wizard.sub
  BY FormOfPage DEF WizardKept
<1>2. /\ state \in Submission /\ ParseFormState(state) = state
      /\ state.categoryId = form.categoryId /\ state.subcategoryId = form.subcategoryId
  BY <1>1, ParsedIsRead
<1>3. /\ errors \in SUBSET Fault
      /\ at \in {3, 4} /\ errors = {} => state.categoryId # 0
  BY <1>1, <1>2, FaultsFound
<1>4. at = 4 => state = wizard.state
  BY <1>1 DEF WizardKept, PageIsRead
<1>5. wizard.raced \in BOOLEAN /\ wizard.sent \in Seq(SentForm)
  BY DEF WizardKept, Page
<1>6. wizard' \in IF action = "back"
                  THEN BuildData(at - 1, state, {}, FALSE, <<>>)
                  ELSE IF errors # {} THEN BuildData(at, state, errors, wizard.raced, wizard.sent)
                  ELSE IF at = 4 THEN Finalize(state)
                  ELSE BuildData(at + 1, state, {}, wizard.raced, <<>>)
  BY Zenon DEF Post
<1>7. action = "back" => at \in {3, 4}
  BY Zenon DEF Post
<1>8. {} \in SUBSET Fault /\ <<>> \in Seq(SentForm) /\ DOMAIN <<>> = {}
  OBVIOUS
<1> HIDE DEF at, state, errors
<1>9. at = 4 => OfTop(state, wizard.raced)
  BY <1>4 DEF WizardKept, ReviewIsOfTop, at
<1>10. CASE action = "back"
  <2> DEFINE before == at - 1
  <2>1. before \in 1..StepDone /\ before # 4
    <3>1. at \in {3, 4}
      BY <1>10, <1>7
    <3> QED
      BY <3>1 DEF StepDone
  <2>2. wizard' \in BuildData(before, state, {}, FALSE, <<>>)
    BY <1>6, <1>10
  <2> HIDE DEF before
  <2> QED
    BY <1>2, <1>8, <2>1, <2>2, BuildKeeps
<1>11. CASE action # "back" /\ errors # {}
  <2>1. at \in 1..StepDone /\ wizard' \in BuildData(at, state, errors, wizard.raced, wizard.sent)
    BY <1>1, <1>6, <1>11 DEF StepDone
  <2>2. wizard.sent # <<>> => at \in {4, StepDone}
    BY DEF WizardKept, SentAtTheEnd, at
  <2>3. \A k \in DOMAIN wizard.sent :
          OfTop(wizard.sent[k].state, wizard.raced) /\ IsShown(wizard.sent[k])
    BY DEF WizardKept
  <2> QED
    BY <1>2, <1>3, <1>5, <1>9, <2>1, <2>2, <2>3, BuildKeeps
<1>12. CASE action # "back" /\ errors = {} /\ at = 4
  <2> DEFINE one == [state |-> state, target |-> TargetCategory(state), shown |-> Review(wizard)]
             sent == <<one>>
  <2>1. one \in SentForm /\ IsShown(one) /\ one.state = state
    BY <1>4, <1>12, ReviewShows DEF WizardKept
  <2>2. wizard' \in BuildData(StepDone, state, {}, wizard.raced, sent)
                      \cup BuildData(4, state, {"submit"}, wizard.raced, sent)
    BY <1>6, <1>12 DEF Finalize
  <2> HIDE DEF one
  <2>3. sent \in Seq(SentForm) /\ \A k \in DOMAIN sent : sent[k] = one
    BY <2>1
  <2> HIDE DEF sent
  <2>4. \A k \in DOMAIN sent : OfTop(sent[k].state, wizard.raced) /\ IsShown(sent[k])
    BY <1>9, <1>12, <2>1, <2>3
  <2>5. {"submit"} \in SUBSET Fault /\ 4 \in 1..StepDone /\ StepDone \in 1..StepDone /\ StepDone # 4
    BY DEF Fault, StepDone
  <2>6. CASE wizard' \in BuildData(StepDone, state, {}, wizard.raced, sent)
    BY <1>2, <1>5, <1>8, <2>3, <2>4, <2>5, <2>6, BuildKeeps
  <2>7. CASE wizard' \in BuildData(4, state, {"submit"}, wizard.raced, sent)
    BY <1>2, <1>5, <1>9, <1>12, <2>3, <2>4, <2>5, <2>7, BuildKeeps
  <2> QED
    BY <2>2, <2>6, <2>7
<1>13. CASE action # "back" /\ errors = {} /\ at # 4
  <2> DEFINE next == at + 1
  <2>1. next \in 1..StepDone /\ (next = 4 => at = 3)
    BY <1>1 DEF StepDone
  <2>2. wizard' \in BuildData(next, state, {}, wizard.raced, <<>>)
    BY <1>6, <1>13
  <2> HIDE DEF next
  <2>3. ASSUME at = 3
        PROVE  OfTop(state, wizard.raced)
    <3>1. state.categoryId # 0 /\ state.categoryId = wizard.top
      BY <1>1, <1>2, <1>3, <1>13, <2>3
    <3>2. ASSUME state.subcategoryId # 0, ~wizard.raced
          PROVE  state.subcategoryId \in ToSet(Below[state.categoryId])
      <4>1. ~wizard.loading /\ state.subcategoryId = wizard.sub
        BY <1>1, <1>2, <2>3, <3>2
      <4>2. state.subcategoryId \in ToSet(wizard.subs)
        BY <3>2, <4>1 DEF WizardKept, ChosenIsListed
      <4>3. wizard.subs \in {<<>>, Below[wizard.top]}
        BY <2>3, <3>1, <3>2, <4>1 DEF WizardKept, ListIsOfTop, at
      <4>4. wizard.subs # <<>>
        BY <4>2 DEF ToSet
      <4> QED
        BY <3>1, <4>2, <4>3, <4>4
    <3> QED
      BY <3>1, <3>2 DEF OfTop
  <2> QED
    BY <1>2, <1>5, <1>8, <2>1, <2>3, <2>2, BuildKeeps
<1> QED
  BY <1>10, <1>11, <1>12, <1>13

-----------------------------------------------------------------------------
(* The two lists.                                                          *)

LEMMA ListsKeep ==
    ASSUME WizardKept, wizard.step = 3, wizard' \in Page, wizard'.step = 3,
           wizard'.state = wizard.state, wizard'.sent = wizard.sent, ChosenIsListed', ListIsOfTop'
    PROVE  WizardKept'
<1>1. wizard.sent = <<>>
  BY DEF WizardKept, SentAtTheEnd, StepDone
<1>2. PageIsRead' /\ SentAtTheEnd' /\ ReviewIsOfTop'
  BY <1>1 DEF WizardKept, PageIsRead, SentAtTheEnd, ReviewIsOfTop
<1>3. DOMAIN wizard'.sent = {}
  BY <1>1
<1> QED
  BY <1>2, <1>3 DEF WizardKept

LEMMA ChooseTopKeeps ==
    ASSUME WizardKept, NEW c \in {0} \cup ToSet(wizard.tops), ChooseTop(c)
    PROVE  WizardKept'
<1>1. wizard \in Page /\ wizard.step = 3 /\ ChosenIsListed
  BY DEF WizardKept, ChooseTop
<1>2. CASE c = 0
  <2>1. wizard' = [wizard EXCEPT !.top = 0, !.sub = 0, !.preset = 0, !.subs = <<>>]
    BY <1>2 DEF ChooseTop
  <2>2. wizard' \in Page
    <3>1. <<>> \in Seq(Category)
      OBVIOUS
    <3> QED
      BY <1>1, <2>1, <3>1 DEF Page
  <2>3. /\ wizard'.step = 3 /\ wizard'.state = wizard.state /\ wizard'.sent = wizard.sent
        /\ wizard'.top = 0 /\ wizard'.sub = 0
    BY <1>1, <2>1 DEF Page
  <2>4. ChosenIsListed' /\ ListIsOfTop'
    BY <2>3 DEF ChosenIsListed, ListIsOfTop
  <2> QED
    BY <1>1, <2>2, <2>3, <2>4, ListsKeep
<1>3. CASE c # 0
  <2> DEFINE sub == IF wizard.sub = wizard.preset THEN 0 ELSE wizard.sub
             asked == wizard.asked \cup {c}
  <2>1. wizard' = [wizard EXCEPT !.top = c, !.sub = sub, !.preset = 0, !.loading = TRUE, !.asked = asked]
    BY <1>3 DEF ChooseTop
  <2>2. c \in Category
    <3>1. wizard.tops \in Seq(Category)
      BY <1>1 DEF Page
    <3>2. \A k \in DOMAIN wizard.tops : wizard.tops[k] \in Category
      BY <3>1
    <3>3. c \in ToSet(wizard.tops)
      BY <1>3
    <3> QED
      BY <3>2, <3>3 DEF ToSet
  <2>3. sub \in {0, wizard.sub} /\ sub \in {0} \cup Category /\ asked \in SUBSET Category
    BY <1>1, <2>2 DEF Page
  <2> HIDE DEF sub, asked
  <2>4. wizard' \in Page
    BY <1>1, <2>1, <2>2, <2>3 DEF Page
  <2>5. /\ wizard'.step = 3 /\ wizard'.state = wizard.state /\ wizard'.sent = wizard.sent
        /\ wizard'.sub = sub /\ wizard'.subs = wizard.subs /\ wizard'.loading
    BY <1>1, <2>1 DEF Page
  <2>6. ChosenIsListed' /\ ListIsOfTop'
    BY <1>1, <2>3, <2>5 DEF ChosenIsListed, ListIsOfTop
  <2> QED
    BY <1>1, <2>4, <2>5, <2>6, ListsKeep
<1> QED
  BY <1>2, <1>3

LEMMA ChildrenComeKeeps ==
    ASSUME WizardKept, NEW c \in wizard.asked, ChildrenCome(c)
    PROVE  WizardKept'
<1>1. wizard \in Page /\ wizard.step = 3
  BY DEF WizardKept, ChildrenCome
<1>2. PICK list \in {<<>>, Below[c]} :
        wizard' = [wizard EXCEPT !.asked = @ \ {c}, !.loading = FALSE, !.subs = list,
                                 !.sub = IF @ \in ToSet(list) THEN @ ELSE 0,
                                 !.raced = c # wizard.top /\ list # <<>>]
  BY DEF ChildrenCome
<1> DEFINE sub == IF wizard.sub \in ToSet(list) THEN wizard.sub ELSE 0
           raced == c # wizard.top /\ list # <<>>
           asked == wizard.asked \ {c}
<1>3. wizard' = [wizard EXCEPT !.asked = asked, !.loading = FALSE, !.subs = list,
                               !.sub = sub, !.raced = raced]
  BY <1>2
<1>4. list \in Seq(Category)
  <2>1. c \in Category
    BY <1>1 DEF Page
  <2>2. Below[c] \in Seq(Category)
    BY <2>1, CategoryAssumption
  <2>3. <<>> \in Seq(Category)
    OBVIOUS
  <2> QED
    BY <1>2, <2>2, <2>3
<1>5. /\ sub \in {0} \cup Category /\ raced \in BOOLEAN /\ asked \in SUBSET Category
      /\ sub # 0 => sub \in ToSet(list)
      /\ ~raced => list \in {<<>>, Below[wizard.top]}
  BY <1>1 DEF Page
<1> HIDE DEF sub, raced, asked
<1>6. wizard' \in Page
  BY <1>1, <1>3, <1>4, <1>5 DEF Page
<1>7. /\ wizard'.step = 3 /\ wizard'.state = wizard.state /\ wizard'.sent = wizard.sent
      /\ wizard'.sub = sub /\ wizard'.subs = list /\ wizard'.top = wizard.top /\ wizard'.raced = raced
  BY <1>1, <1>3 DEF Page
<1>8. ChosenIsListed' /\ ListIsOfTop'
  BY <1>5, <1>7 DEF ChosenIsListed, ListIsOfTop
<1> QED
  BY <1>1, <1>6, <1>7, <1>8, ListsKeep

LEMMA ChooseSubKeeps ==
    ASSUME WizardKept, NEW s \in {0} \cup ToSet(wizard.subs), ChooseSub(s)
    PROVE  WizardKept'
<1>1. wizard \in Page /\ wizard.step = 3 /\ ListIsOfTop /\ wizard' = [wizard EXCEPT !.sub = s]
  BY DEF WizardKept, ChooseSub
<1>2. s \in {0} \cup Category
  <2>1. \A k \in DOMAIN wizard.subs : wizard.subs[k] \in Category
    BY <1>1 DEF Page
  <2> QED
    BY <2>1 DEF ToSet
<1>3. wizard' \in Page
  BY <1>1, <1>2 DEF Page
<1>4. /\ wizard'.step = 3 /\ wizard'.state = wizard.state /\ wizard'.sent = wizard.sent
      /\ wizard'.sub = s /\ wizard'.subs = wizard.subs /\ wizard'.top = wizard.top
      /\ wizard'.raced = wizard.raced /\ wizard'.loading = wizard.loading
  BY <1>1 DEF Page
<1>5. ChosenIsListed' /\ ListIsOfTop'
  BY <1>1, <1>4 DEF ChosenIsListed, ListIsOfTop
<1> QED
  BY <1>1, <1>3, <1>4, <1>5, ListsKeep

LEMMA NoWizardKept ==
    ASSUME wizard = NoWizard
    PROVE  WizardKept
<1>1. wizard \in Page
  BY NoWizardIsPage
<1>2. /\ wizard.step = 0 /\ wizard.state = EmptyState /\ wizard.sub = 0 /\ wizard.sent = <<>>
  BY DEF NoWizard
<1>3. PageIsRead
  BY <1>2, EmptyIsRead DEF PageIsRead
<1>4. DOMAIN wizard.sent = {}
  BY <1>2
<1> QED
  BY <1>1, <1>2, <1>3, <1>4 DEF WizardKept, SentAtTheEnd, ChosenIsListed, ListIsOfTop, ReviewIsOfTop

LEMMA WizardNextKeeps ==
    ASSUME WizardKept, WizardNext
    PROVE  WizardKept'
<1>1. CASE Begin
  <2>1. wizard' \in BuildData(1, EmptyState, {}, FALSE, <<>>)
    BY <1>1 DEF Begin
  <2>2. 1 \in 1..StepDone /\ 1 # 4 /\ {} \in SUBSET Fault /\ <<>> \in Seq(SentForm)
    BY DEF StepDone
  <2>3. PICK none : none = <<>>
    OBVIOUS
  <2>4. \A k \in DOMAIN none : OfTop(none[k].state, FALSE) /\ IsShown(none[k])
    BY <2>3
  <2> QED
    BY <2>1, <2>2, <2>3, <2>4, EmptyIsRead, BuildKeeps
<1>2. CASE CloseWizard
  <2>1. wizard' = NoWizard
    BY <1>2 DEF CloseWizard
  <2>2. (wizard = NoWizard => WizardKept)'
    BY NoWizardKept, PTL
  <2> QED
    BY <2>1, <2>2
<1>3. ASSUME NEW form \in Forms, NEW action \in {"next", "back"}, NEW confirmed \in BOOLEAN,
             Post(action, form, confirmed)
      PROVE  WizardKept'
  BY <1>3, PostKeeps
<1>4. ASSUME NEW c \in {0} \cup ToSet(wizard.tops), ChooseTop(c)
      PROVE  WizardKept'
  BY <1>4, ChooseTopKeeps
<1>5. ASSUME NEW c \in wizard.asked, ChildrenCome(c)
      PROVE  WizardKept'
  BY <1>5, ChildrenComeKeeps
<1>6. ASSUME NEW s \in {0} \cup ToSet(wizard.subs), ChooseSub(s)
      PROVE  WizardKept'
  BY <1>6, ChooseSubKeeps
<1> QED
  BY <1>1, <1>2, <1>3, <1>4, <1>5, <1>6 DEF WizardNext

-----------------------------------------------------------------------------
(* The picker and the bar.                                                 *)

LEMMA NoPickerKept ==
    ASSUME picker = NoPicker
    PROVE  PickerKept
BY DEF PickerKept, NoPicker

LEMMA PickerNextKeeps ==
    ASSUME PickerKept, PickerNext
    PROVE  PickerKept'
<1> DEFINE Fields == {"open", "text", "id", "label", "timers", "asked", "results", "sent"}
<1>1. DOMAIN NoPicker = Fields
  BY DEF NoPicker
<1>2. DOMAIN picker = Fields
  BY <1>1 DEF PickerKept
<1>3. ASSUME NEW id, OpenPicker(id)
      PROVE  PickerKept'
  <2>1. /\ DOMAIN picker' = Fields /\ picker'.id = id /\ picker'.sent = <<>>
        /\ id # 0 => picker'.text = Label[id] /\ picker'.label = Label[id]
    BY <1>3 DEF OpenPicker, NoPicker
  <2> QED
    BY <1>1, <2>1 DEF PickerKept
<1>4. ASSUME NEW id, Pick(id)
      PROVE  PickerKept'
  <2>1. /\ DOMAIN picker' = Fields /\ picker'.id = id /\ picker'.sent = picker.sent
        /\ picker'.text = Label[id] /\ picker'.label = Label[id]
    BY <1>2, <1>4 DEF Pick
  <2> QED
    BY <1>1, <2>1 DEF PickerKept
<1>5. ASSUME NEW text, OnInput(text)
      PROVE  PickerKept'
  <2> DEFINE typed == Input(picker, text)
  <2>1. /\ DOMAIN typed = Fields /\ typed.sent = picker.sent
        /\ typed.id # 0 => typed.id = picker.id /\ typed.text = picker.label /\ typed.label = picker.label
    BY <1>2 DEF Input
  <2> HIDE DEF typed
  <2>2. /\ DOMAIN picker' = Fields /\ picker'.sent = typed.sent /\ picker'.id = typed.id
        /\ picker'.text = typed.text /\ picker'.label = typed.label
    <3>1. picker' = [typed EXCEPT !.results = {}] \/ picker' = [typed EXCEPT !.timers = @ \cup {text}]
      BY <1>5 DEF OnInput, typed
    <3> QED
      BY <2>1, <3>1
  <2> QED
    BY <1>1, <2>1, <2>2 DEF PickerKept
<1>6. ASSUME NEW text, TimerFires(text) \/ ResultsCome(text)
      PROVE  PickerKept'
  <2>1. /\ DOMAIN picker' = Fields /\ picker'.id = picker.id /\ picker'.sent = picker.sent
        /\ picker'.text = picker.text /\ picker'.label = picker.label
    <3>1. CASE TimerFires(text)
      BY <1>2, <3>1 DEF TimerFires
    <3>2. CASE ResultsCome(text)
      BY <1>2, <3>2 DEF ResultsCome
    <3> QED
      BY <1>6, <3>1, <3>2
  <2> QED
    BY <1>1, <2>1 DEF PickerKept
<1>7. CASE Clear
  <2>1. DOMAIN picker' = Fields /\ picker'.id = 0 /\ picker'.sent = picker.sent
    BY <1>2, <1>7 DEF Clear
  <2> QED
    BY <1>1, <2>1 DEF PickerKept
<1>8. CASE SubmitPicked
  <2>1. /\ DOMAIN picker' = Fields /\ picker'.id = 0
        /\ picker'.sent = <<[id |-> picker.id, shown |-> picker.text]>>
    BY <1>8 DEF SubmitPicked, NoPicker
  <2>2. \A k \in DOMAIN picker'.sent :
          picker'.sent[k].id = picker.id /\ picker'.sent[k].shown = picker.text
    BY <2>1
  <2> QED
    BY <1>1, <2>1, <2>2 DEF PickerKept
<1>9. CASE LeavePicker
  <2>1. picker' = NoPicker
    BY <1>9 DEF LeavePicker
  <2>2. (picker = NoPicker => PickerKept)'
    BY NoPickerKept, PTL
  <2> QED
    BY <2>1, <2>2
<1> QED
  BY <1>3, <1>4, <1>5, <1>6, <1>7, <1>8, <1>9 DEF PickerNext

LEMMA NoBulkKept ==
    ASSUME bulk = NoBulk
    PROVE  BulkKept
BY DEF BulkKept, NoBulk

LEMMA BulkNextKeeps ==
    ASSUME BulkKept, BulkNext
    PROVE  BulkKept'
<1> DEFINE Fields == {"listed", "ticked", "open", "typed", "fresh", "sent"}
<1>1. DOMAIN NoBulk = Fields
  BY DEF NoBulk
<1>2. DOMAIN bulk = Fields
  BY <1>1 DEF BulkKept
<1>3. ASSUME DOMAIN bulk' = Fields, bulk'.sent \in {<<>>, bulk.sent}
      PROVE  BulkKept'
  BY <1>1, <1>3 DEF BulkKept
<1>4. ASSUME NEW op, NEW phrase, op = "delete" => phrase = Cardinality(bulk.ticked),
             DOMAIN bulk' = Fields, bulk'.sent = Send(op, phrase)
      PROVE  BulkKept'
  <2>1. CASE bulk.ticked = {}
    BY <1>3, <1>4, <2>1 DEF Send
  <2>2. CASE bulk.ticked # {}
    <3>1. bulk'.sent = <<[op |-> op, ids |-> bulk.ticked, phrase |-> phrase]>>
      BY <1>4, <2>2 DEF Send
    <3>2. \A k \in DOMAIN bulk'.sent : /\ bulk'.sent[k].op = op /\ bulk'.sent[k].ids = bulk.ticked
                                      /\ bulk'.sent[k].phrase = phrase
      BY <3>1
    <3> QED
      BY <1>1, <1>4, <3>2 DEF BulkKept
  <2> QED
    BY <2>1, <2>2
<1>5. CASE LoadTable
  BY <1>3, <1>5 DEF LoadTable, NoBulk
<1>6. CASE ClearSelection
  BY <1>2, <1>3, <1>6 DEF ClearSelection
<1>7. CASE AskToConfirm
  BY <1>2, <1>3, <1>7 DEF AskToConfirm
<1>8. CASE EmptyPhrase
  BY <1>2, <1>3, <1>8 DEF EmptyPhrase
<1>9. CASE Cancel
  BY <1>2, <1>3, <1>9 DEF Cancel
<1>10. CASE Confirm
  <2>1. /\ bulk.typed = Cardinality(bulk.ticked)
        /\ DOMAIN bulk' = Fields /\ bulk'.sent = Send("delete", bulk.typed)
    BY <1>2, <1>10 DEF Confirm
  <2> QED
    BY <1>4, <2>1
<1>11. ASSUME NEW row \in Rows, Toggle(row)
       PROVE  BulkKept'
  BY <1>2, <1>3, <1>11 DEF Toggle
<1>12. ASSUME NEW n, TypePhrase(n)
       PROVE  BulkKept'
  BY <1>2, <1>3, <1>12 DEF TypePhrase
<1>13. ASSUME NEW status \in {"approved", "rejected"}, SetStatus(status)
       PROVE  BulkKept'
  <2>1. status # "delete" /\ DOMAIN bulk' = Fields /\ bulk'.sent = Send(status, 0)
    BY <1>2, <1>13 DEF SetStatus
  <2> QED
    BY <1>4, <2>1
<1> QED
  BY <1>5, <1>6, <1>7, <1>8, <1>9, <1>10, <1>11, <1>12, <1>13 DEF BulkNext

-----------------------------------------------------------------------------

LEMMA FormsStay ==
    /\ wizard' = wizard => (WizardKept <=> WizardKept')
    /\ picker' = picker => (PickerKept <=> PickerKept')
    /\ bulk' = bulk => (BulkKept <=> BulkKept')
<1>1. wizard' = wizard => (WizardKept <=> WizardKept')
  BY DEF WizardKept, PageIsRead, SentAtTheEnd, ChosenIsListed, ListIsOfTop, ReviewIsOfTop
<1>2. picker' = picker => (PickerKept <=> PickerKept')
  BY DEF PickerKept
<1>3. bulk' = bulk => (BulkKept <=> BulkKept')
  BY DEF BulkKept
<1> QED
  BY <1>1, <1>2, <1>3

(* The invariant of the forms: each page was read as the site reads what   *)
(* is sent to it, lists what can be chosen from it, and leads to no        *)
(* category but the one shown.                                             *)
THEOREM FormsAreKept == FormsSpec => []FormsKept
<1>1. FormsIdle => FormsKept
  BY NoWizardKept, NoPickerKept, NoBulkKept DEF FormsIdle, FormsKept
<1>2. FormsKept /\ [FormsNext]_formVars => FormsKept'
  <2> SUFFICES ASSUME FormsKept, [FormsNext]_formVars
               PROVE  FormsKept'
    OBVIOUS
  <2> USE DEF FormsKept
  <2>1. CASE WizardNext
    <3>1. picker' = picker /\ bulk' = bulk
      BY <2>1 DEF WizardNext, Begin, CloseWizard, Post, ChooseTop, ChildrenCome, ChooseSub
    <3> QED
      BY <2>1, <3>1, WizardNextKeeps, FormsStay
  <2>2. CASE PickerNext
    <3>1. wizard' = wizard /\ bulk' = bulk
      BY <2>2 DEF PickerNext, OpenPicker, Pick, OnInput, TimerFires, ResultsCome, Clear, SubmitPicked,
                  LeavePicker
    <3> QED
      BY <2>2, <3>1, PickerNextKeeps, FormsStay
  <2>3. CASE BulkNext
    <3>1. wizard' = wizard /\ picker' = picker
      BY <2>3 DEF BulkNext, LoadTable, ClearSelection, AskToConfirm, EmptyPhrase, Cancel, Confirm, Toggle,
                  TypePhrase, SetStatus
    <3> QED
      BY <2>3, <3>1, BulkNextKeeps, FormsStay
  <2>4. CASE UNCHANGED formVars
    BY <2>4, FormsStay DEF formVars
  <2> QED
    BY <2>1, <2>2, <2>3, <2>4 DEF FormsNext
<1> QED
  BY <1>1, <1>2, PTL DEF FormsSpec

(* Whatever tree the categories form, whatever is typed, and however the   *)
(* replies come, a submission goes to a category right below the one       *)
(* chosen or to that one.                                                  *)
THEOREM SubmissionsStayBelow == FormsSpec => []SubcategoryIsOfTop
<1>1. FormsKept => SubcategoryIsOfTop
  BY DEF FormsKept, WizardKept, OfTop, SubcategoryIsOfTop
<1> QED
  BY <1>1, FormsAreKept, PTL

(* What a form sends is what it showed: the submission its review, the     *)
(* picker the label in its box, the bar the number typed to delete rows.   *)
THEOREM FormsSendWhatTheyShow == FormsSpec => []SubmittedIsShown
<1>1. FormsKept => SubmittedIsShown
  BY DEF FormsKept, WizardKept, PickerKept, BulkKept, IsShown, SubmittedIsShown
<1> QED
  BY <1>1, FormsAreKept, PTL

=============================================================================
