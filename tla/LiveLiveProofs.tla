--------------------------- MODULE LiveLiveProofs ---------------------------
(***************************************************************************)
(* Proofs about LiveLive, for any paths, any losses, any lag, any set of   *)
(* steering entries between which the control plane switches, and widths   *)
(* that meet WindowAssumption: the packets of a wrapped counter and the    *)
(* slides that the shift truncates are among the cases.                    *)
(***************************************************************************)
EXTENDS LiveLive, DedupWindowProofs, SequenceTheorems, FiniteSetTheorems

WindowOK == Placeable(flow_window_start)

\* As DeliveredIsRemembered of Deduplicator, for packets and their numbers.
ReceivedIsRemembered ==
    \A id \in Sent :
        Numbered(id) /\ received[id] > 0 =>
            Seen(flow_window_start, flow_to_bitmap, log[id].seq)

OnlySentReceived == \A id \in Packets : received[id] > 0 => id \in Sent

\* A packet that is not live-live has one copy, and none once received.
SingleCopy ==
    \A id \in Sent : ~ log[id].live =>
        \A p, q \in Paths :
            \A i \in 1 .. Len(link[p]), j \in 1 .. Len(link[q]) :
                link[p][i] = id /\ link[q][j] = id => p = q /\ i = j

SingleDone ==
    \A id \in Sent : ~ log[id].live /\ received[id] > 0 => Gone(id)

IInv ==
    /\ TypeOK
    /\ WindowOK
    /\ ReceivedIsRemembered
    /\ OnlySentReceived
    /\ SingleCopy
    /\ SingleDone
    /\ AtMostOnceToHost
-----------------------------------------------------------------------------
LEMMA SeqWidens ==
    ASSUME NEW S, NEW T, S \subseteq T, NEW q \in Seq(S)
    PROVE  q \in Seq(T)
<1>1. \A i \in 1 .. Len(q) : q[i] \in T
  BY ElementOfSeq
<1> QED  BY <1>1, SeqDef, LenProperties

LEMMA InitIInv == Init => IInv
<1> SUFFICES ASSUME Init PROVE IInv
  OBVIOUS
<1>1. Placeable(0) /\ 0 \in SeqNo
  BY WindowAssumption, PlaceableInRange DEF Placeable
<1>2. log = << >> /\ Len(log) = 0 /\ Sent = {}
  BY DEF Init, Sent
<1>3. TypeOK
  <2>1. log \in Seq(Header)
    BY <1>2
  <2>2. link \in [Paths -> Seq(Sent)]
    BY DEF Init
  <2>3. Len(log) <= MaxPackets
    BY <1>2, LiveLiveAssumption
  <2>4. entry \in Entries /\ seq_n \in SeqNo /\ flow_window_start \in SeqNo
    BY <1>1 DEF Init
  <2>5. /\ lost \in [Packets -> SUBSET Ports]
        /\ flow_to_bitmap \in SUBSET Index
        /\ received \in [Packets -> Nat]
        /\ aliased \in BOOLEAN
    BY DEF Init
  <2> QED  BY <2>1, <2>2, <2>3, <2>4, <2>5 DEF TypeOK
<1>4. WindowOK
  BY <1>1 DEF Init, WindowOK
<1>5. ReceivedIsRemembered /\ SingleCopy /\ SingleDone
  BY <1>2 DEF ReceivedIsRemembered, SingleCopy, SingleDone
<1>6. OnlySentReceived /\ AtMostOnceToHost
  BY DEF Init, OnlySentReceived, AtMostOnceToHost
<1> QED  BY <1>3, <1>4, <1>5, <1>6 DEF IInv

\* What a path holds once it gave up its oldest packet.
LEMMA PopMeaning ==
    ASSUME TypeOK, NEW p \in Paths, link[p] # << >>,
           link' = [link EXCEPT ![p] = Tail(@)]
    PROVE  /\ link' \in [Paths -> Seq(Sent)]
           /\ Len(link[p]) \in Nat \ {0}
           /\ Head(link[p]) = link[p][1]
           /\ Head(link[p]) \in Sent
           /\ \A q \in Paths : \A i \in 1 .. Len(link'[q]) :
                \/ /\ q = p
                   /\ i + 1 \in 1 .. Len(link[q])
                   /\ link'[q][i] = link[q][i + 1]
                \/ /\ q # p
                   /\ i \in 1 .. Len(link[q])
                   /\ link'[q][i] = link[q][i]
<1>1. link \in [Paths -> Seq(Sent)] /\ link[p] \in Seq(Sent)
  BY DEF TypeOK
<1>2. /\ Head(link[p]) \in Sent
      /\ Tail(link[p]) \in Seq(Sent)
      /\ Len(Tail(link[p])) = Len(link[p]) - 1
      /\ \A i \in 1 .. Len(Tail(link[p])) : Tail(link[p])[i] = link[p][i + 1]
  BY <1>1, HeadTailProperties
<1>3. Len(link[p]) \in Nat \ {0} /\ Head(link[p]) = link[p][1]
  BY <1>1, EmptySeq, LenProperties
<1>4. link' \in [Paths -> Seq(Sent)]
  BY <1>1, <1>2
<1>5. ASSUME NEW q \in Paths, NEW i \in 1 .. Len(link'[q])
      PROVE  \/ /\ q = p
                /\ i + 1 \in 1 .. Len(link[q])
                /\ link'[q][i] = link[q][i + 1]
             \/ /\ q # p
                /\ i \in 1 .. Len(link[q])
                /\ link'[q][i] = link[q][i]
  <2>1. CASE q = p
    <3>1. link'[q] = Tail(link[p])
      BY <1>1, <2>1
    <3>2. i \in 1 .. Len(Tail(link[p]))
      BY <1>5, <3>1
    <3>3. Tail(link[p])[i] = link[p][i + 1]
      BY <1>2, <3>2
    <3>4. i + 1 \in 1 .. Len(link[p])
      BY <1>2, <1>3, <3>2
    <3> QED  BY <2>1, <3>1, <3>3, <3>4
  <2>2. CASE q # p
    <3>1. link'[q] = link[q]
      BY <1>1, <2>2
    <3> QED  BY <1>5, <2>2, <3>1
  <2> QED  BY <2>1, <2>2
<1> QED  BY <1>2, <1>3, <1>4, <1>5

\* Taking a packet off a path makes no copies.
LEMMA PopKeepsCopies ==
    ASSUME TypeOK, SingleCopy, NEW p \in Paths, link[p] # << >>,
           link' = [link EXCEPT ![p] = Tail(@)], UNCHANGED log
    PROVE  /\ SingleCopy'
           /\ \A id \in Sent : Gone(id) => Gone(id)'
           /\ \A id \in Sent :
                id = link[p][1] /\ ~ log[id].live => Gone(id)'
<1>1. Sent' = Sent
  BY DEF Sent
<1>2. \A id \in Sent, q \in Paths : OnPath(id, q)' => OnPath(id, q)
  BY PopMeaning DEF OnPath
<1>3. SingleCopy'
  <2> SUFFICES ASSUME NEW id \in Sent, ~ log[id].live,
                      NEW a \in Paths, NEW b \in Paths,
                      NEW i \in 1 .. Len(link'[a]),
                      NEW j \in 1 .. Len(link'[b]),
                      link'[a][i] = id, link'[b][j] = id
               PROVE  a = b /\ i = j
    BY <1>1 DEF SingleCopy
  <2>1. PICK k \in 1 .. Len(link[a]) :
            /\ link[a][k] = id
            /\ (a = p /\ k = i + 1) \/ (a # p /\ k = i)
    <3>1. CASE a = p /\ i + 1 \in 1 .. Len(link[a])
               /\ link'[a][i] = link[a][i + 1]
      BY <3>1
    <3>2. CASE a # p /\ i \in 1 .. Len(link[a])
               /\ link'[a][i] = link[a][i]
      BY <3>2
    <3> QED  BY <3>1, <3>2, PopMeaning
  <2>2. PICK l \in 1 .. Len(link[b]) :
            /\ link[b][l] = id
            /\ (b = p /\ l = j + 1) \/ (b # p /\ l = j)
    <3>1. CASE b = p /\ j + 1 \in 1 .. Len(link[b])
               /\ link'[b][j] = link[b][j + 1]
      BY <3>1
    <3>2. CASE b # p /\ j \in 1 .. Len(link[b])
               /\ link'[b][j] = link[b][j]
      BY <3>2
    <3> QED  BY <3>1, <3>2, PopMeaning
  <2>3. a = b /\ k = l
    BY <2>1, <2>2 DEF SingleCopy
  <2>4. i \in Int /\ j \in Int
    OBVIOUS
  <2> QED  BY <2>1, <2>2, <2>3, <2>4
<1>4. \A id \in Sent : Gone(id) => Gone(id)'
  BY <1>2 DEF Gone
<1>5. ASSUME NEW id \in Sent, id = link[p][1], ~ log[id].live
      PROVE  Gone(id)'
  <2> SUFFICES ASSUME NEW q \in Paths, NEW i \in 1 .. Len(link'[q]),
                      link'[q][i] = id
               PROVE  FALSE
    BY DEF Gone, OnPath
  <2>1. 1 \in 1 .. Len(link[p])
    BY PopMeaning
  <2>2. CASE /\ q = p
             /\ i + 1 \in 1 .. Len(link[q])
             /\ link'[q][i] = link[q][i + 1]
    <3>1. i + 1 = 1
      BY <1>5, <2>1, <2>2 DEF SingleCopy
    <3> QED  BY <3>1
  <2>3. CASE /\ q # p
             /\ i \in 1 .. Len(link[q])
             /\ link'[q][i] = link[q][i]
    BY <1>5, <2>1, <2>3 DEF SingleCopy
  <2> QED  BY <2>2, <2>3, PopMeaning
<1> QED  BY <1>3, <1>4, <1>5

-----------------------------------------------------------------------------
\* Two actions leave everything IInv speaks of but the paths alone.
LEMMA LoseKeepsIInv ==
    ASSUME IInv, NEW p \in Paths, Lose(p)
    PROVE  IInv'
<1> USE DEF Lose, e1_vars, e2_vars
<1>1. /\ TypeOK /\ SingleCopy /\ link[p] # << >> /\ UNCHANGED log
      /\ link' = [link EXCEPT ![p] = Tail(@)] /\ Sent' = Sent
  BY DEF IInv, Sent
<1>2. TypeOK'
  <2>1. link' \in [Paths -> Seq(Sent)]
    BY <1>1, PopMeaning
  <2>2. lost' \in [Packets -> SUBSET Ports]
    <3>1. p \in Ports
      BY DEF Ports
    <3> QED  BY <1>1, <3>1 DEF TypeOK
  <2> QED  BY <1>1, <2>1, <2>2 DEF TypeOK
<1>3. WindowOK' /\ OnlySentReceived' /\ AtMostOnceToHost'
  BY <1>1 DEF IInv, WindowOK, OnlySentReceived, AtMostOnceToHost
<1>4. ReceivedIsRemembered'
  BY <1>1 DEF IInv, ReceivedIsRemembered, Numbered
<1>5. SingleCopy'
  BY <1>1, PopKeepsCopies
<1>6. SingleDone'
  <2>1. \A id \in Sent : Gone(id) => Gone(id)'
    BY <1>1, PopKeepsCopies
  <2> QED  BY <1>1, <2>1 DEF IInv, SingleDone
<1> QED  BY <1>2, <1>3, <1>4, <1>5, <1>6 DEF IInv

LEMMA SetEntryKeepsIInv ==
    ASSUME IInv, NEW e \in Entries, SetEntry(e)
    PROVE  IInv'
<1> USE DEF SetEntry, e2_vars
<1>1. /\ Sent' = Sent /\ UNCHANGED <<log, link, received>>
      /\ \A id : Gone(id)' = Gone(id)
  BY DEF Sent, Gone, OnPath
<1>2. TypeOK'
  BY <1>1 DEF IInv, TypeOK
<1>3. WindowOK' /\ OnlySentReceived' /\ AtMostOnceToHost'
  BY <1>1 DEF IInv, WindowOK, OnlySentReceived, AtMostOnceToHost
<1>4. ReceivedIsRemembered'
  BY <1>1 DEF IInv, ReceivedIsRemembered, Numbered
<1>5. SingleCopy'
  BY <1>1 DEF IInv, SingleCopy
<1>6. SingleDone'
  BY <1>1 DEF IInv, SingleDone
<1> QED  BY <1>2, <1>3, <1>4, <1>5, <1>6 DEF IInv

\* e1 appends the new packet to the log and to some of the paths.
LEMMA SendMeaning ==
    ASSUME TypeOK, Send
    PROVE  \E ports \in Spread(entry) :
             LET id == Len(log) + 1
             IN  /\ id \in Packets /\ id \notin Sent
                 /\ Len(log') = id /\ Sent' = Sent \cup {id}
                 /\ \A n \in Sent : log'[n] = log[n]
                 /\ log'[id].live = (entry.action = "live_live_mcast")
                 /\ log' \in Seq(Header)
                 /\ link' \in [Paths -> Seq(Sent')]
                 /\ seq_n' \in SeqNo
                 /\ \A p \in Paths : \A i \in 1 .. Len(link'[p]) :
                      \/ /\ link'[p][i] = id
                         /\ p \in ports
                         /\ i = Len(link[p]) + 1
                      \/ /\ i \in 1 .. Len(link[p])
                         /\ link'[p][i] = link[p][i]
<1> DEFINE id == Len(log) + 1
           live == entry.action = "live_live_mcast"
           seq == IF live THEN NextSeqNo(seq_n) ELSE seq_n
<1>1. PICK ports \in Spread(entry) :
        /\ log' = Append(log, [live |-> live, seq |-> seq, ports |-> ports])
        /\ link' = [p \in Paths |-> IF p \in ports
                                    THEN Append(link[p], id)
                                    ELSE link[p]]
  BY DEF Send
<1>2. /\ log \in Seq(Header) /\ Len(log) \in Nat
      /\ link \in [Paths -> Seq(Sent)]
      /\ seq_n \in SeqNo /\ entry \in Entries
  BY LenProperties DEF TypeOK
<1>3. id \in Packets /\ id \notin Sent
  BY <1>2, LiveLiveAssumption DEF Send, Packets, Sent
<1>4. seq \in SeqNo
  <2>1. seq_n + 1 \in Int
    BY <1>2 DEF SeqNo
  <2>2. NextSeqNo(seq_n) \in SeqNo
    BY <2>1, ModRange, WindowAssumption DEF NextSeqNo, ToSeqNo, SeqNo
  <2> QED  BY <1>2, <2>2
<1>5. [live |-> live, seq |-> seq, ports |-> ports] \in Header
  <2>1. ports \in UNION {Spread(e) : e \in Entries}
    BY <1>1, <1>2
  <2>2. live \in BOOLEAN
    OBVIOUS
  <2> HIDE DEF live, seq
  <2> QED  BY <1>4, <2>1, <2>2 DEF Header
<1>6. /\ log' \in Seq(Header) /\ Len(log') = id
      /\ \A n \in 1 .. Len(log) : log'[n] = log[n]
      /\ log'[id] = [live |-> live, seq |-> seq, ports |-> ports]
  <2> HIDE DEF live, seq
  <2> QED  BY <1>1, <1>2, <1>5, AppendProperties
<1>7. Sent' = Sent \cup {id}
  BY <1>2, <1>6 DEF Sent
<1>8. \A p \in Paths : link[p] \in Seq(Sent') /\ Len(link[p]) \in Nat
  BY <1>2, <1>7, SeqWidens, LenProperties
<1>9. ASSUME NEW p \in Paths
      PROVE  /\ link'[p] \in Seq(Sent')
             /\ \A i \in 1 .. Len(link'[p]) :
                  \/ /\ link'[p][i] = id
                     /\ p \in ports
                     /\ i = Len(link[p]) + 1
                  \/ /\ i \in 1 .. Len(link[p])
                     /\ link'[p][i] = link[p][i]
  <2>1. CASE p \notin ports
    <3>1. link'[p] = link[p]
      BY <1>1, <2>1
    <3> QED  BY <1>8, <3>1
  <2>2. CASE p \in ports
    <3>1. link'[p] = Append(link[p], id) /\ id \in Sent'
      BY <1>1, <1>7, <2>2
    <3>2. /\ link'[p] \in Seq(Sent')
          /\ Len(link'[p]) = Len(link[p]) + 1
          /\ \A i \in 1 .. Len(link[p]) : link'[p][i] = link[p][i]
          /\ link'[p][Len(link[p]) + 1] = id
      BY <1>8, <3>1, AppendProperties
    <3> QED  BY <1>8, <2>2, <3>2
  <2> QED  BY <2>1, <2>2
<1>10. link' \in [Paths -> Seq(Sent')]
  BY <1>1, <1>9
<1>11. log'[id].live = (entry.action = "live_live_mcast") /\ seq_n' \in SeqNo
  BY <1>4, <1>6 DEF Send
<1> HIDE DEF live, seq
<1> QED  BY <1>1, <1>3, <1>6, <1>7, <1>9, <1>10, <1>11 DEF Sent

LEMMA SendKeepsIInv ==
    ASSUME IInv, Send
    PROVE  IInv'
<1> DEFINE id == Len(log) + 1
<1> USE DEF e2_vars
<1>1. PICK ports \in Spread(entry) :
        /\ id \in Packets /\ id \notin Sent
        /\ Len(log') = id /\ Sent' = Sent \cup {id}
        /\ \A n \in Sent : log'[n] = log[n]
        /\ log'[id].live = (entry.action = "live_live_mcast")
        /\ log' \in Seq(Header)
        /\ link' \in [Paths -> Seq(Sent')]
        /\ seq_n' \in SeqNo
        /\ \A p \in Paths : \A i \in 1 .. Len(link'[p]) :
             \/ /\ link'[p][i] = id
                /\ p \in ports
                /\ i = Len(link[p]) + 1
             \/ /\ i \in 1 .. Len(link[p])
                /\ link'[p][i] = link[p][i]
  BY SendMeaning DEF IInv
<1>2. UNCHANGED <<entry, received, flow_window_start, flow_to_bitmap, aliased>>
  BY DEF Send
<1>3. received[id] = 0 /\ received' = received
  BY <1>1, <1>2 DEF IInv, OnlySentReceived, TypeOK
<1>4. TypeOK'
  <2>1. lost' \in [Packets -> SUBSET Ports]
    <3>1. PICK q \in Spread(entry) : lost' = [lost EXCEPT ![id] = q \ Paths]
      BY DEF Send
    <3>2. q \subseteq Ports
      <4>1. entry \in Entries
        BY DEF IInv, TypeOK
      <4>2. q \subseteq entry.ports
        BY <3>1 DEF Spread
      <4> QED  BY <4>1, <4>2 DEF Ports
    <3> QED  BY <3>1, <3>2 DEF IInv, TypeOK
  <2>2. Len(log') <= MaxPackets
    BY <1>1, LiveLiveAssumption DEF Packets
  <2> QED  BY <1>1, <1>2, <2>1, <2>2 DEF IInv, TypeOK
<1>5. WindowOK' /\ AtMostOnceToHost' /\ OnlySentReceived'
  BY <1>1, <1>2 DEF IInv, WindowOK, AtMostOnceToHost, OnlySentReceived
<1>6. ReceivedIsRemembered'
  <2> SUFFICES ASSUME NEW n \in Sent', Deduplicate, log'[n].live,
                      received[n] > 0
               PROVE  Seen(flow_window_start, flow_to_bitmap, log'[n].seq)
    BY <1>2 DEF ReceivedIsRemembered, Numbered
  <2>1. n \in Sent /\ log'[n] = log[n]
    BY <1>1, <1>3
  <2> QED  BY <2>1 DEF IInv, ReceivedIsRemembered, Numbered
<1>7. SingleCopy'
  <2> SUFFICES ASSUME NEW n \in Sent', ~ log'[n].live,
                      NEW a \in Paths, NEW b \in Paths,
                      NEW i \in 1 .. Len(link'[a]),
                      NEW j \in 1 .. Len(link'[b]),
                      link'[a][i] = n, link'[b][j] = n
               PROVE  a = b /\ i = j
    BY DEF SingleCopy
  <2>1. \A p \in Paths : \A k \in 1 .. Len(link[p]) : link[p][k] \in Sent
    BY ElementOfSeq DEF IInv, TypeOK
  <2>2. CASE n = id
    <3>1. a \in ports /\ i = Len(link[a]) + 1
      BY <1>1, <2>1, <2>2
    <3>2. b \in ports /\ j = Len(link[b]) + 1
      BY <1>1, <2>1, <2>2
    <3>3. entry.action # "live_live_mcast"
      BY <1>1, <2>2
    <3>4. a = b
      BY <3>1, <3>2, <3>3 DEF Spread
    <3> QED  BY <3>1, <3>2, <3>4
  <2>3. CASE n # id
    <3>1. n \in Sent /\ ~ log[n].live
      BY <1>1, <2>3
    <3>2. i \in 1 .. Len(link[a]) /\ link[a][i] = n
      BY <1>1, <2>3
    <3>3. j \in 1 .. Len(link[b]) /\ link[b][j] = n
      BY <1>1, <2>3
    <3> QED  BY <3>1, <3>2, <3>3 DEF IInv, SingleCopy
  <2> QED  BY <2>2, <2>3
<1>8. SingleDone'
  <2> SUFFICES ASSUME NEW n \in Sent', ~ log'[n].live, received[n] > 0
               PROVE  Gone(n)'
    BY <1>3 DEF SingleDone
  <2>1. n # id /\ n \in Sent /\ ~ log[n].live
    BY <1>1, <1>3
  <2>2. Gone(n)
    BY <2>1 DEF IInv, SingleDone
  <2> QED  BY <1>1, <2>1, <2>2 DEF Gone, OnPath
<1> QED  BY <1>4, <1>5, <1>6, <1>7, <1>8 DEF IInv

\* The one place packets reach the host: with the function at e2, only those
\* the host did not get before.
LEMMA ArriveMeaning ==
    ASSUME IInv, NEW p \in Paths, Arrive(p)
    PROVE  LET id == link[p][1]
           IN  /\ id \in Sent /\ id \in Packets /\ log[id].seq \in SeqNo
               /\ \/ received' = received /\ Numbered(id)
                  \/ /\ received' = [received EXCEPT ![id] = @ + 1]
                     /\ Deduplicate => received[id] = 0
               /\ IF Numbered(id)
                  THEN Deduplicated(id)
                  ELSE UNCHANGED <<flow_window_start, flow_to_bitmap, aliased>>
<1> DEFINE id == link[p][1]
<1>1. /\ TypeOK /\ link[p] # << >> /\ link' = [link EXCEPT ![p] = Tail(@)]
      /\ IF Numbered(Head(link[p]))
         THEN Deduplicated(Head(link[p]))
         ELSE Decapsulated(Head(link[p]))
  BY DEF IInv, Arrive, Numbered
<1>2. Head(link[p]) = id /\ id \in Sent /\ OnPath(id, p)
  <2>1. /\ Head(link[p]) = id /\ Head(link[p]) \in Sent
        /\ Len(link[p]) \in Nat \ {0}
    BY <1>1, PopMeaning
  <2>2. 1 \in 1 .. Len(link[p])
    BY <2>1
  <2> QED  BY <2>1, <2>2 DEF OnPath
<1>3. log[id] \in Header /\ id \in Packets
  <2>1. log \in Seq(Header) /\ Len(log) \in Nat /\ Len(log) <= MaxPackets
    BY <1>1, LenProperties DEF TypeOK
  <2>2. id \in 1 .. Len(log)
    BY <1>2 DEF Sent
  <2> QED  BY <2>1, <2>2, ElementOfSeq, LiveLiveAssumption DEF Packets
<1>4. log[id].seq \in SeqNo
  BY <1>3 DEF Header
<1>5. received[id] \in Nat
  BY <1>1, <1>3 DEF TypeOK
<1>6. CASE ~ Numbered(id)
  <2>1. Decapsulated(id)
    BY <1>1, <1>2, <1>6
  <2>2. Deduplicate => received[id] = 0
    BY <1>2, <1>5, <1>6 DEF IInv, SingleDone, Gone, Numbered
  <2> QED  BY <1>2, <1>3, <1>4, <1>6, <2>1, <2>2 DEF Decapsulated, Forward
<1>7. CASE Numbered(id)
  <2>1. Deduplicated(id)
    BY <1>1, <1>2, <1>7
  <2>2. CASE Refused(flow_window_start, flow_to_bitmap, log[id].seq)
    BY <1>2, <1>3, <1>4, <1>7, <2>1, <2>2 DEF Deduplicated
  <2>3. CASE ~ Refused(flow_window_start, flow_to_bitmap, log[id].seq)
    <3>1. flow_to_bitmap \in SUBSET Index
      BY <1>1 DEF TypeOK
    <3>2. ~ Seen(flow_window_start, flow_to_bitmap, log[id].seq)
      BY <1>4, <2>3, <3>1, AcceptedIsFresh DEF IInv, WindowOK
    <3>3. received[id] = 0
      BY <1>2, <1>5, <1>7, <3>2 DEF IInv, ReceivedIsRemembered
    <3> QED  BY <1>2, <1>3, <1>4, <1>7, <2>1, <2>3, <3>3
             DEF Deduplicated, Forward
  <2> QED  BY <2>2, <2>3
<1> QED  BY <1>6, <1>7

LEMMA ArriveKeepsIInv ==
    ASSUME IInv, NEW p \in Paths, Arrive(p)
    PROVE  IInv'
<1> DEFINE id == link[p][1]
<1>1. /\ TypeOK /\ SingleCopy /\ link[p] # << >> /\ UNCHANGED log
      /\ link' = [link EXCEPT ![p] = Tail(@)] /\ Sent' = Sent
      /\ UNCHANGED <<entry, seq_n, log, lost>>
  BY DEF IInv, Arrive, e1_vars, Sent
<1>2. /\ id \in Sent /\ id \in Packets /\ log[id].seq \in SeqNo
      /\ \/ received' = received /\ Numbered(id)
         \/ /\ received' = [received EXCEPT ![id] = @ + 1]
            /\ Deduplicate => received[id] = 0
      /\ IF Numbered(id)
         THEN Deduplicated(id)
         ELSE UNCHANGED <<flow_window_start, flow_to_bitmap, aliased>>
  BY ArriveMeaning
<1>3. /\ flow_to_bitmap \in SUBSET Index /\ Placeable(flow_window_start)
      /\ received \in [Packets -> Nat] /\ Sent \subseteq Packets
  <2>1. Len(log) \in Nat /\ Len(log) <= MaxPackets
    BY LenProperties DEF IInv, TypeOK
  <2>2. Sent \subseteq Packets
    BY <2>1, LiveLiveAssumption DEF Sent, Packets
  <2> QED  BY <2>2 DEF IInv, TypeOK, WindowOK
<1>4. /\ flow_to_bitmap' \in SUBSET Index /\ Placeable(flow_window_start')
      /\ aliased' \in BOOLEAN
  <2>1. CASE Numbered(id)
    BY <1>1, <1>2, <1>3, <2>1, NextRegisters DEF Deduplicated, TypeOK
  <2>2. CASE ~ Numbered(id)
    BY <1>1, <1>2, <1>3, <2>2 DEF TypeOK
  <2> QED  BY <2>1, <2>2
<1>5. TypeOK'
  <2>1. link' \in [Paths -> Seq(Sent)]
    BY <1>1, PopMeaning
  <2>2. received' \in [Packets -> Nat]
    BY <1>2, <1>3
  <2>3. flow_window_start' \in SeqNo
    BY <1>4, PlaceableInRange
  <2> QED  BY <1>1, <1>4, <2>1, <2>2, <2>3 DEF TypeOK
<1>6. WindowOK'
  BY <1>4 DEF WindowOK
<1>7. OnlySentReceived'
  BY <1>1, <1>2, <1>3 DEF IInv, OnlySentReceived
<1>8. AtMostOnceToHost'
  BY <1>2, <1>3 DEF IInv, AtMostOnceToHost
<1>9. ReceivedIsRemembered'
  <2> SUFFICES ASSUME NEW n \in Sent, Numbered(n), received'[n] > 0
               PROVE  Seen(flow_window_start', flow_to_bitmap', log[n].seq)
    BY <1>1 DEF ReceivedIsRemembered, Numbered
  <2>1. log[n].seq \in SeqNo
    <3>1. log[n] \in Header
      BY <1>1, ElementOfSeq DEF TypeOK, Sent
    <3> QED  BY <3>1 DEF Header
  <2>2. CASE received[n] > 0
    <3>1. Seen(flow_window_start, flow_to_bitmap, log[n].seq)
      BY <2>2 DEF IInv, ReceivedIsRemembered
    <3>2. CASE Numbered(id)
      BY <1>2, <1>3, <2>1, <3>1, <3>2, NextRemembers DEF Deduplicated
    <3>3. CASE ~ Numbered(id)
      BY <1>2, <3>1, <3>3
    <3> QED  BY <3>2, <3>3
  <2>3. CASE ~ (received[n] > 0)
    <3>1. received' # received
      BY <2>3
    <3>2. n = id /\ Deduplicated(id)
      BY <1>2, <1>3, <2>3, <3>1
    <3>3. ~ Refused(flow_window_start, flow_to_bitmap, log[id].seq)
      BY <3>1, <3>2 DEF Deduplicated
    <3> QED  BY <1>2, <1>3, <3>2, <3>3, AcceptedIsFresh DEF Deduplicated
  <2> QED  BY <2>2, <2>3
<1>10. SingleCopy'
  BY <1>1, PopKeepsCopies
<1>11. SingleDone'
  <2> SUFFICES ASSUME NEW n \in Sent, ~ log[n].live, received'[n] > 0
               PROVE  Gone(n)'
    BY <1>1 DEF SingleDone
  <2>1. CASE n = id
    BY <1>1, <2>1, PopKeepsCopies
  <2>2. CASE n # id
    <3>1. received[n] > 0
      BY <1>2, <1>3, <2>2
    <3>2. Gone(n)
      BY <3>1 DEF IInv, SingleDone
    <3> QED  BY <1>1, <3>2, PopKeepsCopies
  <2> QED  BY <2>1, <2>2
<1> QED  BY <1>5, <1>6, <1>7, <1>8, <1>9, <1>10, <1>11 DEF IInv

LEMMA NextIInv == IInv /\ [Next]_vars => IInv'
<1> SUFFICES ASSUME IInv, [Next]_vars PROVE IInv'
  OBVIOUS
<1>1. ASSUME NEW e \in Entries, SetEntry(e) PROVE IInv'
  BY <1>1, SetEntryKeepsIInv
<1>2. CASE Send
  BY <1>2, SendKeepsIInv
<1>3. ASSUME NEW p \in Paths, Lose(p) PROVE IInv'
  BY <1>3, LoseKeepsIInv
<1>4. ASSUME NEW p \in Paths, Arrive(p) PROVE IInv'
  BY <1>4, ArriveKeepsIInv
<1>5. CASE UNCHANGED vars
  BY <1>5 DEF vars, IInv, TypeOK, WindowOK, ReceivedIsRemembered, Sent,
              OnlySentReceived, SingleCopy, SingleDone, Gone, OnPath,
              AtMostOnceToHost, Numbered
<1> QED  BY <1>1, <1>2, <1>3, <1>4, <1>5 DEF Next

LEMMA AlwaysIInv == Spec => []IInv
BY InitIInv, NextIInv, PTL DEF Spec

\* The registers, the paths and the history keep their types.
THEOREM ServiceTypeCorrect == Spec => []TypeOK
<1>1. IInv => TypeOK
  BY DEF IInv
<1> QED  BY <1>1, AlwaysIInv, PTL

\* The far host gets no packet twice, for any number of paths, any loss and
\* interleaving, and across switches of the steering entry.
THEOREM HostGetsPacketOnce == Spec => []AtMostOnceToHost
<1>1. IInv => AtMostOnceToHost
  BY DEF IInv
<1> QED  BY <1>1, AlwaysIInv, PTL

\* With the function at e2, the two edges and the paths between them
\* implement the channel promised to the hosts.
THEOREM ServiceImplementsChannel ==
    ASSUME Deduplicate
    PROVE  Spec => ImplementsChannel
<1>1. Init => Channel!Init
  BY DEF Init, Channel!Init
<1>2. IInv /\ [Next]_vars => [Channel!Next]_<<Len(log), received>>
  <2> SUFFICES ASSUME IInv, [Next]_vars
               PROVE  [Channel!Next]_<<Len(log), received>>
    OBVIOUS
  <2>1. ASSUME NEW e \in Entries, SetEntry(e)
        PROVE  UNCHANGED <<Len(log), received>>
    BY <2>1 DEF SetEntry, e2_vars
  <2>2. CASE Send
    <3>1. Len(log') = Len(log) + 1
      BY <2>2, SendMeaning DEF IInv
    <3>2. received' = received
      BY <2>2 DEF Send, e2_vars
    <3> QED  BY <3>1, <3>2 DEF Channel!Next, Channel!Submit
  <2>3. ASSUME NEW p \in Paths, Lose(p)
        PROVE  UNCHANGED <<Len(log), received>>
    BY <2>3 DEF Lose, e1_vars, e2_vars
  <2>4. ASSUME NEW p \in Paths, Arrive(p)
        PROVE  [Channel!Next]_<<Len(log), received>>
    <3> DEFINE id == link[p][1]
    <3>1. Len(log)' = Len(log)
      BY <2>4 DEF Arrive, e1_vars
    <3>2. /\ id \in Sent /\ id \in Packets
          /\ \/ received' = received
             \/ /\ received' = [received EXCEPT ![id] = @ + 1]
                /\ received[id] = 0
      BY <2>4, ArriveMeaning
    <3>3. CASE received' = received
      BY <3>1, <3>3
    <3>4. CASE /\ received' = [received EXCEPT ![id] = @ + 1]
               /\ received[id] = 0
      <4>1. received \in [Packets -> Nat]
        BY DEF IInv, TypeOK
      <4>2. received' = [received EXCEPT ![id] = 1]
        BY <3>2, <3>4, <4>1
      <4>3. id <= Len(log)
        BY <3>2 DEF Sent
      <4> QED  BY <3>1, <3>2, <3>4, <4>2, <4>3
               DEF Channel!Next, Channel!Deliver
    <3> QED  BY <3>2, <3>3, <3>4
  <2>5. CASE UNCHANGED vars
    BY <2>5 DEF vars
  <2> QED  BY <2>1, <2>2, <2>3, <2>4, <2>5 DEF Next
<1> QED  BY <1>1, <1>2, AlwaysIInv, PTL
         DEF Spec, ImplementsChannel, Channel!Spec
-----------------------------------------------------------------------------
\* Where the copies of a packet are: each path keeps them in the order they
\* were sent, only on the ports the entry chose, and a copy is on its path or
\* among the lost, never both.
Ordered ==
    \A p \in Paths : \A i, j \in 1 .. Len(link[p]) :
        i < j => link[p][i] < link[p][j]

PathsHoldCopies ==
    \A id \in Sent, p \in Paths :
        OnPath(id, p) => p \in log[id].ports \ lost[id]

LostAreCopies ==
    \A id \in Sent :
        /\ lost[id] \subseteq log[id].ports
        /\ log[id].ports \ Paths \subseteq lost[id]

CopiesInv == Ordered /\ PathsHoldCopies /\ LostAreCopies

LEMMA SendCopies ==
    ASSUME TypeOK, Send
    PROVE  \E ports \in Spread(entry) :
             LET id == Len(log) + 1
             IN  /\ id \in Packets /\ id \notin Sent
                 /\ Len(log') = id /\ Sent' = Sent \cup {id}
                 /\ \A n \in Sent : log'[n] = log[n]
                 /\ log'[id].live = (entry.action = "live_live_mcast")
                 /\ log'[id].seq = seq_n'
                 /\ log'[id].ports = ports
                 /\ seq_n' = IF entry.action = "live_live_mcast"
                             THEN NextSeqNo(seq_n) ELSE seq_n
                 /\ lost' = [lost EXCEPT ![id] = ports \ Paths]
                 /\ \A p \in Paths : \A n :
                      OnPath(n, p)' <=> OnPath(n, p) \/ (n = id /\ p \in ports)
<1> DEFINE id == Len(log) + 1
           live == entry.action = "live_live_mcast"
           seq == IF live THEN NextSeqNo(seq_n) ELSE seq_n
           head(ports) == [live |-> live, seq |-> seq, ports |-> ports]
<1>1. PICK ports \in Spread(entry) :
        /\ log' = Append(log, head(ports))
        /\ link' = [p \in Paths |-> IF p \in ports
                                    THEN Append(link[p], id)
                                    ELSE link[p]]
        /\ lost' = [lost EXCEPT ![id] = ports \ Paths]
  BY DEF Send
<1>2. /\ log \in Seq(Header) /\ Len(log) \in Nat
      /\ link \in [Paths -> Seq(Sent)]
  BY LenProperties DEF TypeOK
<1>3. id \in Packets /\ id \notin Sent
  BY <1>2, LiveLiveAssumption DEF Send, Packets, Sent
<1>4. /\ Len(log') = id
      /\ \A n \in Sent : log'[n] = log[n]
      /\ log'[id] = head(ports)
  <2> HIDE DEF head
  <2>1. log \in Seq(Header \cup {head(ports)})
    BY <1>2, SeqWidens
  <2> QED  BY <1>1, <1>2, <2>1, AppendProperties DEF Sent
<1>5. Sent' = Sent \cup {id}
  BY <1>2, <1>4 DEF Sent
<1>6. ASSUME NEW p \in Paths, NEW n
      PROVE  OnPath(n, p)' <=> OnPath(n, p) \/ (n = id /\ p \in ports)
  <2>1. CASE p \notin ports
    <3>1. link'[p] = link[p]
      BY <1>1, <2>1
    <3> QED  BY <2>1, <3>1 DEF OnPath
  <2>2. CASE p \in ports
    <3>1. link'[p] = Append(link[p], id) /\ link[p] \in Seq(Sent \cup {id})
      BY <1>1, <1>2, <2>2, SeqWidens
    <3>2. /\ Len(link'[p]) = Len(link[p]) + 1
          /\ Len(link[p]) \in Nat
          /\ \A i \in 1 .. Len(link[p]) : link'[p][i] = link[p][i]
          /\ link'[p][Len(link[p]) + 1] = id
      BY <3>1, AppendProperties, LenProperties
    <3>3. \A i : i \in 1 .. Len(link'[p])
                   <=> i \in 1 .. Len(link[p]) \/ i = Len(link[p]) + 1
      BY <3>2
    <3> QED  BY <2>2, <3>2, <3>3 DEF OnPath
  <2> QED  BY <2>1, <2>2
<1>7. seq_n' = seq
  BY DEF Send
<1>8. /\ log'[id].live = live /\ log'[id].seq = seq
      /\ log'[id].ports = ports
  <2> HIDE DEF live, seq
  <2> QED  BY <1>4
<1> QED  BY <1>1, <1>3, <1>4, <1>5, <1>6, <1>7, <1>8

LEMMA PopCopies ==
    ASSUME TypeOK, Ordered, NEW p \in Paths, link[p] # << >>,
           link' = [link EXCEPT ![p] = Tail(@)]
    PROVE  /\ link[p][1] \in Sent
           /\ Head(link[p]) = link[p][1]
           /\ OnPath(link[p][1], p)
           /\ Ordered'
           /\ \A q \in Paths : \A n :
                OnPath(n, q)' <=> OnPath(n, q) /\ ~ (q = p /\ n = link[p][1])
<1>1. /\ Head(link[p]) = link[p][1] /\ Head(link[p]) \in Sent
      /\ Len(link[p]) \in Nat \ {0}
  BY PopMeaning
<1>2. link \in [Paths -> Seq(Sent)]
  BY DEF TypeOK
<1>3. /\ Len(Tail(link[p])) = Len(link[p]) - 1
      /\ \A i \in 1 .. Len(link[p]) - 1 : Tail(link[p])[i] = link[p][i + 1]
  BY <1>2, HeadTailProperties
<1>4. \A q \in Paths : link'[q] = IF q = p THEN Tail(link[p]) ELSE link[q]
  BY <1>2
<1>5. OnPath(link[p][1], p)
  BY <1>1 DEF OnPath
<1>6. Ordered'
  <2> SUFFICES ASSUME NEW q \in Paths,
                      NEW i \in 1 .. Len(link'[q]),
                      NEW j \in 1 .. Len(link'[q]),
                      i < j
               PROVE  link'[q][i] < link'[q][j]
    BY DEF Ordered
  <2>1. CASE q = p
    <3>1. link'[q] = Tail(link[p])
      BY <1>4, <2>1
    <3>2. i \in 1 .. Len(link[p]) - 1 /\ j \in 1 .. Len(link[p]) - 1
      BY <1>3, <3>1
    <3>3. i + 1 \in 1 .. Len(link[p]) /\ j + 1 \in 1 .. Len(link[p])
          /\ i + 1 < j + 1
      BY <1>1, <3>2
    <3>4. link'[q][i] = link[p][i + 1] /\ link'[q][j] = link[p][j + 1]
      BY <1>3, <3>1, <3>2
    <3> QED  BY <3>3, <3>4 DEF Ordered
  <2>2. CASE q # p
    BY <1>4, <2>2 DEF Ordered
  <2> QED  BY <2>1, <2>2
<1>7. ASSUME NEW q \in Paths, NEW n
      PROVE  OnPath(n, q)' <=> OnPath(n, q) /\ ~ (q = p /\ n = link[p][1])
  <2>1. CASE q # p
    BY <1>4, <2>1 DEF OnPath
  <2>2. CASE q = p
    <3>1. ASSUME OnPath(n, p)' PROVE OnPath(n, p) /\ n # link[p][1]
      <4>1. PICK i \in 1 .. Len(link[p]) - 1 : link[p][i + 1] = n
        <5>1. link'[p] = Tail(link[p])
          BY <1>4
        <5>2. PICK i \in 1 .. Len(Tail(link[p])) : Tail(link[p])[i] = n
          BY <3>1, <5>1 DEF OnPath
        <5>3. i \in 1 .. Len(link[p]) - 1 /\ link[p][i + 1] = n
          BY <1>3, <5>2
        <5> QED  BY <5>3
      <4>2. i + 1 \in 1 .. Len(link[p]) /\ 1 \in 1 .. Len(link[p]) /\ 1 < i + 1
        BY <1>1
      <4>3. link[p][1] < link[p][i + 1]
        BY <4>2 DEF Ordered
      <4>4. link[p][1] \in Int
        BY <1>1 DEF Sent
      <4> QED  BY <4>1, <4>2, <4>3, <4>4 DEF OnPath
    <3>2. ASSUME OnPath(n, p), n # link[p][1] PROVE OnPath(n, p)'
      <4>1. PICK i \in 1 .. Len(link[p]) : link[p][i] = n
        BY <3>2 DEF OnPath
      <4>2. /\ i - 1 \in 1 .. Len(link[p]) - 1
            /\ (i - 1) + 1 = i
        BY <1>1, <3>2, <4>1
      <4>3. Tail(link[p])[i - 1] = n
        BY <1>3, <4>1, <4>2
      <4> QED  BY <1>3, <1>4, <4>2, <4>3 DEF OnPath
    <3> QED  BY <2>2, <3>1, <3>2
  <2> QED  BY <2>1, <2>2
<1> QED  BY <1>1, <1>5, <1>6, <1>7

\* As BitmapIsExact of Deduplicator, for packets and their numbers.
BitsAreReceived ==
    ~ aliased =>
        \A i \in flow_to_bitmap : \E id \in Sent :
            /\ log[id].live /\ received[id] > 0
            /\ log[id].seq = flow_window_start + i

\* The window begins where a packet that came through put it.
StartIsOfPacket ==
    \/ flow_window_start = 0
    \/ \E id \in Sent : /\ log[id].live /\ CameThrough(id) # {}
                        /\ flow_window_start = log[id].seq - (WINDOW_SIZE - 1)

\* The causes of LossIsExplained, the first as e2 sees it; none goes away.
Explained(id) ==
    \/ log[id].seq < flow_window_start
    \/ \E other \in Sent \ {id} :
          /\ log[other].live
          /\ log[other].seq = log[id].seq
          /\ received[other] > 0
    \/ aliased

\* LossIsExplained of every copy that came through, while others are on the
\* way.
ThroughIsReceived ==
    Deduplicate =>
        \A id \in Sent : CameThrough(id) # {} =>
            received[id] > 0 \/ Explained(id)

\* EveryCopyOnce, while copies are on the way.
ThroughIsCounted ==
    ~ Deduplicate =>
        \A id \in Sent :
            /\ IsFiniteSet(CameThrough(id))
            /\ received[id] = Cardinality(CameThrough(id))

HistoryInv ==
    /\ CopiesInv
    /\ OnePacketPerSeqNo
    /\ BitsAreReceived
    /\ StartIsOfPacket
    /\ ThroughIsReceived
    /\ ThroughIsCounted

LEMMA InitHistory == Init => HistoryInv
<1> SUFFICES ASSUME Init PROVE HistoryInv
  OBVIOUS
<1>1. Sent = {} /\ flow_to_bitmap = {} /\ \A p \in Paths : Len(link[p]) = 0
  BY DEF Init, Sent
<1>2. CopiesInv
  BY <1>1 DEF CopiesInv, Ordered, PathsHoldCopies, LostAreCopies
<1>3. OnePacketPerSeqNo /\ BitsAreReceived /\ StartIsOfPacket
  BY <1>1 DEF Init, OnePacketPerSeqNo, BitsAreReceived, StartIsOfPacket
<1>4. ThroughIsReceived /\ ThroughIsCounted
  BY <1>1 DEF ThroughIsReceived, ThroughIsCounted
<1> QED  BY <1>2, <1>3, <1>4 DEF HistoryInv

\* The part of the state a packet's fate rests on.
LEMMA SentMeaning ==
    ASSUME TypeOK, NEW id \in Sent
    PROVE  /\ id \in Packets /\ id \in Nat /\ log[id] \in Header
           /\ log[id].seq \in SeqNo /\ log[id].live \in BOOLEAN
           /\ received[id] \in Nat
<1>1. log \in Seq(Header) /\ Len(log) \in Nat /\ Len(log) <= MaxPackets
  BY LenProperties DEF TypeOK
<1>2. id \in Packets /\ id \in Nat
  BY <1>1, LiveLiveAssumption DEF Sent, Packets
<1>3. log[id] \in Header
  BY <1>1, ElementOfSeq DEF Sent
<1> QED  BY <1>2, <1>3 DEF Header, TypeOK

\* A new packet is on the path of every port that has one, and of no other.
LEMMA SendKeepsHistory ==
    ASSUME IInv, HistoryInv, Send
    PROVE  HistoryInv'
<1>0. TypeOK
  BY DEF IInv
<1> PICK id : id = Len(log) + 1
  OBVIOUS
<1>1. PICK ports \in Spread(entry) :
        /\ id \in Packets /\ id \notin Sent
        /\ Len(log') = id /\ Sent' = Sent \cup {id}
        /\ \A n \in Sent : log'[n] = log[n]
        /\ log'[id].ports = ports
        /\ lost' = [lost EXCEPT ![id] = ports \ Paths]
        /\ \A p \in Paths : \A n :
             OnPath(n, p)' <=> OnPath(n, p) \/ (n = id /\ p \in ports)
  BY <1>0, SendCopies
<1>2. /\ UNCHANGED <<received, flow_window_start, flow_to_bitmap, aliased>>
      /\ received[id] = 0
  BY <1>0, <1>1 DEF Send, e2_vars, IInv, OnlySentReceived, TypeOK
<1>3. /\ lost'[id] = ports \ Paths
      /\ \A n \in Sent : lost'[n] = lost[n]
  <2>1. lost \in [Packets -> SUBSET Ports]
    BY <1>0 DEF TypeOK
  <2>2. \A n \in Sent : n \in Packets /\ n # id
    BY <1>0, <1>1, SentMeaning
  <2> QED  BY <1>1, <2>1, <2>2
<1>4. \A n \in Sent : CameThrough(n)' = CameThrough(n)
  <2> SUFFICES ASSUME NEW n \in Sent
               PROVE  CameThrough(n)' = CameThrough(n)
    OBVIOUS
  <2>1. log'[n] = log[n] /\ lost'[n] = lost[n] /\ n # id
    BY <1>1, <1>3
  <2>2. log[n].ports \ lost[n] \subseteq Paths
    BY DEF HistoryInv, CopiesInv, LostAreCopies
  <2> QED  BY <1>1, <2>1, <2>2 DEF CameThrough
<1>5. CameThrough(id)' = {}
  <2> SUFFICES ASSUME NEW p \in log'[id].ports \ lost'[id], ~ OnPath(id, p)'
               PROVE  FALSE
    BY DEF CameThrough
  <2>1. p \in ports /\ p \in Paths
    BY <1>1, <1>3
  <2> QED  BY <1>1, <2>1
<1>6. Ordered'
  <2> SUFFICES ASSUME NEW p \in Paths,
                      NEW i \in 1 .. Len(link'[p]),
                      NEW j \in 1 .. Len(link'[p]),
                      i < j
               PROVE  link'[p][i] < link'[p][j]
    BY DEF Ordered
  <2>1. PICK q \in Spread(entry) :
            \A k \in 1 .. Len(link'[p]) :
               \/ link'[p][k] = id /\ k = Len(link[p]) + 1
               \/ k \in 1 .. Len(link[p]) /\ link'[p][k] = link[p][k]
    BY <1>0, SendMeaning
  <2>2. Len(link[p]) \in Nat /\ link[p] \in Seq(Sent)
    BY <1>0, LenProperties DEF TypeOK
  <2>3. i \in 1 .. Len(link[p]) /\ link'[p][i] = link[p][i]
    <3>1. j = Len(link[p]) + 1 \/ j \in 1 .. Len(link[p])
      BY <2>1
    <3>2. i # Len(link[p]) + 1
      BY <2>2, <3>1
    <3> QED  BY <2>1, <3>2
  <2>4. CASE j \in 1 .. Len(link[p]) /\ link'[p][j] = link[p][j]
    BY <2>3, <2>4 DEF HistoryInv, CopiesInv, Ordered
  <2>5. CASE link'[p][j] = id
    <3>1. link[p][i] \in Sent
      BY <2>2, <2>3, ElementOfSeq
    <3>2. Len(log) \in Nat
      BY <1>0, LenProperties DEF TypeOK
    <3> QED  BY <2>3, <2>5, <3>1, <3>2 DEF Sent
  <2> QED  BY <2>1, <2>4, <2>5
<1>7. PathsHoldCopies'
  <2> SUFFICES ASSUME NEW n \in Sent', NEW p \in Paths, OnPath(n, p)'
               PROVE  p \in log'[n].ports \ lost'[n]
    BY DEF PathsHoldCopies
  <2>1. CASE n = id
    <3>1. ~ OnPath(id, p)
      <4>1. link[p] \in Seq(Sent)
        BY <1>0 DEF TypeOK
      <4>2. \A i \in 1 .. Len(link[p]) : link[p][i] \in Sent
        BY <4>1, ElementOfSeq
      <4> QED  BY <1>1, <4>2 DEF OnPath
    <3> QED  BY <1>1, <1>3, <2>1, <3>1
  <2>2. CASE n # id
    BY <1>1, <1>3, <2>2 DEF HistoryInv, CopiesInv, PathsHoldCopies
  <2> QED  BY <2>1, <2>2
<1>8. LostAreCopies'
  BY <1>1, <1>3 DEF HistoryInv, CopiesInv, LostAreCopies
<1>9. OnePacketPerSeqNo'
  <2> SUFFICES ASSUME Deduplicate,
                      NEW i \in Sent', NEW j \in Sent',
                      log'[i].live, received'[i] > 0,
                      log'[j].live, received'[j] > 0,
                      log'[i].seq = log'[j].seq
               PROVE  i = j
    BY DEF OnePacketPerSeqNo
  <2>1. i \in Sent /\ j \in Sent
    BY <1>1, <1>2
  <2> QED  BY <1>1, <1>2, <2>1 DEF HistoryInv, OnePacketPerSeqNo
<1>10. BitsAreReceived' /\ StartIsOfPacket'
  <2>1. BitsAreReceived'
    BY <1>1, <1>2 DEF HistoryInv, BitsAreReceived
  <2>2. StartIsOfPacket'
    BY <1>1, <1>2, <1>4 DEF HistoryInv, StartIsOfPacket
  <2> QED  BY <2>1, <2>2
<1>11. ThroughIsReceived'
  <2> SUFFICES ASSUME Deduplicate, NEW n \in Sent', CameThrough(n)' # {}
               PROVE  received'[n] > 0 \/ Explained(n)'
    BY DEF ThroughIsReceived
  <2>1. n \in Sent /\ CameThrough(n) # {}
    BY <1>1, <1>4, <1>5
  <2>2. Explained(n) => Explained(n)'
    BY <1>1, <1>2, <2>1 DEF Explained
  <2> QED  BY <1>2, <2>1, <2>2 DEF HistoryInv, ThroughIsReceived
<1>12. ThroughIsCounted'
  <2> SUFFICES ASSUME ~ Deduplicate, NEW n \in Sent'
               PROVE  /\ IsFiniteSet(CameThrough(n)')
                      /\ received'[n] = Cardinality(CameThrough(n)')
    BY DEF ThroughIsCounted
  <2>1. CASE n = id
    <3>1. IsFiniteSet({}) /\ Cardinality({}) = 0
      BY FS_EmptySet
    <3> QED  BY <1>2, <1>5, <2>1, <3>1
  <2>2. CASE n # id
    BY <1>1, <1>2, <1>4, <2>2 DEF HistoryInv, ThroughIsCounted
  <2> QED  BY <2>1, <2>2
<1> QED  BY <1>6, <1>7, <1>8, <1>9, <1>10, <1>11, <1>12
         DEF HistoryInv, CopiesInv

\* A lost copy leaves its path and comes through nowhere.
LEMMA LoseKeepsHistory ==
    ASSUME IInv, HistoryInv, NEW p \in Paths, Lose(p)
    PROVE  HistoryInv'
<1> PICK id : id = link[p][1]
  OBVIOUS
<1>0. TypeOK /\ Ordered
  BY DEF IInv, HistoryInv, CopiesInv
<1>1. /\ id \in Sent /\ Head(link[p]) = id /\ OnPath(id, p) /\ Ordered'
      /\ \A q \in Paths : \A n :
           OnPath(n, q)' <=> OnPath(n, q) /\ ~ (q = p /\ n = id)
  BY <1>0, PopCopies DEF Lose
<1>2. /\ UNCHANGED <<log, received, flow_window_start, flow_to_bitmap, aliased>>
      /\ Sent' = Sent
  BY DEF Lose, e1_vars, e2_vars, Sent
<1>3. \A n \in Sent : lost'[n] = IF n = id THEN lost[n] \cup {p} ELSE lost[n]
  <2>1. lost \in [Packets -> SUBSET Ports] /\ \A n \in Sent : n \in Packets
    BY <1>0, SentMeaning DEF TypeOK
  <2> QED  BY <1>1, <2>1 DEF Lose
<1>4. \A n \in Sent : log[n].ports \ lost[n] \subseteq Paths
  BY DEF HistoryInv, CopiesInv, LostAreCopies
<1>5. \A n \in Sent : CameThrough(n)' = CameThrough(n)
  BY <1>1, <1>2, <1>3, <1>4 DEF CameThrough
<1>6. PathsHoldCopies'
  <2> SUFFICES ASSUME NEW n \in Sent, NEW q \in Paths, OnPath(n, q)'
               PROVE  q \in log[n].ports \ lost'[n]
    BY <1>2 DEF PathsHoldCopies
  <2>1. OnPath(n, q) /\ ~ (q = p /\ n = id)
    BY <1>1
  <2>2. q \in log[n].ports \ lost[n]
    BY <2>1 DEF HistoryInv, CopiesInv, PathsHoldCopies
  <2> QED  BY <1>3, <2>1, <2>2
<1>7. LostAreCopies'
  <2>1. p \in log[id].ports
    BY <1>1 DEF HistoryInv, CopiesInv, PathsHoldCopies
  <2> QED  BY <1>2, <1>3, <2>1 DEF HistoryInv, CopiesInv, LostAreCopies
<1>8. OnePacketPerSeqNo' /\ BitsAreReceived' /\ StartIsOfPacket'
  BY <1>2, <1>5
  DEF HistoryInv, OnePacketPerSeqNo, BitsAreReceived, StartIsOfPacket
<1>9. ThroughIsReceived' /\ ThroughIsCounted'
  BY <1>2, <1>5
  DEF HistoryInv, ThroughIsReceived, ThroughIsCounted, Explained
<1> QED  BY <1>1, <1>6, <1>7, <1>8, <1>9 DEF HistoryInv, CopiesInv

\* A packet that is refused without a slide that was truncated has a bit, and
\* the bit a packet that was received.
LEMMA RefusedMeaning ==
    ASSUME IInv, BitsAreReceived, NEW id \in Sent, log[id].live,
           Refused(flow_window_start, flow_to_bitmap, log[id].seq),
           ~ aliased, ~ Aliases(flow_window_start, log[id].seq)
    PROVE  \/ log[id].seq < flow_window_start
           \/ \E n \in Sent : /\ log[n].live /\ received[n] > 0
                              /\ log[n].seq = log[id].seq
<1>1. /\ log[id].seq \in SeqNo /\ Placeable(flow_window_start)
      /\ flow_to_bitmap \in SUBSET Index
  BY SentMeaning DEF IInv, WindowOK, TypeOK
<1>2. CASE Behind(flow_window_start, log[id].seq)
  BY <1>2 DEF Behind
<1>3. CASE ~ Behind(flow_window_start, log[id].seq)
  <2> DEFINE i == log[id].seq - flow_window_start
  <2>1. i \in flow_to_bitmap
    BY <1>1, <1>3, RefusedIsDuplicate
  <2>2. PICK n \in Sent : /\ log[n].live /\ received[n] > 0
                          /\ log[n].seq = flow_window_start + i
    BY <2>1 DEF BitsAreReceived
  <2>3. flow_window_start + i = log[id].seq
    BY <1>1 DEF Placeable, SeqNo
  <2> QED  BY <2>2, <2>3
<1> QED  BY <1>2, <1>3

\* A copy that arrives came through, whatever e2 decides.
LEMMA ArriveKeepsHistory ==
    ASSUME IInv, HistoryInv, NEW p \in Paths, Arrive(p)
    PROVE  HistoryInv'
<1> PICK id : id = link[p][1]
  OBVIOUS
<1> DEFINE s == log[id].seq
<1>0. TypeOK /\ Ordered
  BY DEF IInv, HistoryInv, CopiesInv
<1>1. /\ id \in Sent /\ Head(link[p]) = id /\ OnPath(id, p) /\ Ordered'
      /\ \A q \in Paths : \A n :
           OnPath(n, q)' <=> OnPath(n, q) /\ ~ (q = p /\ n = id)
  BY <1>0, PopCopies DEF Arrive
<1>2. UNCHANGED <<log, lost>> /\ Sent' = Sent
  BY DEF Arrive, e1_vars, Sent
<1>3. /\ \/ received' = received /\ Numbered(id)
         \/ /\ received' = [received EXCEPT ![id] = @ + 1]
            /\ Deduplicate => received[id] = 0
      /\ IF Numbered(id)
         THEN Deduplicated(id)
         ELSE UNCHANGED <<flow_window_start, flow_to_bitmap, aliased>>
  BY ArriveMeaning
<1>4. /\ s \in SeqNo /\ flow_to_bitmap \in SUBSET Index
      /\ Placeable(flow_window_start)
      /\ flow_window_start' >= flow_window_start
      /\ aliased => aliased'
  <2>1. /\ s \in SeqNo /\ flow_to_bitmap \in SUBSET Index
        /\ Placeable(flow_window_start)
    BY <1>0, <1>1, SentMeaning DEF IInv, WindowOK, TypeOK
  <2>2. CASE Numbered(id)
    <3>1. Deduplicated(id)
      BY <1>3, <2>2
    <3>2. flow_window_start' >= flow_window_start
      BY <2>1, <3>1, NextRegisters DEF Deduplicated
    <3>3. aliased => aliased'
      BY <3>1 DEF Deduplicated
    <3> QED  BY <2>1, <3>2, <3>3
  <2>3. CASE ~ Numbered(id)
    BY <1>3, <2>1, <2>3 DEF Placeable
  <2> QED  BY <2>1, <2>2, <2>3
<1>5. \A n \in Sent : \/ received'[n] = received[n]
                      \/ n = id /\ received'[n] = received[n] + 1
  <2> SUFFICES ASSUME NEW n \in Sent
               PROVE  \/ received'[n] = received[n]
                      \/ n = id /\ received'[n] = received[n] + 1
    OBVIOUS
  <2>1. received \in [Packets -> Nat] /\ n \in Packets
    BY <1>0, SentMeaning DEF TypeOK
  <2> QED  BY <1>3, <2>1
<1>6. \A n \in Sent : received[n] \in Nat /\ log[n].seq \in SeqNo
  BY <1>0, SentMeaning
<1>7. /\ \A n \in Sent \ {id} : CameThrough(n)' = CameThrough(n)
      /\ CameThrough(id)' = CameThrough(id) \cup {p}
      /\ p \notin CameThrough(id)
  <2>1. /\ p \in log[id].ports \ lost[id]
        /\ \A n \in Sent : log[n].ports \ lost[n] \subseteq Paths
    BY <1>1 DEF HistoryInv, CopiesInv, PathsHoldCopies, LostAreCopies
  <2>2. ASSUME NEW n \in Sent \ {id} PROVE CameThrough(n)' = CameThrough(n)
    BY <1>1, <1>2, <2>1 DEF CameThrough
  <2>3. CameThrough(id)' = CameThrough(id) \cup {p}
    BY <1>1, <1>2, <2>1 DEF CameThrough
  <2> QED  BY <1>1, <2>2, <2>3 DEF CameThrough
<1>8. PathsHoldCopies' /\ LostAreCopies'
  <2>1. PathsHoldCopies'
    BY <1>1, <1>2 DEF HistoryInv, CopiesInv, PathsHoldCopies
  <2> QED  BY <1>2, <2>1 DEF HistoryInv, CopiesInv, LostAreCopies
<1>9. OnePacketPerSeqNo'
  <2>1. ASSUME Deduplicate, NEW n \in Sent, log[n].live, received[n] > 0,
               log[n].seq = s, log[id].live, received' # received
        PROVE  FALSE
    <3>1. ~ Refused(flow_window_start, flow_to_bitmap, s)
      BY <1>3, <2>1 DEF Numbered, Deduplicated
    <3>2. ~ Seen(flow_window_start, flow_to_bitmap, s)
      BY <1>4, <3>1, AcceptedIsFresh
    <3> QED  BY <2>1, <3>2 DEF IInv, ReceivedIsRemembered, Numbered
  <2> SUFFICES ASSUME Deduplicate, NEW i \in Sent, NEW j \in Sent,
                      log[i].live, received'[i] > 0,
                      log[j].live, received'[j] > 0,
                      log[i].seq = log[j].seq, i # j
               PROVE  FALSE
    BY <1>2 DEF OnePacketPerSeqNo
  <2>2. CASE received' = received
    BY <2>2 DEF HistoryInv, OnePacketPerSeqNo
  <2>3. CASE received' # received
    <3>1. received[i] > 0 \/ i = id
      BY <1>5, <1>6
    <3>2. received[j] > 0 \/ j = id
      BY <1>5, <1>6
    <3>3. CASE i = id
      BY <2>1, <2>3, <3>2, <3>3
    <3>4. CASE j = id
      BY <2>1, <2>3, <3>1, <3>4
    <3>5. CASE i # id /\ j # id
      BY <3>1, <3>2, <3>5 DEF HistoryInv, OnePacketPerSeqNo
    <3> QED  BY <3>3, <3>4, <3>5
  <2> QED  BY <2>2, <2>3
<1>10. BitsAreReceived'
  <2> SUFFICES ASSUME ~ aliased', NEW i \in flow_to_bitmap'
               PROVE  \E n \in Sent :
                         /\ log[n].live /\ received'[n] > 0
                         /\ log[n].seq = flow_window_start' + i
    BY <1>2 DEF BitsAreReceived
  <2>1. \A n \in Sent : received[n] > 0 => received'[n] > 0
    BY <1>5, <1>6
  <2>2. CASE ~ Numbered(id)
    <3>1. UNCHANGED <<flow_window_start, flow_to_bitmap, aliased>>
      BY <1>3, <2>2
    <3>2. \E n \in Sent : /\ log[n].live /\ received[n] > 0
                          /\ log[n].seq = flow_window_start + i
      BY <3>1 DEF HistoryInv, BitsAreReceived
    <3> QED  BY <2>1, <3>1, <3>2
  <2>3. CASE Numbered(id)
    <3>1. Deduplicated(id) /\ log[id].live
      BY <1>3, <2>3 DEF Numbered
    <3>2. ~ aliased /\ ~ Aliases(flow_window_start, s)
      BY <3>1 DEF Deduplicated
    <3>3. \/ /\ flow_window_start' + i = s
             /\ ~ Refused(flow_window_start, flow_to_bitmap, s)
          \/ /\ (flow_window_start' + i) - flow_window_start \in flow_to_bitmap
             /\ flow_window_start' + i \in Nat
      BY <1>4, <3>1, <3>2, NextInventsNothing DEF Deduplicated
    <3>4. CASE /\ flow_window_start' + i = s
               /\ ~ Refused(flow_window_start, flow_to_bitmap, s)
      <4>1. received' = [received EXCEPT ![id] = @ + 1]
        BY <3>1, <3>4 DEF Deduplicated, Forward
      <4>2. received'[id] = received[id] + 1
        BY <1>0, <1>1, <4>1, SentMeaning DEF TypeOK
      <4> QED  BY <1>1, <1>6, <3>1, <3>4, <4>2
    <3>5. CASE /\ (flow_window_start' + i) - flow_window_start
                    \in flow_to_bitmap
               /\ flow_window_start' + i \in Nat
      <4> DEFINE m == flow_window_start' + i
                 k == m - flow_window_start
      <4>1. k \in flow_to_bitmap /\ flow_window_start + k = m
        BY <1>4, <3>5 DEF Placeable
      <4>2. \E n \in Sent : /\ log[n].live /\ received[n] > 0
                            /\ log[n].seq = flow_window_start + k
        <5> HIDE DEF k
        <5> QED  BY <3>2, <4>1 DEF HistoryInv, BitsAreReceived
      <4> QED  BY <2>1, <4>1, <4>2
    <3> QED  BY <3>3, <3>4, <3>5
  <2> QED  BY <2>2, <2>3
<1>11. ThroughIsReceived'
  <2> SUFFICES ASSUME Deduplicate, NEW n \in Sent, CameThrough(n)' # {}
               PROVE  received'[n] > 0 \/ Explained(n)'
    BY <1>2 DEF ThroughIsReceived
  <2>1. \A m \in Sent : received[m] > 0 => received'[m] > 0
    BY <1>5, <1>6
  <2>2. ASSUME Explained(n) PROVE Explained(n)'
    <3>1. CASE log[n].seq < flow_window_start
      <4>1. log[n].seq < flow_window_start'
        <5>1. log[n].seq \in Int /\ flow_window_start \in Int
          BY <1>4, <1>6 DEF SeqNo, Placeable
        <5>2. flow_window_start' \in Int
          <6>1. CASE Numbered(id)
            BY <1>3, <1>4, <6>1, NextRegisters DEF Deduplicated, Placeable
          <6>2. CASE ~ Numbered(id)
            BY <1>3, <5>1, <6>2
          <6> QED  BY <6>1, <6>2
        <5> QED  BY <1>4, <3>1, <5>1, <5>2
      <4> QED  BY <1>2, <4>1 DEF Explained
    <3>2. CASE aliased
      BY <1>4, <3>2 DEF Explained
    <3>3. CASE \E other \in Sent \ {n} :
                  /\ log[other].live
                  /\ log[other].seq = log[n].seq
                  /\ received[other] > 0
      BY <1>2, <2>1, <3>3 DEF Explained
    <3> QED  BY <2>2, <3>1, <3>2, <3>3 DEF Explained
  <2>3. CASE CameThrough(n) # {}
    BY <2>1, <2>2, <2>3 DEF HistoryInv, ThroughIsReceived
  <2>4. CASE CameThrough(n) = {}
    <3>1. n = id
      BY <1>7, <2>4
    <3>2. CASE received' # received
      <4>1. received' = [received EXCEPT ![id] = @ + 1]
        BY <1>3, <3>2
      <4>2. received'[id] = received[id] + 1
        BY <1>0, <1>1, <4>1, SentMeaning DEF TypeOK
      <4> QED  BY <1>1, <1>6, <3>1, <4>2
    <3>3. CASE received' = received
      <4>1. Numbered(id)
        <5>1. received[id] \in Nat /\ id \in Packets
              /\ received \in [Packets -> Nat]
          BY <1>0, <1>1, SentMeaning DEF TypeOK
        <5>2. received # [received EXCEPT ![id] = @ + 1]
          BY <5>1
        <5> QED  BY <1>3, <3>3, <5>2
      <4>2. Deduplicated(id) /\ log[id].live
        BY <1>3, <4>1 DEF Numbered
      <4>3. Refused(flow_window_start, flow_to_bitmap, s)
        <5>1. received[id] \in Nat /\ id \in Packets
              /\ received \in [Packets -> Nat]
          BY <1>0, <1>1, SentMeaning DEF TypeOK
        <5>2. received # [received EXCEPT ![id] = @ + 1]
          BY <5>1
        <5> QED  BY <3>3, <4>2, <5>2 DEF Deduplicated, Forward
      <4>4. CASE aliased'
        BY <4>4 DEF Explained
      <4>5. CASE ~ aliased'
        <5>1. ~ aliased /\ ~ Aliases(flow_window_start, s)
          BY <4>2, <4>5 DEF Deduplicated
        <5>2. \/ s < flow_window_start
              \/ \E m \in Sent : /\ log[m].live /\ received[m] > 0
                                 /\ log[m].seq = s
          BY <1>1, <4>2, <4>3, <5>1, RefusedMeaning DEF HistoryInv
        <5>3. received[id] > 0 \/ Explained(id)
          BY <5>2 DEF Explained
        <5> QED  BY <2>2, <3>1, <3>3, <5>3
      <4> QED  BY <4>4, <4>5
    <3> QED  BY <3>2, <3>3
  <2> QED  BY <2>3, <2>4
<1>12. ThroughIsCounted'
  <2> SUFFICES ASSUME ~ Deduplicate, NEW n \in Sent
               PROVE  /\ IsFiniteSet(CameThrough(n)')
                      /\ received'[n] = Cardinality(CameThrough(n)')
    BY <1>2 DEF ThroughIsCounted
  <2>1. received' = [received EXCEPT ![id] = @ + 1]
    BY <1>3 DEF Numbered
  <2>2. received \in [Packets -> Nat] /\ n \in Packets /\ id \in Packets
    BY <1>0, <1>1, SentMeaning DEF TypeOK
  <2>3. IsFiniteSet(CameThrough(n)) /\ received[n] = Cardinality(CameThrough(n))
    BY DEF HistoryInv, ThroughIsCounted
  <2>4. CASE n = id
    BY <1>7, <2>1, <2>2, <2>3, <2>4, FS_AddElement
  <2>5. CASE n # id
    BY <1>7, <2>1, <2>2, <2>3, <2>5
  <2> QED  BY <2>4, <2>5
<1>13. StartIsOfPacket'
  <2>1. CASE flow_window_start' = flow_window_start
    <3>1. \A n \in Sent : CameThrough(n) # {} => CameThrough(n)' # {}
      BY <1>7
    <3> QED  BY <1>2, <2>1, <3>1 DEF HistoryInv, StartIsOfPacket
  <2>2. CASE flow_window_start' # flow_window_start
    <3>1. Deduplicated(id) /\ log[id].live
      BY <1>3, <2>2 DEF Numbered
    <3>2. Ahead(flow_window_start, s)
      BY <2>2, <3>1 DEF Deduplicated, NextStart, PlacedStart
    <3>3. flow_window_start' = s - (WINDOW_SIZE - 1)
      BY <1>4, <3>1, <3>2, JumpMeaning DEF Deduplicated, NextStart
    <3>4. CameThrough(id)' # {}
      BY <1>7
    <3> QED  BY <1>1, <1>2, <3>1, <3>3, <3>4 DEF StartIsOfPacket
  <2> QED  BY <2>1, <2>2
<1> QED  BY <1>1, <1>8, <1>9, <1>10, <1>11, <1>12, <1>13
         DEF HistoryInv, CopiesInv

LEMMA NextHistory == IInv /\ HistoryInv /\ [Next]_vars => HistoryInv'
<1> SUFFICES ASSUME IInv, HistoryInv, [Next]_vars PROVE HistoryInv'
  OBVIOUS
<1>1. ASSUME UNCHANGED <<log, link, lost, received, flow_window_start,
                         flow_to_bitmap, aliased>>
      PROVE  HistoryInv'
  <2>1. /\ Sent' = Sent /\ \A n, p : OnPath(n, p)' = OnPath(n, p)
        /\ \A n : CameThrough(n)' = CameThrough(n)
        /\ \A n : Explained(n)' = Explained(n)
    BY <1>1 DEF Sent, OnPath, CameThrough, Explained
  <2>2. CopiesInv'
    BY <1>1, <2>1
    DEF HistoryInv, CopiesInv, Ordered, PathsHoldCopies, LostAreCopies
  <2>3. OnePacketPerSeqNo' /\ BitsAreReceived' /\ StartIsOfPacket'
    BY <1>1, <2>1
    DEF HistoryInv, OnePacketPerSeqNo, BitsAreReceived, StartIsOfPacket
  <2>4. ThroughIsReceived' /\ ThroughIsCounted'
    BY <1>1, <2>1 DEF HistoryInv, ThroughIsReceived, ThroughIsCounted
  <2> QED  BY <2>2, <2>3, <2>4 DEF HistoryInv
<1>2. ASSUME NEW e \in Entries, SetEntry(e) PROVE HistoryInv'
  BY <1>1, <1>2 DEF SetEntry, e2_vars
<1>3. CASE Send
  BY <1>3, SendKeepsHistory
<1>4. ASSUME NEW p \in Paths, Lose(p) PROVE HistoryInv'
  BY <1>4, LoseKeepsHistory
<1>5. ASSUME NEW p \in Paths, Arrive(p) PROVE HistoryInv'
  BY <1>5, ArriveKeepsHistory
<1>6. CASE UNCHANGED vars
  BY <1>1, <1>6 DEF vars
<1> QED  BY <1>2, <1>3, <1>4, <1>5, <1>6 DEF Next

LEMMA AlwaysHistory == Spec => [](IInv /\ HistoryInv)
BY InitIInv, InitHistory, NextIInv, NextHistory, PTL DEF Spec

\* After a wrap of the counter the packets that reuse a number of one the
\* host got are lost: a number serves one packet.
THEOREM NumberServesOnce == Spec => []OnePacketPerSeqNo
<1>1. HistoryInv => OnePacketPerSeqNo
  BY DEF HistoryInv
<1> QED  BY <1>1, AlwaysHistory, PTL

\* Once the copies of a packet are gone, those not lost came through.
LEMMA GoneMeaning ==
    ASSUME CopiesInv, NEW id \in Sent, Gone(id)
    PROVE  CameThrough(id) = log[id].ports \ lost[id]
BY DEF CopiesInv, LostAreCopies, CameThrough, Gone

\* A number below the window is a whole window below that of a packet that
\* came through.
LEMMA BelowIsOvertaken ==
    ASSUME IInv, StartIsOfPacket, NEW id \in Sent,
           log[id].seq < flow_window_start
    PROVE  Overtaken(id)
<1>1. log[id].seq \in SeqNo /\ log[id].seq \in Nat /\ WINDOW_SIZE \in Nat
  BY SentMeaning, WindowAssumption DEF IInv, SeqNo
<1>2. PICK other \in Sent :
        /\ log[other].live /\ CameThrough(other) # {}
        /\ flow_window_start = log[other].seq - (WINDOW_SIZE - 1)
  BY <1>1 DEF StartIsOfPacket
<1>3. log[other].seq \in Nat
  BY SentMeaning DEF IInv, SeqNo
<1>4. log[other].seq - log[id].seq >= WINDOW_SIZE
  BY <1>1, <1>2, <1>3
<1> QED  BY <1>2, <1>4 DEF Overtaken

\* A packet the host did not get although a copy survived has one of three
\* causes, whatever the paths, the lag and the entries.
THEOREM LossesHaveCauses == Spec => []LossIsExplained
<1>1. IInv /\ HistoryInv => LossIsExplained
  <2> SUFFICES ASSUME IInv, HistoryInv, Deduplicate, NEW id \in Sent,
                      Gone(id), lost[id] # log[id].ports, received[id] = 0
               PROVE  \/ Overtaken(id)
                      \/ \E other \in Sent \ {id} :
                            /\ log[other].live
                            /\ log[other].seq = log[id].seq
                            /\ received[other] > 0
                      \/ aliased
    BY DEF LossIsExplained
  <2>1. CameThrough(id) # {}
    BY GoneMeaning DEF HistoryInv, CopiesInv, LostAreCopies
  <2>2. Explained(id)
    BY <2>1 DEF HistoryInv, ThroughIsReceived
  <2>3. log[id].seq < flow_window_start => Overtaken(id)
    BY BelowIsOvertaken DEF HistoryInv
  <2> QED  BY <2>2, <2>3 DEF Explained
<1> QED  BY <1>1, AlwaysHistory, PTL

\* Without the function at e2 the host gets a packet once for every copy that
\* was not lost.
THEOREM HostGetsEveryCopy == Spec => []EveryCopyOnce
<1>1. HistoryInv => EveryCopyOnce
  BY GoneMeaning DEF HistoryInv, ThroughIsCounted, EveryCopyOnce
<1> QED  BY <1>1, AlwaysHistory, PTL
-----------------------------------------------------------------------------
\* What a deployment with the function at e2 owes SurvivorIsDelivered: the
\* counter does not wrap, no path is more than the window behind, and no slide
\* reaches the width of the shift.  A path without loss sees to the last, for
\* then the window follows the sender; so does a sender of few packets.
SoundPath(p) ==
    /\ p \in Paths \ LossyPaths
    /\ \A e \in Entries : e.action = "live_live_mcast" => p \in e.ports

WithinLimits ==
    /\ MaxPackets < SEQ_MOD
    /\ MaxLag < WINDOW_SIZE
    /\ \/ MaxPackets < IDX_MOD
       \/ WINDOW_SIZE < IDX_MOD /\ \E p \in Paths : SoundPath(p)

\* Below the wrap the numbers are used in order and without gaps, and are no
\* further apart than their packets.
NumbersFollowPackets ==
    /\ seq_n <= Len(log)
    /\ \A i \in Sent : log[i].live =>
          /\ 1 <= log[i].seq /\ log[i].seq <= seq_n
          /\ seq_n - log[i].seq <= Len(log) - i
    /\ \A i, j \in Sent :
          log[i].live /\ log[j].live /\ i < j => log[i].seq < log[j].seq
    /\ \A n \in 1 .. seq_n : \E i \in Sent : log[i].live /\ log[i].seq = n

LagIsBounded ==
    \A id \in Sent, p \in Paths : OnPath(id, p) => Len(log) - id <= MaxLag

CopiesOnSoundPath ==
    \A id \in Sent, p \in Paths :
        log[id].live /\ SoundPath(p) => p \in log[id].ports

\* What a path without loss has delivered is not ahead of the window.
WindowKeepsUp ==
    \A id \in Sent, p \in Paths \ LossyPaths :
        log[id].live /\ p \in log[id].ports =>
            \/ OnPath(id, p)
            \/ log[id].seq <= flow_window_start + (WINDOW_SIZE - 1)

ThroughIsDelivered ==
    \A id \in Sent : CameThrough(id) # {} => received[id] > 0

LimitsInv ==
    /\ NumbersFollowPackets
    /\ LagIsBounded
    /\ CopiesOnSoundPath
    /\ WindowKeepsUp
    /\ ThroughIsDelivered
    /\ ~ aliased

LEMMA InitLimits == Init => LimitsInv
<1> SUFFICES ASSUME Init PROVE LimitsInv
  OBVIOUS
<1>1. Sent = {} /\ Len(log) = 0 /\ seq_n = 0
  BY DEF Init, Sent
<1>2. NumbersFollowPackets
  BY <1>1 DEF NumbersFollowPackets
<1>3. LagIsBounded /\ CopiesOnSoundPath /\ WindowKeepsUp /\ ThroughIsDelivered
  BY <1>1 DEF LagIsBounded, CopiesOnSoundPath, WindowKeepsUp, ThroughIsDelivered
<1>4. ~ aliased
  BY DEF Init
<1> QED  BY <1>2, <1>3, <1>4 DEF LimitsInv

LEMMA LogLength == ASSUME TypeOK
                   PROVE  Len(log) \in Nat /\ Len(log) <= MaxPackets
BY LenProperties DEF TypeOK

LEMMA SendKeepsNumbers ==
    ASSUME WithinLimits, TypeOK, NumbersFollowPackets, Send
    PROVE  NumbersFollowPackets'
<1> PICK id : id = Len(log) + 1
  OBVIOUS
<1>1. PICK ports \in Spread(entry) :
        /\ id \in Packets /\ id \notin Sent
        /\ Len(log') = id /\ Sent' = Sent \cup {id}
        /\ \A n \in Sent : log'[n] = log[n]
        /\ log'[id].live = (entry.action = "live_live_mcast")
        /\ log'[id].seq = seq_n'
        /\ seq_n' = IF entry.action = "live_live_mcast"
                    THEN NextSeqNo(seq_n) ELSE seq_n
  BY SendCopies
<1>2. /\ Len(log) \in Nat /\ id <= MaxPackets /\ seq_n \in Nat
      /\ seq_n <= Len(log)
  BY <1>1, LogLength, LiveLiveAssumption
  DEF Packets, NumbersFollowPackets, TypeOK, SeqNo
<1>3. NextSeqNo(seq_n) = seq_n + 1
  <2>1. seq_n + 1 \in 0 .. SEQ_MOD - 1
    BY <1>2, LiveLiveAssumption, WindowAssumption DEF WithinLimits
  <2> QED  BY <2>1, ModFits, WindowAssumption DEF NextSeqNo, ToSeqNo
<1>4. \/ log'[id].live /\ seq_n' = seq_n + 1
      \/ ~ log'[id].live /\ seq_n' = seq_n
  BY <1>1, <1>3
<1>5. \A n \in Sent : /\ n \in Nat /\ n < id /\ log[n].seq \in Nat
                      /\ log'[n] = log[n]
  BY <1>1, <1>2, SentMeaning DEF Sent, SeqNo
<1>6. seq_n' <= Len(log')
  BY <1>1, <1>2, <1>4
<1>7. ASSUME NEW i \in Sent', log'[i].live
      PROVE  /\ 1 <= log'[i].seq /\ log'[i].seq <= seq_n'
             /\ seq_n' - log'[i].seq <= Len(log') - i
  <2>1. CASE i = id
    BY <1>1, <1>2, <1>4, <1>7, <2>1
  <2>2. CASE i # id
    <3>1. i \in Sent /\ log'[i] = log[i] /\ log[i].live
      BY <1>1, <1>7, <2>2
    <3>2. /\ 1 <= log[i].seq /\ log[i].seq <= seq_n
          /\ seq_n - log[i].seq <= Len(log) - i
      BY <3>1 DEF NumbersFollowPackets
    <3> QED  BY <1>1, <1>2, <1>4, <1>5, <3>1, <3>2
  <2> QED  BY <2>1, <2>2
<1>8. ASSUME NEW i \in Sent', NEW j \in Sent', log'[i].live, log'[j].live, i < j
      PROVE  log'[i].seq < log'[j].seq
  <2>1. i \in Sent /\ log[i].live
    BY <1>1, <1>2, <1>5, <1>8
  <2>2. CASE j = id
    <3>1. log[i].seq <= seq_n
      BY <2>1 DEF NumbersFollowPackets
    <3> QED  BY <1>1, <1>2, <1>4, <1>5, <1>8, <2>1, <2>2, <3>1
  <2>3. CASE j # id
    BY <1>1, <1>8, <2>1, <2>3 DEF NumbersFollowPackets
  <2> QED  BY <2>2, <2>3
<1>9. ASSUME NEW n \in 1 .. seq_n'
      PROVE  \E i \in Sent' : log'[i].live /\ log'[i].seq = n
  <2>1. CASE n \in 1 .. seq_n
    <3>1. PICK i \in Sent : log[i].live /\ log[i].seq = n
      BY <2>1 DEF NumbersFollowPackets
    <3> QED  BY <1>1, <3>1
  <2>2. CASE n \notin 1 .. seq_n
    <3>1. log'[id].live /\ n = seq_n'
      BY <1>2, <1>4, <2>2
    <3> QED  BY <1>1, <3>1
  <2> QED  BY <2>1, <2>2
<1> QED  BY <1>6, <1>7, <1>8, <1>9 DEF NumbersFollowPackets

LEMMA SendKeepsLimits ==
    ASSUME WithinLimits, IInv, HistoryInv, LimitsInv, Send
    PROVE  LimitsInv'
<1>0. TypeOK /\ Ordered
  BY DEF IInv, HistoryInv, CopiesInv
<1> PICK id : id = Len(log) + 1
  OBVIOUS
<1>1. PICK ports \in Spread(entry) :
        /\ id \in Packets /\ id \notin Sent
        /\ Len(log') = id /\ Sent' = Sent \cup {id}
        /\ \A n \in Sent : log'[n] = log[n]
        /\ log'[id].live = (entry.action = "live_live_mcast")
        /\ log'[id].ports = ports
        /\ lost' = [lost EXCEPT ![id] = ports \ Paths]
        /\ \A p \in Paths : \A n :
             OnPath(n, p)' <=> OnPath(n, p) \/ (n = id /\ p \in ports)
  BY <1>0, SendCopies
<1>2. UNCHANGED <<received, flow_window_start, flow_to_bitmap, aliased>>
  BY DEF Send, e2_vars
<1>3. Len(log) \in Nat /\ \A n \in Sent : n \in Nat /\ n < id
  BY <1>0, LogLength DEF Sent
<1>4. NumbersFollowPackets'
  BY <1>0, SendKeepsNumbers DEF LimitsInv
<1>5. LagIsBounded'
  <2> SUFFICES ASSUME NEW n \in Sent', NEW p \in Paths, OnPath(n, p)'
               PROVE  Len(log') - n <= MaxLag
    BY DEF LagIsBounded
  <2>1. CASE n = id
    BY <1>1, <1>3, <2>1, LiveLiveAssumption
  <2>2. CASE n # id
    <3>1. n \in Sent
      BY <1>1, <2>2
    <3>2. PICK i \in 1 .. Len(link[p]) : link[p][i] = n
      BY <1>1, <2>2 DEF OnPath
    <3>3. link[p] \in Seq(Sent) /\ Len(link[p]) \in Nat
      BY <1>0, LenProperties DEF TypeOK
    <3>4. link[p] # << >>
      BY <3>2
    <3>5. Head(link[p]) = link[p][1] /\ Head(link[p]) \in Sent
      BY <3>3, <3>4, HeadTailProperties
    <3>6. link[p][1] <= n
      <4>1. CASE i = 1
        BY <1>3, <3>1, <3>2, <4>1
      <4>2. CASE i # 1
        <5>1. 1 \in 1 .. Len(link[p]) /\ 1 < i
          BY <3>3, <4>2
        <5>2. link[p][1] < link[p][i]
          BY <1>0, <5>1 DEF Ordered
        <5> QED  BY <1>3, <3>1, <3>2, <3>5, <5>2
      <4> QED  BY <4>1, <4>2
    <3>7. id - link[p][1] <= MaxLag
      BY <3>4, <3>5 DEF Send, WithinLag
    <3> QED  BY <1>1, <1>3, <3>1, <3>5, <3>6, <3>7, LiveLiveAssumption
  <2> QED  BY <2>1, <2>2
<1>6. CopiesOnSoundPath'
  <2> SUFFICES ASSUME NEW n \in Sent', NEW p \in Paths,
                      log'[n].live, SoundPath(p)
               PROVE  p \in log'[n].ports
    BY DEF CopiesOnSoundPath, SoundPath
  <2>1. CASE n = id
    <3>1. entry.action = "live_live_mcast" /\ entry \in Entries
      BY <1>0, <1>1, <2>1 DEF TypeOK
    <3>2. p \in entry.ports
      BY <3>1 DEF SoundPath
    <3> QED  BY <1>1, <2>1, <3>1, <3>2 DEF Spread
  <2>2. CASE n # id
    BY <1>1, <2>2 DEF LimitsInv, CopiesOnSoundPath
  <2> QED  BY <2>1, <2>2
<1>8. WindowKeepsUp'
  <2> SUFFICES ASSUME NEW n \in Sent', NEW p \in Paths \ LossyPaths,
                      log'[n].live, p \in log'[n].ports, ~ OnPath(n, p)'
               PROVE  log'[n].seq <= flow_window_start + (WINDOW_SIZE - 1)
    BY <1>2 DEF WindowKeepsUp
  <2>1. n # id
    BY <1>1
  <2> QED  BY <1>1, <2>1 DEF LimitsInv, WindowKeepsUp
<1>9. ThroughIsDelivered'
  <2> SUFFICES ASSUME NEW n \in Sent', NEW p \in CameThrough(n)'
               PROVE  received[n] > 0
    BY <1>2 DEF ThroughIsDelivered
  <2>1. p \in log'[n].ports \ lost'[n] /\ ~ OnPath(n, p)'
    BY DEF CameThrough
  <2>2. lost \in [Packets -> SUBSET Ports]
    BY <1>0 DEF TypeOK
  <2>3. n # id
    <3>1. lost'[id] = ports \ Paths
      BY <1>1, <2>2
    <3> QED  BY <1>1, <2>1, <3>1
  <2>4. n \in Sent /\ n \in Packets
    BY <1>0, <1>1, <2>3, SentMeaning
  <2>5. log'[n] = log[n] /\ lost'[n] = lost[n]
    BY <1>1, <2>2, <2>3, <2>4
  <2>6. p \in Paths
    BY <2>1, <2>4, <2>5 DEF HistoryInv, CopiesInv, LostAreCopies
  <2>7. p \in CameThrough(n)
    BY <1>1, <2>1, <2>3, <2>5, <2>6 DEF CameThrough
  <2> QED  BY <2>4, <2>7 DEF LimitsInv, ThroughIsDelivered
<1>10. ~ aliased'
  BY <1>2 DEF LimitsInv
<1> QED  BY <1>4, <1>5, <1>6, <1>8, <1>9, <1>10 DEF LimitsInv

LEMMA LoseKeepsLimits ==
    ASSUME IInv, HistoryInv, LimitsInv, NEW p \in Paths, Lose(p)
    PROVE  LimitsInv'
<1> PICK id : id = link[p][1]
  OBVIOUS
<1>0. TypeOK /\ Ordered
  BY DEF IInv, HistoryInv, CopiesInv
<1>1. /\ id \in Sent /\ Head(link[p]) = id
      /\ \A q \in Paths : \A n :
           OnPath(n, q)' <=> OnPath(n, q) /\ ~ (q = p /\ n = id)
  BY <1>0, PopCopies DEF Lose
<1>2. /\ UNCHANGED <<log, seq_n, received, flow_window_start, aliased>>
      /\ Sent' = Sent /\ p \in LossyPaths
  BY DEF Lose, e1_vars, e2_vars, Sent
<1>3. NumbersFollowPackets' /\ CopiesOnSoundPath'
  BY <1>2 DEF LimitsInv, NumbersFollowPackets, CopiesOnSoundPath, SoundPath
<1>4. LagIsBounded'
  BY <1>1, <1>2 DEF LimitsInv, LagIsBounded
<1>5. WindowKeepsUp'
  BY <1>1, <1>2 DEF LimitsInv, WindowKeepsUp
<1>6. ThroughIsDelivered'
  <2> SUFFICES ASSUME NEW n \in Sent, NEW q \in CameThrough(n)'
               PROVE  received[n] > 0
    BY <1>2 DEF ThroughIsDelivered
  <2>1. lost \in [Packets -> SUBSET Ports] /\ n \in Packets
    BY <1>0, SentMeaning DEF TypeOK
  <2>2. lost'[n] = IF n = id THEN lost[n] \cup {p} ELSE lost[n]
    BY <1>1, <2>1 DEF Lose
  <2>3. q \in log[n].ports \ lost[n] /\ ~ (q = p /\ n = id) /\ ~ OnPath(n, q)'
    BY <1>2, <2>2 DEF CameThrough
  <2>4. q \in Paths
    BY <2>3 DEF HistoryInv, CopiesInv, LostAreCopies
  <2>5. q \in CameThrough(n)
    BY <1>1, <2>3, <2>4 DEF CameThrough
  <2> QED  BY <2>5 DEF LimitsInv, ThroughIsDelivered
<1>7. ~ aliased'
  BY <1>2 DEF LimitsInv
<1> QED  BY <1>3, <1>4, <1>5, <1>6, <1>7 DEF LimitsInv

\* A copy on its way is not too old for the window when it arrives.
LEMMA CopyIsNotBehind ==
    ASSUME WithinLimits, IInv, HistoryInv, LimitsInv,
           NEW p \in Paths, NEW id \in Sent, log[id].live, OnPath(id, p)
    PROVE  log[id].seq >= flow_window_start
<1>1. /\ Len(log) \in Nat /\ id \in Nat /\ log[id].seq \in Nat
      /\ seq_n \in Nat /\ WINDOW_SIZE \in Nat /\ MaxLag \in Nat
  BY LogLength, SentMeaning, WindowAssumption, LiveLiveAssumption
  DEF IInv, TypeOK, SeqNo
<1>2. /\ Len(log) - id <= MaxLag /\ seq_n - log[id].seq <= Len(log) - id
      /\ MaxLag < WINDOW_SIZE
  BY DEF LimitsInv, LagIsBounded, NumbersFollowPackets, WithinLimits
<1>3. CASE flow_window_start = 0
  BY <1>1, <1>3
<1>4. ASSUME NEW j \in Sent, log[j].live,
             flow_window_start = log[j].seq - (WINDOW_SIZE - 1)
      PROVE  log[id].seq >= flow_window_start
  <2>1. log[j].seq \in Nat /\ log[j].seq <= seq_n
    BY <1>4, SentMeaning DEF IInv, LimitsInv, NumbersFollowPackets, SeqNo
  <2> QED  BY <1>1, <1>2, <1>4, <2>1
<1> QED  BY <1>3, <1>4 DEF HistoryInv, StartIsOfPacket

\* Nor does it make the window slide so far that the shift is truncated.
LEMMA SlideIsExact ==
    ASSUME WithinLimits, IInv, LimitsInv, NEW id \in Sent, log[id].live
    PROVE  ~ Aliases(flow_window_start, log[id].seq)
<1> DEFINE s == log[id].seq
           start == flow_window_start
<1> SUFFICES ASSUME Ahead(start, s) PROVE ShiftIdx(start, s) = Jump(start, s)
  BY DEF Aliases
<1>1. s \in SeqNo /\ Placeable(start)
  BY SentMeaning DEF IInv, WindowOK
<1>2. /\ Jump(start, s) = s - (WINDOW_SIZE - 1) - start
      /\ Jump(start, s) \in Nat
      /\ s > start + (WINDOW_SIZE - 1)
  BY <1>1, JumpMeaning, AheadMeaning
<1>3. /\ s \in Nat /\ start \in Nat /\ WINDOW_SIZE \in Nat \ {0}
      /\ IDX_MOD \in Nat /\ MaxLag \in Nat /\ MaxPackets \in Nat
      /\ Len(log) \in Nat /\ Len(log) <= MaxPackets /\ seq_n \in Nat
  BY <1>1, LogLength, WindowAssumption, LiveLiveAssumption
  DEF SeqNo, Placeable, IInv, TypeOK
<1>4. s <= seq_n /\ seq_n <= Len(log)
  BY DEF LimitsInv, NumbersFollowPackets
<1>5. Jump(start, s) < IDX_MOD
  <2>1. CASE MaxPackets < IDX_MOD
    <3> HIDE DEF s, start
    <3> QED  BY <1>2, <1>3, <1>4, <2>1
  <2>2. ASSUME WINDOW_SIZE < IDX_MOD, NEW p \in Paths, SoundPath(p)
        PROVE  Jump(start, s) < IDX_MOD
    <3> DEFINE k == start + WINDOW_SIZE
    <3>1. k \in 1 .. seq_n
      <4> HIDE DEF s, start
      <4> QED  BY <1>2, <1>3, <1>4
    <3>2. PICK i \in Sent : log[i].live /\ log[i].seq = k
      BY <3>1 DEF LimitsInv, NumbersFollowPackets
    <3>3. p \in log[i].ports /\ p \in Paths \ LossyPaths
      BY <2>2, <3>2 DEF LimitsInv, CopiesOnSoundPath, SoundPath
    <3>4. OnPath(i, p)
      <4>1. ~ (log[i].seq <= start + (WINDOW_SIZE - 1))
        BY <1>3, <3>2
      <4> QED  BY <3>2, <3>3, <4>1 DEF LimitsInv, WindowKeepsUp
    <3>5. Len(log) - i <= MaxLag /\ seq_n - k <= Len(log) - i
      BY <3>2, <3>4 DEF LimitsInv, LagIsBounded, NumbersFollowPackets
    <3>6. i \in Nat /\ MaxLag < WINDOW_SIZE
      BY SentMeaning DEF IInv, WithinLimits
    <3>7. Jump(start, s) = s - (WINDOW_SIZE - 1) - start
      BY <1>2
    <3> HIDE DEF s, start
    <3> QED  BY <1>3, <1>4, <2>2, <3>5, <3>6, <3>7
  <2> QED  BY <2>1, <2>2 DEF WithinLimits
<1>6. Jump(start, s) \in 0 .. IDX_MOD - 1
  BY <1>2, <1>3, <1>5
<1> QED  BY <1>3, <1>6, ModFits, WindowAssumption DEF ShiftIdx, ToIdx

\* Within the limits a copy is refused only because its packet was received.
LEMMA ArriveKeepsLimits ==
    ASSUME Deduplicate, WithinLimits, IInv, HistoryInv, LimitsInv,
           NEW p \in Paths, Arrive(p)
    PROVE  LimitsInv'
<1> PICK id : id = link[p][1]
  OBVIOUS
<1> DEFINE s == log[id].seq
           start == flow_window_start
<1>0. TypeOK /\ Ordered
  BY DEF IInv, HistoryInv, CopiesInv
<1>1. /\ id \in Sent /\ OnPath(id, p)
      /\ \A q \in Paths : \A n :
           OnPath(n, q)' <=> OnPath(n, q) /\ ~ (q = p /\ n = id)
  BY <1>0, PopCopies DEF Arrive
<1>2. UNCHANGED <<log, lost, seq_n>> /\ Sent' = Sent
  BY DEF Arrive, e1_vars, Sent
<1>3. /\ \/ received' = received /\ Numbered(id)
         \/ /\ received' = [received EXCEPT ![id] = @ + 1]
            /\ Deduplicate => received[id] = 0
      /\ IF Numbered(id)
         THEN Deduplicated(id)
         ELSE UNCHANGED <<flow_window_start, flow_to_bitmap, aliased>>
  BY ArriveMeaning
<1>4. /\ s \in SeqNo /\ flow_to_bitmap \in SUBSET Index /\ Placeable(start)
      /\ received \in [Packets -> Nat] /\ id \in Packets
      /\ WINDOW_SIZE \in Nat
  BY <1>0, <1>1, SentMeaning, WindowAssumption DEF IInv, WindowOK, TypeOK
<1>5. ASSUME log[id].live
      PROVE  /\ start' = NextStart(start, s) /\ ~ aliased'
             /\ ~ Aliases(start, s) /\ s >= start
             /\ Placeable(start') /\ start' >= start
             /\ s <= start' + (WINDOW_SIZE - 1)
             /\ start' = start \/ start' = s - (WINDOW_SIZE - 1)
  <2>1. Deduplicated(id)
    BY <1>3, <1>5 DEF Numbered
  <2>2. ~ Aliases(start, s) /\ s >= start
    BY <1>1, <1>5, CopyIsNotBehind, SlideIsExact
  <2>3. start' = NextStart(start, s) /\ ~ aliased'
    BY <2>1, <2>2 DEF Deduplicated, LimitsInv
  <2>4. Placeable(start') /\ start' >= start
    BY <1>4, <2>3, NextRegisters
  <2>5. CASE Ahead(start, s)
    <3>1. start' = s - (WINDOW_SIZE - 1)
      BY <1>4, <2>3, <2>5, JumpMeaning DEF NextStart
    <3> QED  BY <1>4, <2>2, <2>3, <2>4, <3>1 DEF SeqNo
  <2>6. CASE ~ Ahead(start, s)
    <3>1. start' = start
      BY <2>3, <2>6 DEF NextStart, PlacedStart
    <3>2. s <= start + (WINDOW_SIZE - 1)
      BY <1>4, <2>6, AheadMeaning DEF Placeable, SeqNo
    <3> QED  BY <2>2, <2>3, <2>4, <3>1, <3>2
  <2> QED  BY <2>5, <2>6
<1>6. ASSUME ~ log[id].live
      PROVE  UNCHANGED <<flow_window_start, flow_to_bitmap, aliased>>
  BY <1>3, <1>6 DEF Numbered
<1>7. start \in Nat /\ start' \in Nat /\ start' >= start
  BY <1>4, <1>5, <1>6 DEF Placeable
<1>8. NumbersFollowPackets' /\ CopiesOnSoundPath'
  BY <1>2 DEF LimitsInv, NumbersFollowPackets, CopiesOnSoundPath, SoundPath
<1>9. LagIsBounded'
  BY <1>1, <1>2 DEF LimitsInv, LagIsBounded
<1>11. WindowKeepsUp'
  <2> SUFFICES ASSUME NEW n \in Sent, NEW q \in Paths \ LossyPaths,
                      log[n].live, q \in log[n].ports, ~ OnPath(n, q)'
               PROVE  log[n].seq <= start' + (WINDOW_SIZE - 1)
    BY <1>2 DEF WindowKeepsUp
  <2>1. CASE OnPath(n, q)
    <3>1. n = id
      BY <1>1, <2>1
    <3> QED  BY <1>5, <3>1
  <2>2. CASE ~ OnPath(n, q)
    <3>1. log[n].seq <= start + (WINDOW_SIZE - 1)
      BY <2>2 DEF LimitsInv, WindowKeepsUp
    <3>2. log[n].seq \in Nat
      BY <1>0, SentMeaning DEF SeqNo
    <3> HIDE DEF start
    <3> QED  BY <1>4, <1>7, <3>1, <3>2
  <2> QED  BY <2>1, <2>2
<1>12. received'[id] > 0
  <2>1. CASE received' # received
    <3>1. received'[id] = received[id] + 1 /\ received[id] \in Nat
      BY <1>3, <1>4, <2>1
    <3> QED  BY <3>1
  <2>2. CASE received' = received
    <3>1. received # [received EXCEPT ![id] = @ + 1]
      BY <1>4
    <3>2. Numbered(id) /\ Deduplicated(id)
      BY <1>3, <2>2, <3>1
    <3>3. Refused(flow_window_start, flow_to_bitmap, s)
      BY <2>2, <3>1, <3>2 DEF Deduplicated, Forward
    <3>4. log[id].live
      BY <3>2 DEF Numbered
    <3>5. ~ (s < start)
      BY <1>4, <1>5, <1>7, <3>4 DEF SeqNo
    <3>6. PICK n \in Sent : /\ log[n].live /\ received[n] > 0
                            /\ log[n].seq = s
      BY <1>1, <1>5, <3>3, <3>4, <3>5, RefusedMeaning
      DEF HistoryInv, LimitsInv
    <3>7. n = id
      <4>1. /\ n < id => log[n].seq < s
            /\ id < n => s < log[n].seq
        BY <1>1, <3>4, <3>6 DEF LimitsInv, NumbersFollowPackets
      <4>2. n \in Nat /\ id \in Nat
        BY <1>0, <1>1, SentMeaning
      <4>3. ~ (s < s)
        BY <1>4 DEF SeqNo
      <4> QED  BY <3>6, <4>1, <4>2, <4>3
    <3> QED  BY <2>2, <3>6, <3>7
  <2> QED  BY <2>1, <2>2
<1>13. ThroughIsDelivered'
  <2> SUFFICES ASSUME NEW n \in Sent, NEW q \in CameThrough(n)'
               PROVE  received'[n] > 0
    BY <1>2 DEF ThroughIsDelivered
  <2>1. CASE n = id
    BY <1>12, <2>1
  <2>2. CASE n # id
    <3>1. q \in log[n].ports \ lost[n] /\ ~ OnPath(n, q)'
      BY <1>2 DEF CameThrough
    <3>2. q \in Paths
      BY <3>1 DEF HistoryInv, CopiesInv, LostAreCopies
    <3>3. q \in CameThrough(n)
      BY <1>1, <2>2, <3>1, <3>2 DEF CameThrough
    <3>4. received[n] > 0
      BY <3>3 DEF LimitsInv, ThroughIsDelivered
    <3>5. n \in Packets
      BY <1>0, SentMeaning
    <3> QED  BY <1>3, <1>4, <2>2, <3>4, <3>5
  <2> QED  BY <2>1, <2>2
<1>14. ~ aliased'
  BY <1>5, <1>6 DEF LimitsInv
<1> QED  BY <1>8, <1>9, <1>11, <1>13, <1>14 DEF LimitsInv

LEMMA NextLimits ==
    ASSUME Deduplicate, WithinLimits
    PROVE  IInv /\ HistoryInv /\ LimitsInv /\ [Next]_vars => LimitsInv'
<1> SUFFICES ASSUME IInv, HistoryInv, LimitsInv, [Next]_vars PROVE LimitsInv'
  OBVIOUS
<1>1. ASSUME UNCHANGED <<log, link, lost, seq_n, received, flow_window_start,
                         aliased>>
      PROVE  LimitsInv'
  <2>1. /\ Sent' = Sent /\ \A n, p : OnPath(n, p)' = OnPath(n, p)
        /\ \A n : CameThrough(n)' = CameThrough(n)
    BY <1>1 DEF Sent, OnPath, CameThrough
  <2>2. NumbersFollowPackets' /\ LagIsBounded'
    BY <1>1, <2>1 DEF LimitsInv, NumbersFollowPackets, LagIsBounded
  <2>3. CopiesOnSoundPath' /\ WindowKeepsUp'
    BY <1>1, <2>1 DEF LimitsInv, CopiesOnSoundPath, SoundPath, WindowKeepsUp
  <2>4. ThroughIsDelivered' /\ ~ aliased'
    BY <1>1, <2>1 DEF LimitsInv, ThroughIsDelivered
  <2> QED  BY <2>2, <2>3, <2>4 DEF LimitsInv
<1>2. ASSUME NEW e \in Entries, SetEntry(e) PROVE LimitsInv'
  BY <1>1, <1>2 DEF SetEntry, e2_vars
<1>3. CASE Send
  BY <1>3, SendKeepsLimits
<1>4. ASSUME NEW p \in Paths, Lose(p) PROVE LimitsInv'
  BY <1>4, LoseKeepsLimits
<1>5. ASSUME NEW p \in Paths, Arrive(p) PROVE LimitsInv'
  BY <1>5, ArriveKeepsLimits
<1>6. CASE UNCHANGED vars
  BY <1>1, <1>6 DEF vars
<1> QED  BY <1>2, <1>3, <1>4, <1>5, <1>6 DEF Next

\* Within the limits a packet of which a copy was not lost reaches the host;
\* without the function at e2 there are no limits to keep.
THEOREM SurvivorsReachHost ==
    ASSUME Deduplicate => WithinLimits
    PROVE  Spec => []SurvivorIsDelivered
<1>1. ASSUME CopiesInv, ThroughIsDelivered PROVE SurvivorIsDelivered
  <2> SUFFICES ASSUME NEW id \in Sent, Gone(id), lost[id] # log[id].ports
               PROVE  received[id] > 0
    BY DEF SurvivorIsDelivered
  <2>1. CameThrough(id) # {}
    BY <1>1, GoneMeaning DEF CopiesInv, LostAreCopies
  <2> QED  BY <1>1, <2>1 DEF ThroughIsDelivered
<1>2. CASE Deduplicate
  <2>1. WithinLimits
    BY <1>2
  <2>2. Init => LimitsInv
    BY InitLimits
  <2>3. IInv /\ HistoryInv /\ LimitsInv /\ [Next]_vars => LimitsInv'
    BY <1>2, <2>1, NextLimits
  <2>4. HistoryInv /\ LimitsInv => SurvivorIsDelivered
    BY <1>1 DEF HistoryInv, LimitsInv
  <2> QED  BY <2>2, <2>3, <2>4, AlwaysHistory, PTL DEF Spec
<1>3. CASE ~ Deduplicate
  <2>1. IInv /\ HistoryInv => SurvivorIsDelivered
    <3> SUFFICES ASSUME IInv, HistoryInv PROVE SurvivorIsDelivered
      OBVIOUS
    <3>1. ASSUME NEW id \in Sent, CameThrough(id) # {}
          PROVE  received[id] > 0
      <4>1. /\ IsFiniteSet(CameThrough(id))
            /\ received[id] = Cardinality(CameThrough(id))
        BY <1>3 DEF HistoryInv, ThroughIsCounted
      <4>2. received[id] # 0 /\ received[id] \in Nat
        BY <3>1, <4>1, FS_EmptySet, SentMeaning DEF IInv
      <4> QED  BY <4>2
    <3>2. ThroughIsDelivered
      BY <3>1 DEF ThroughIsDelivered
    <3> QED  BY <1>1, <3>2 DEF HistoryInv
  <2> QED  BY <2>1, AlwaysHistory, PTL
<1> QED  BY <1>2, <1>3
=============================================================================
