------------------------- MODULE RemoteInputProofs -------------------------
(***************************************************************************)
(* Proofs about RemoteInput.                                               *)
(***************************************************************************)
EXTENDS RemoteInput, SeqLemmas

-----------------------------------------------------------------------------
(* The helpers.                                                            *)

\* s_acat() adds the whole block if there is no null byte in it.
LEMMA NoNul ==
  ASSUME NEW S, "NUL" \notin S, NEW s \in Seq(S)
  PROVE  UpToNul(s) = s
<1>1. \A i \in DOMAIN s : s[i] # "NUL"
  OBVIOUS
<1> QED BY <1>1 DEF UpToNul

\* In any case it adds bytes that were received.
LEMMA UpToNulType ==
  ASSUME NEW S, NEW s \in Seq(S)
  PROVE  UpToNul(s) \in Seq(S)
<1> DEFINE nuls == {i \in DOMAIN s : s[i] = "NUL"}
           first == CHOOSE i \in nuls : \A j \in nuls : i <= j
<1>1. nuls \subseteq 1..Len(s) /\ Len(s) \in Nat
  OBVIOUS
<1>2. CASE nuls = {}
  BY <1>2 DEF UpToNul
<1>3. CASE nuls # {}
  <2> HIDE DEF nuls
  <2>1. nuls \subseteq Nat
    BY <1>1
  <2>2. \E i \in nuls : \A j \in nuls : i <= j
    BY <1>3, <2>1, LeastNat
  <2>3. first \in nuls
    BY <2>2
  <2>4. UpToNul(s) = SubSeq(s, 1, first - 1)
    BY <1>3 DEF UpToNul, nuls
  <2> HIDE DEF first
  <2> QED BY <1>1, <2>3, <2>4, Upto
<1> QED BY <1>2, <1>3

LEMMA NewlineTypes ==
  ASSUME NEW S, NEW s \in Seq(S)
  PROVE  AfterNL(s) \in Seq(S) /\ ToNL(s) \in Seq(S)
<1> DEFINE nls == {i \in DOMAIN s : s[i] = "NL"}
           last == IF nls = {} THEN 0 ELSE CHOOSE i \in nls : \A j \in nls : j <= i
<1>1. Len(s) \in Nat /\ nls \subseteq 0..Len(s)
  OBVIOUS
<1>2. last \in 0..Len(s)
  <2> HIDE DEF nls
  <2>1. nls # {} => \E i \in nls : \A j \in nls : j <= i
    BY <1>1, GreatestNat
  <2>2. nls # {} => last \in nls
    BY <2>1
  <2>3. nls = {} => last = 0
    OBVIOUS
  <2>4. 0 \in 0..Len(s)
    BY <1>1
  <2> HIDE DEF last
  <2>5. CASE nls = {}
    BY <2>3, <2>4, <2>5
  <2>6. CASE nls # {}
    BY <1>1, <2>2, <2>6
  <2> QED BY <2>5, <2>6
<1>3. AfterNL(s) = SubSeq(s, last + 1, Len(s))
  BY DEF AfterNL
<1> HIDE DEF last
<1>4. AfterNL(s) \in Seq(S) /\ Len(AfterNL(s)) = Len(s) - last
  BY <1>2, <1>3, Halves
<1>5. Len(s) - Len(AfterNL(s)) \in 0..Len(s)
  BY <1>1, <1>2, <1>4
<1>6. ToNL(s) = SubSeq(s, 1, Len(s) - Len(AfterNL(s)))
  BY DEF ToNL
<1> DEFINE n == Len(s) - Len(AfterNL(s))
<1> HIDE DEF n
<1>7. SubSeq(s, 1, n) \in Seq(S)
  BY <1>5, Halves DEF n
<1> QED BY <1>4, <1>6, <1>7 DEF n

\* An offer has one answer at most, and only to an offer of theirs is it DO or
\* DONT.
LEMMA AnswerIs ==
  ASSUME NEW opt
  PROVE  Answer(opt) = <<>> \/ \E v \in {"WONT", "DO", "DONT"} : Answer(opt) = <<v>>
BY DEF Answer

-----------------------------------------------------------------------------
(* Types.                                                                  *)

ScanFns == {"char", "line", "lines", "prompt", "flush", "done"}

\* Where the scan is.  When a program disconnects and connects anew in the
\* middle of it, nothing was read yet from the new connection.
Positions ==
  /\ fn = "char" => Same
  /\ fn \in ScanFns => saved # 0
  /\ saved = 0 => at = 1
  /\ fn \in {"flush", "done"} =>
       IF Same THEN at = Len(Rbuf) + 1 ELSE rid # 0 => Rbuf = <<>>

Typed == TypeOK /\ Positions

\* The parts of TypeOK.
Events == Seq([byte : STRING, kept : BOOLEAN])
Replies == Seq([verb : Verbs, opt : STRING])
TextOK ==
  /\ wire \in Byteseq /\ sent \in Byteseq /\ Rbuf \in Byteseq
  /\ Rtelnetbuf \in Byteseq /\ given \in Byteseq
  /\ eaten \in Events /\ replies \in Replies
StateOK ==
  /\ words \in Nat /\ conns \in Nat /\ rid \in 0..conns /\ saved \in 0..conns
  /\ Riac \in BOOLEAN /\ Rintent \in Verbs \cup {"none"}
  /\ Recho \in BOOLEAN /\ Reor \in BOOLEAN /\ Rraw \in BOOLEAN
  /\ wanted \in BOOLEAN /\ Rinbuf \in BOOLEAN
  /\ fn \in Sites \cup {"select", "ready", "cycle", "char", "done"}
PlaceOK == at \in 1..(Len(Rbuf) + 1) \/ ~Same

LEMMA TypeParts ==
  /\ TypeOK <=> TextOK /\ StateOK /\ PlaceOK
  /\ TypeOK' <=> TextOK' /\ StateOK' /\ PlaceOK'
<1>1. TypeOK <=> TextOK /\ StateOK /\ PlaceOK
  <2> HIDE DEF Byteseq, Sites, Verbs
  <2>1. TypeOK => TextOK
    BY DEF TypeOK, TextOK, Events, Replies
  <2>2. TypeOK => StateOK /\ PlaceOK
    BY DEF TypeOK, StateOK, PlaceOK
  <2>3. TextOK /\ StateOK /\ PlaceOK => TypeOK
    BY DEF TypeOK, TextOK, StateOK, PlaceOK, Events, Replies
  <2> QED BY <2>1, <2>2, <2>3
<1>2. TypeOK' <=> TextOK' /\ StateOK' /\ PlaceOK'
  <2>1. TypeOK' => TextOK'
    BY DEF TypeOK, TextOK, Events, Replies
  <2>2. TypeOK' => StateOK' /\ PlaceOK'
    BY DEF TypeOK, StateOK, PlaceOK
  <2>3. TextOK' /\ StateOK' /\ PlaceOK' => TypeOK'
    BY DEF TypeOK, TextOK, StateOK, PlaceOK, Events, Replies
  <2> QED BY <2>1, <2>2, <2>3
<1> QED BY <1>1, <1>2

LEMMA FeedTypes ==
  ASSUME Typed, Feed
  PROVE  /\ Byte \in Bytes /\ Byte \in STRING
         /\ Rbuf \in Byteseq /\ at \in 1..Len(Rbuf) /\ at + 1 \in 1..(Len(Rbuf) + 1)
         /\ eaten' \in Seq([byte : STRING, kept : BOOLEAN]) /\ Rinbuf' \in BOOLEAN
         /\ rid # 0 /\ Same /\ saved # 0
<1>1. Rbuf \in Seq(Bytes) /\ at \in DOMAIN Rbuf /\ fn = "char" /\ rid # 0
  BY DEF Typed, TypeOK, Byteseq, Feed, Wanted
<1>2. at \in 1..Len(Rbuf) /\ Byte \in Bytes
  BY <1>1 DEF Byte
<1>3. Byte \in STRING
  BY <1>2, RemoteAssumption DEF Bytes
<1>4. eaten' \in Seq([byte : STRING, kept : BOOLEAN])
  BY <1>3 DEF Typed, TypeOK, Feed
<1> QED BY <1>1, <1>2, <1>3, <1>4 DEF Feed, Typed, Positions, ScanFns, Byteseq

LEMMA ByteOps ==
  /\ <<>> \in Seq(Bytes)
  /\ \A s, t \in Seq(Bytes) : s \o t \in Seq(Bytes)
  /\ \A s \in Seq(Bytes), b \in Bytes : Append(s, b) \in Seq(Bytes)
BY EmptySeq, ConcatProperties, AppendProperties

LEMMA InitTyped == Init => Typed
<1> SUFFICES ASSUME Init PROVE TypeOK /\ Positions
  BY DEF Typed
<1>1. TypeOK
  <2>1. /\ wire = <<>> /\ sent = <<>> /\ Rbuf = <<>> /\ Rtelnetbuf = <<>> /\ given = <<>>
        /\ eaten = <<>> /\ replies = <<>> /\ words = 0 /\ rid = 1 /\ conns = 1 /\ saved = 0
        /\ at = 1 /\ Riac = FALSE /\ Rintent = "none" /\ Recho = TRUE /\ Reor \in BOOLEAN
        /\ Rraw = FALSE /\ wanted = TRUE /\ Rinbuf \in BOOLEAN /\ fn = "select"
    BY DEF Init
  <2>2. rid \in 0..conns /\ saved \in 0..conns /\ conns \in Nat /\ words \in Nat /\ ~Same
    BY <2>1 DEF Same
  <2>3. /\ eaten \in Seq([byte : STRING, kept : BOOLEAN])
        /\ replies \in Seq([verb : Verbs, opt : STRING])
    BY <2>1, EmptySeq
  <2> QED BY <2>1, <2>2, <2>3, ByteOps DEF TypeOK, Byteseq
<1>2. Positions
  BY DEF Init, Positions, Same, ScanFns
<1> QED BY <1>1, <1>2

LEMMA NextTyped ==
  ASSUME Typed, [Next]_vars
  PROVE  Typed'
<1> USE DEF Byteseq
<1>1. TypeOK /\ Positions /\ TextOK /\ StateOK /\ PlaceOK
  BY TypeParts DEF Typed
<1>2. /\ wire \in Seq(Bytes) /\ sent \in Seq(Bytes) /\ Rbuf \in Seq(Bytes)
      /\ Rtelnetbuf \in Seq(Bytes) /\ given \in Seq(Bytes) /\ conns \in Nat
      /\ Len(Rbuf) \in Nat
  BY DEF Typed, TypeOK
<1>0. /\ <<>> \in Seq(Bytes)
      /\ \A s, t \in Seq(Bytes) : s \o t \in Seq(Bytes)
      /\ \A s \in Seq(Bytes), b \in Bytes : Append(s, b) \in Seq(Bytes)
  BY ByteOps
<1>3. AfterNL(Rtelnetbuf) \in Seq(Bytes) /\ ToNL(Rtelnetbuf) \in Seq(Bytes)
  BY <1>2, NewlineTypes
<1>4. ASSUME NEW w \in Words, PeerSends(w) PROVE Typed'
  <2>1. w \in Seq(Bytes)
    <3>1. \A i \in DOMAIN w : w[i] \in Bytes
      BY DEF Bytes
    <3>2. w \in Seq(STRING)
      BY RemoteAssumption
    <3> QED BY <3>1, <3>2
  <2>2. wire' \in Seq(Bytes) /\ sent' \in Seq(Bytes)
    BY <1>2, <1>4, <2>1 DEF PeerSends
  <2>3. TypeOK'
    <3>1. TextOK'
      BY <1>1, <1>4, <2>2 DEF TextOK, Events, Replies, PeerSends, conn, buffers, telnet, flags,
          scan
    <3>2. StateOK'
      BY <1>1, <1>4, <2>2 DEF StateOK, PeerSends, conn, buffers, telnet, flags, scan
    <3>3. PlaceOK'
      BY <1>1, <1>4, <2>2 DEF PlaceOK, PeerSends, Same, conn, buffers, telnet, flags, scan
    <3> QED BY <3>1, <3>2, <3>3, TypeParts
  <2>4. Positions'
    BY <1>1, <1>4 DEF PeerSends, Positions, Same, conn, buffers, scan, ScanFns
  <2> QED BY <2>3, <2>4 DEF Typed
<1>5. ASSUME NEW n \in DOMAIN wire, ReceiveInput(n) PROVE Typed'
  <2>1. n \in 1..Len(wire) /\ n \in 0..Len(wire) /\ Len(wire) \in Nat
    BY <1>2
  <2>2. SubSeq(wire, 1, n) \in Seq(Bytes) /\ wire' \in Seq(Bytes)
    BY <1>2, <1>5, <2>1, Halves DEF ReceiveInput
  <2> DEFINE u == UpToNul(SubSeq(wire, 1, n))
  <2>3. u \in Seq(Bytes) /\ Rbuf' = Rbuf \o u
    BY <1>5, <2>2, UpToNulType DEF ReceiveInput
  <2> HIDE DEF u
  <2>4. Rbuf' \in Seq(Bytes) /\ Len(Rbuf') >= Len(Rbuf) /\ Len(Rbuf') \in Nat
    BY <1>2, <2>3
  <2>5. at \in 1..(Len(Rbuf') + 1) \/ ~Same
    BY <1>1, <1>2, <2>4 DEF TypeOK
  <2>6. TypeOK'
    <3>1. TextOK'
      BY <1>1, <1>5, <2>2, <2>4, <2>5 DEF TextOK, Events, Replies, ReceiveInput, conn, telnet,
          flags, scan
    <3>2. StateOK'
      BY <1>1, <1>5, <2>2, <2>4, <2>5 DEF StateOK, ReceiveInput, conn, telnet, flags, scan, Sites
    <3>3. PlaceOK'
      BY <1>1, <1>5, <2>2, <2>4, <2>5 DEF PlaceOK, ReceiveInput, Same, conn, telnet, flags, scan
    <3> QED BY <3>1, <3>2, <3>3, TypeParts
  <2>7. Positions'
    BY <1>1, <1>5 DEF ReceiveInput, Positions, Same, conn, scan, ScanFns
  <2> QED BY <2>6, <2>7 DEF Typed
<1>6. CASE Cycle
  <2>1. 1 \in 1..(Len(Rbuf) + 1)
    BY <1>2
  <2>2. TypeOK'
    <3>1. TextOK'
      BY <1>1, <1>6, <2>1 DEF TextOK, Events, Replies, Cycle, socket, conn, buffers, telnet,
          flags, scan
    <3>2. StateOK'
      BY <1>1, <1>6, <2>1 DEF StateOK, Cycle, socket, conn, buffers, telnet, flags, scan, Sites
    <3>3. PlaceOK'
      BY <1>1, <1>6, <2>1 DEF PlaceOK, Cycle, Same, socket, conn, buffers, telnet, flags, scan
    <3> QED BY <3>1, <3>2, <3>3, TypeParts
  <2>3. Positions'
    BY <1>1, <1>6 DEF Cycle, Positions, Same, conn, buffers, scan, ScanFns
  <2> QED BY <2>2, <2>3 DEF Typed
<1>7. CASE Closed \/ OtherInput \/ Timer \/ Ready \/ Break
  <2>0. /\ UNCHANGED <<socket, conns, buffers, telnet, flags, Rinbuf, scan, eaten, given, replies>>
        /\ rid' = rid \/ (rid' = 0 /\ rid # 0)
        /\ fn' \in {"closed", "ready", "other", "cycle", "select"}
    BY <1>7 DEF Closed, OtherInput, Timer, Ready, Break, conn, Wanted
  <2>3. at \in 1..(Len(Rbuf) + 1) \/ rid' # saved
    <3>1. CASE rid' = rid
      BY <1>1, <3>1 DEF TypeOK, Same
    <3>2. CASE rid' = 0 /\ saved # 0
      BY <3>2
    <3>3. CASE saved = 0
      BY <1>1, <1>2, <3>3 DEF Positions
    <3> QED BY <2>0, <3>1, <3>2, <3>3
  <2>1. TypeOK'
    <3>1. TextOK'
      BY <1>1, <2>0, <2>3 DEF TextOK, Events, Replies, socket, buffers, telnet, flags, scan
    <3>2. StateOK'
      BY <1>1, <2>0, <2>3 DEF StateOK, socket, buffers, telnet, flags, scan, Sites
    <3>3. PlaceOK'
      BY <1>1, <2>0, <2>3 DEF PlaceOK, Same, socket, buffers, telnet, flags, scan
    <3> QED BY <3>1, <3>2, <3>3, TypeParts
  <2>2. Positions'
    BY <1>1, <1>7 DEF Closed, OtherInput, Timer, Ready, Break, Positions, Same, conn, buffers,
       scan, ScanFns
  <2> QED BY <2>1, <2>2 DEF Typed
<1>8. ASSUME Feed, Rtelnetbuf' \in Seq(Bytes), given' \in Seq(Bytes),
             Riac' \in BOOLEAN, Rintent' \in Verbs \cup {"none"},
             Recho' \in BOOLEAN, Reor' \in BOOLEAN, replies' \in Seq([verb : Verbs, opt : STRING]),
             \/ rid' = rid /\ fn' \in {"char", "line", "lines", "prompt"}
             \/ rid' = 0 /\ fn' = "option"
      PROVE  Typed'
  <2>1. /\ UNCHANGED <<socket, conns, Rbuf, flags, saved>> /\ at' = at + 1
        /\ at + 1 \in 1..(Len(Rbuf) + 1)
        /\ eaten' \in Seq([byte : STRING, kept : BOOLEAN]) /\ Rinbuf' \in BOOLEAN
        /\ rid # 0 /\ Same /\ saved # 0
    BY <1>8, FeedTypes DEF Feed
  <2>2. TypeOK'
    <3>1. TextOK'
      BY <1>1, <1>8, <2>1 DEF TextOK, Events, Replies, socket, flags
    <3>2. StateOK'
      BY <1>1, <1>8, <2>1 DEF StateOK, socket, flags, Sites
    <3>3. PlaceOK'
      BY <1>1, <1>8, <2>1 DEF PlaceOK, socket, flags, Same
    <3> QED BY <3>1, <3>2, <3>3, TypeParts
  <2>3. Positions'
    BY <1>8, <2>1 DEF Positions, Same, ScanFns
  <2> QED BY <2>2, <2>3 DEF Typed
<1>9. CASE Text
  <2>1. /\ Feed /\ fn = "char" /\ rid' = rid /\ UNCHANGED <<telnet, replies>>
        /\ Byte \in Bytes
    BY <1>9, FeedTypes DEF Text, Feed
  <2>2. /\ Rtelnetbuf' \in {Rtelnetbuf, Append(Rtelnetbuf, Byte)}
        /\ given' = given \/ (given' = given \o Append(Rtelnetbuf, "NL") /\ Byte = "NL")
        /\ fn' \in {"char", "line"}
    BY <1>9, <2>1 DEF Text, Give
  <2> DEFINE b == Byte
  <2>3. b \in Bytes /\ Rtelnetbuf' \in {Rtelnetbuf, Append(Rtelnetbuf, b)}
        /\ (given' = given \/ (given' = given \o Append(Rtelnetbuf, "NL") /\ b = "NL"))
    BY <2>1, <2>2
  <2> HIDE DEF b
  <2>4. Rtelnetbuf' \in Seq(Bytes) /\ given' \in Seq(Bytes)
    BY <1>0, <1>2, <2>3
  <2> QED BY <1>1, <1>8, <2>1, <2>2, <2>4 DEF TypeOK, telnet
<1>10. CASE Iac \/ Verb \/ OtherCommand
  <2>1. /\ Feed /\ fn' = "char" /\ UNCHANGED <<rid, Rtelnetbuf, Recho, Reor, given, replies>>
        /\ Riac' \in {TRUE, FALSE, Riac} /\ Rintent' \in Verbs \cup {Rintent}
    BY <1>10 DEF Iac, Verb, OtherCommand, Feed
  <2> QED BY <1>1, <1>8, <2>1 DEF TypeOK
<1>11. CASE Prompt
  <2>1. /\ Feed /\ fn' \in {"lines", "prompt"} /\ UNCHANGED <<rid, Rtelnetbuf, telnet, replies>>
        /\ given' = given \o ToNL(Rtelnetbuf) \/ given' = given \o Rtelnetbuf
    BY <1>11 DEF Prompt, Give
  <2>2. given' \in Seq(Bytes)
    BY <1>0, <1>2, <1>3, <2>1
  <2> QED BY <1>1, <1>8, <2>1, <2>2 DEF TypeOK, telnet
<1>12. CASE Option
  <2>1. /\ Feed /\ UNCHANGED <<Rtelnetbuf, given>> /\ Riac' = FALSE /\ Rintent' = "none"
        /\ Recho' \in BOOLEAN /\ Reor' \in BOOLEAN
        /\ \/ rid' = rid /\ fn' = "char"
           \/ rid' = 0 /\ fn' = "option"
    BY <1>1, <1>12 DEF Option, Feed, TypeOK
  <2>2. replies' \in Seq([verb : Verbs, opt : STRING])
    <3>1. CASE replies' = replies
      BY <1>1, <3>1 DEF TypeOK
    <3>2. CASE replies' # replies
      <4> DEFINE b == Byte
                 said == Answer(b)
                 new == [i \in DOMAIN said |-> [verb |-> said[i], opt |-> b]]
      <4>1. replies' = replies \o new
        BY <1>12, <3>2 DEF Option
      <4>2. b \in STRING
        BY <2>1, FeedTypes
      <4> HIDE DEF b
      <4>3. said = <<>> \/ \E v \in {"WONT", "DO", "DONT"} : said = <<v>>
        BY AnswerIs
      <4> HIDE DEF said
      <4>4. new \in Seq([verb : Verbs, opt : STRING])
        <5>1. CASE said = <<>>
          <6>1. new = <<>>
            BY <5>1
          <6> QED BY <6>1
        <5>2. ASSUME NEW v \in {"WONT", "DO", "DONT"}, said = <<v>>
              PROVE  new \in Seq([verb : Verbs, opt : STRING])
          <6>1. new = <<[verb |-> v, opt |-> b]>>
            BY <5>2
          <6>2. [verb |-> v, opt |-> b] \in [verb : Verbs, opt : STRING]
            BY <4>2 DEF Verbs
          <6> QED BY <6>1, <6>2
        <5> QED BY <4>3, <5>1, <5>2
      <4> HIDE DEF new
      <4> QED BY <1>1, <4>1, <4>4 DEF TypeOK
    <3> QED BY <3>1, <3>2
  <2> QED BY <1>8, <2>1, <2>2, <1>2 DEF Verbs
<1>13. CASE Held \/ Emptied
  <2>1. /\ fn = "char" /\ rid' = rid /\ saved' = saved
        /\ UNCHANGED <<socket, conn, telnet, flags, eaten, replies, Rtelnetbuf, Rinbuf>>
        /\ given' \in {given, given \o Rtelnetbuf}
    BY <1>13 DEF Held, Emptied, Flush, Give, conn, scan
  <2>2. given' \in Seq(Bytes)
    BY <1>0, <1>2, <2>1
  <2>3. CASE Held
    <3>1. Rbuf' = SubSeq(Rbuf, at, Len(Rbuf)) /\ at' = 1 /\ fn' \in {"held", "other"}
      BY <2>3 DEF Held, Flush, Give
    <3>2. at \in 1..Len(Rbuf)
      BY <1>2, <2>3 DEF Held
    <3> DEFINE n == at - 1
    <3>3. n \in 0..Len(Rbuf) /\ n + 1 = at
      BY <1>2, <3>2
    <3> HIDE DEF n
    <3>4. Rbuf' \in Seq(Bytes)
      BY <1>2, <3>1, <3>3, Halves
    <3>5. 1 \in 1..(Len(Rbuf') + 1)
      BY <3>4
    <3>6. TypeOK'
      <4>1. TextOK'
        BY <1>1, <2>1, <2>2, <3>1, <3>4, <3>5 DEF TextOK, Events, Replies, socket, conn, telnet,
            flags
      <4>2. StateOK'
        BY <1>1, <2>1, <2>2, <3>1, <3>4, <3>5 DEF StateOK, socket, conn, telnet, flags, Sites
      <4>3. PlaceOK'
        BY <1>1, <2>1, <2>2, <3>1, <3>4, <3>5 DEF PlaceOK, socket, conn, telnet, flags, Same
      <4> QED BY <4>1, <4>2, <4>3, TypeParts
    <3>7. Positions'
      BY <1>1, <2>1, <3>1 DEF Positions, ScanFns
    <3> QED BY <3>6, <3>7 DEF Typed
  <2>4. CASE Emptied
    <3>1. UNCHANGED <<Rbuf, at>> /\ at > Len(Rbuf) /\ fn' \in {"flush", "done"}
      BY <2>4 DEF Emptied, Flush, Give, scan
    <3>2. TypeOK'
      <4>1. TextOK'
        BY <1>1, <2>1, <2>2, <3>1 DEF TextOK, Events, Replies, socket, conn, telnet, flags
      <4>2. StateOK'
        BY <1>1, <2>1, <2>2, <3>1 DEF StateOK, socket, conn, telnet, flags, Sites
      <4>3. PlaceOK'
        BY <1>1, <2>1, <2>2, <3>1 DEF PlaceOK, Same, socket, conn, telnet, flags
      <4> QED BY <4>1, <4>2, <4>3, TypeParts
    <3>3. Same /\ at = Len(Rbuf) + 1 /\ saved # 0
      BY <1>1, <1>2, <2>1, <3>1 DEF TypeOK, Positions, ScanFns
    <3>4. Positions'
      BY <2>1, <3>1, <3>3 DEF Positions, ScanFns, Same
    <3> QED BY <3>2, <3>4 DEF Typed
  <2> QED BY <1>13, <2>3, <2>4
<1>14. CASE Done
  <2>1. /\ UNCHANGED <<socket, conn, Rtelnetbuf, telnet, flags, saved, eaten, given, replies>>
        /\ at' = 1 /\ fn' = "other" /\ Rbuf' \in {Rbuf, <<>>} /\ Rinbuf' \in {Rinbuf, FALSE}
    BY <1>14 DEF Done
  <2>2. Rbuf' \in Seq(Bytes) /\ 1 \in 1..(Len(Rbuf') + 1)
    <3>1. Rbuf' \in Seq(Bytes)
      BY <1>0, <1>2, <2>1
    <3> QED BY <3>1
  <2>3. TypeOK'
    <3>1. TextOK'
      BY <1>1, <2>1, <2>2 DEF TextOK, Events, Replies, socket, conn, telnet, flags
    <3>2. StateOK'
      BY <1>1, <2>1, <2>2 DEF StateOK, socket, conn, telnet, flags, Sites
    <3>3. PlaceOK'
      BY <1>1, <2>1, <2>2 DEF PlaceOK, socket, conn, telnet, flags, Same
    <3> QED BY <3>1, <3>2, <3>3, TypeParts
  <2>4. Positions'
    BY <1>1, <2>1 DEF Positions, ScanFns
  <2> QED BY <2>3, <2>4 DEF Typed
<1>15. CASE SetFlags
  <2>1. TypeOK'
    <3>1. TextOK'
      BY <1>1, <1>15 DEF TextOK, Events, Replies, SetFlags, socket, conn, buffers, telnet, scan
    <3>2. StateOK'
      BY <1>1, <1>15 DEF StateOK, SetFlags, socket, conn, buffers, telnet, scan
    <3>3. PlaceOK'
      BY <1>1, <1>15 DEF PlaceOK, SetFlags, Same, socket, conn, buffers, telnet, scan
    <3> QED BY <3>1, <3>2, <3>3, TypeParts
  <2>2. Positions'
    BY <1>1, <1>15 DEF SetFlags, Positions, Same, conn, buffers, scan, ScanFns
  <2> QED BY <2>1, <2>2 DEF Typed
<1>16. CASE Disconnect
  <2>1. /\ UNCHANGED <<socket, conns, buffers, telnet, flags, Rinbuf, fn, scan, eaten, given, replies>>
        /\ rid' = 0 /\ rid # 0 /\ fn # "char"
    BY <1>16 DEF Disconnect, Running, Sites
  <2>2. at \in 1..(Len(Rbuf) + 1) \/ saved # 0
    BY <1>1, <1>2 DEF Positions
  <2>3. TypeOK'
    <3>1. TextOK'
      BY <1>1, <2>1, <2>2 DEF TextOK, Events, Replies, socket, buffers, telnet, flags, scan
    <3>2. StateOK'
      BY <1>1, <2>1, <2>2 DEF StateOK, socket, buffers, telnet, flags, scan
    <3>3. PlaceOK'
      BY <1>1, <2>1, <2>2 DEF PlaceOK, Same, socket, buffers, telnet, flags, scan
    <3> QED BY <3>1, <3>2, <3>3, TypeParts
  <2>4. Positions'
    BY <1>1, <2>1 DEF Positions, Same, buffers, scan, ScanFns
  <2> QED BY <2>3, <2>4 DEF Typed
<1>17. CASE Connect
  <2>1. /\ fn # "char" /\ UNCHANGED <<fn, saved, at, words>> /\ rid' = conns + 1 /\ conns' = conns + 1
        /\ Rbuf' = <<>>
    BY <1>17 DEF Connect, Running, Sites, scan
  <2>2. rid' \in 0..conns' /\ saved \in 0..conns' /\ saved # rid' /\ conns' \in Nat
    BY <1>1, <1>2, <2>1 DEF TypeOK
  <2>3. /\ wire' = <<>> /\ sent' = <<>> /\ Rtelnetbuf' = <<>> /\ given' = <<>>
        /\ eaten' = <<>> /\ replies' = <<>>
        /\ Riac' = FALSE /\ Rintent' = "none" /\ Recho' = TRUE /\ Reor' \in BOOLEAN
        /\ Rraw' = FALSE /\ wanted' = FALSE /\ Rinbuf' \in BOOLEAN
    BY <1>17 DEF Connect
  <2>5. /\ eaten' \in Seq([byte : STRING, kept : BOOLEAN])
        /\ replies' \in Seq([verb : Verbs, opt : STRING])
    BY <2>3, EmptySeq
  <2>6. TypeOK'
    <3>1. TextOK'
      BY <1>0, <1>1, <2>1, <2>2, <2>3, <2>5 DEF TextOK, Events, Replies
    <3>2. StateOK'
      BY <1>0, <1>1, <2>1, <2>2, <2>3, <2>5 DEF StateOK
    <3>3. PlaceOK'
      BY <1>0, <1>1, <2>1, <2>2, <2>3, <2>5 DEF PlaceOK, Same
    <3> QED BY <3>1, <3>2, <3>3, TypeParts
  <2>4. Positions'
    BY <1>1, <2>1, <2>2 DEF Positions, Same, ScanFns
  <2> QED BY <2>4, <2>6 DEF Typed
<1>18. CASE LineEnd \/ LinesEnd \/ PromptEnd \/ DisconnectEnd \/ FlushEnd \/ OtherEnd
  <2>1. /\ UNCHANGED <<socket, conn, Rbuf, flags, Rinbuf, scan, eaten, replies>>
        /\ UNCHANGED <<Rintent, Recho, Reor>>
        /\ Riac' \in {Riac, FALSE} /\ Rtelnetbuf' \in {Rtelnetbuf, <<>>, AfterNL(Rtelnetbuf)}
        /\ given' \in {given, given \o AfterNL(Rtelnetbuf)}
    BY <1>18 DEF LineEnd, LinesEnd, PromptEnd, DisconnectEnd, FlushEnd, OtherEnd, Give,
       telnet, buffers
  <2>2. Rtelnetbuf' \in Seq(Bytes) /\ given' \in Seq(Bytes)
    BY <1>0, <1>2, <1>3, <2>1
  <2>3. /\ fn' \in {"char", "cycle", "prompt", "ready", "done", "other", "select"}
        /\ fn' = "char" => Same
        /\ fn' \in ScanFns => fn \in ScanFns \/ fn' = "other"
        /\ fn' \in {"flush", "done"} => fn = "flush"
    BY <1>18 DEF LineEnd, LinesEnd, PromptEnd, DisconnectEnd, FlushEnd, OtherEnd, Give, ScanFns
  <2>4. TypeOK'
    <3>1. TextOK'
      BY <1>1, <2>1, <2>2, <2>3 DEF TextOK, Events, Replies, socket, conn, flags, scan
    <3>2. StateOK'
      BY <1>1, <2>1, <2>2, <2>3 DEF StateOK, socket, conn, flags, scan, Sites
    <3>3. PlaceOK'
      BY <1>1, <2>1, <2>2, <2>3 DEF PlaceOK, Same, socket, conn, flags, scan
    <3> QED BY <3>1, <3>2, <3>3, TypeParts
  <2>5. Positions'
    BY <1>1, <2>1, <2>3 DEF Positions, Same, conn, scan, ScanFns
  <2> QED BY <2>4, <2>5 DEF Typed
<1>19. CASE UNCHANGED vars
  BY <1>1, <1>19 DEF vars, Typed, TypeOK, Positions, Same
<1> QED BY <1>4, <1>5, <1>6, <1>7, <1>9, <1>10, <1>11, <1>12, <1>13, <1>14, <1>15, <1>16,
           <1>17, <1>18, <1>19 DEF Next, MainLoop

THEOREM TypesKept == Spec => []TypeOK
<1>1. Typed => TypeOK
  BY DEF Typed
<1> QED BY <1>1, InitTyped, NextTyped, PTL DEF Spec

-----------------------------------------------------------------------------
(* Every byte is processed once and in order.                              *)

\* What was processed.
Processed == [i \in DOMAIN eaten |-> eaten[i].byte]

\* What NothingLost says, for the induction.
Whole == rid # 0 => (Processed \o Rest) \o wire = sent

\* The rest of the buffer starts with the byte at which the scan is.
LEMMA RestFed ==
  ASSUME Typed, Feed
  PROVE  /\ Rest = <<Byte>> \o SubSeq(Rbuf, at + 1, Len(Rbuf))
         /\ SubSeq(Rbuf, at + 1, Len(Rbuf)) \in Byteseq
         /\ at = Len(Rbuf) => SubSeq(Rbuf, at + 1, Len(Rbuf)) = <<>>
<1>1. /\ Rbuf \in Seq(Bytes) /\ at \in 1..Len(Rbuf) /\ Same /\ fn = "char"
  BY FeedTypes DEF Byteseq, Feed
<1>2. Rest = SubSeq(Rbuf, at, Len(Rbuf))
  BY <1>1 DEF Rest, Scanning
<1> DEFINE l == Len(Rbuf)
           b == Rbuf[at]
<1>3. at \in 1..Len(Rbuf) /\ l \in at..Len(Rbuf) /\ at \in 0..Len(Rbuf)
  BY <1>1
<1> HIDE DEF l
<1>4. SubSeq(Rbuf, at, l) = <<b>> \o SubSeq(Rbuf, at + 1, l)
  BY <1>1, <1>3, SubSeqRecursiveFirst
<1>5. SubSeq(Rbuf, at + 1, Len(Rbuf)) \in Seq(Bytes) /\ Len(SubSeq(Rbuf, at + 1, Len(Rbuf))) = Len(Rbuf) - at
  BY <1>1, <1>3, Halves
<1>6. at = Len(Rbuf) => SubSeq(Rbuf, at + 1, Len(Rbuf)) = <<>>
  BY <1>1, <1>5
<1> QED BY <1>2, <1>4, <1>5, <1>6 DEF l, Byte, Byteseq

\* What a step does to the bytes of a connection that is there after it.
LEMMA RestSteps ==
  ASSUME Typed, [Next]_vars
  PROVE  \/ rid' = 0
         \/ Rest' = Rest /\ UNCHANGED <<rid, wire, sent, eaten, Rinbuf>>
         \/ \E w \in Words :
              /\ wire' = wire \o w /\ sent' = sent \o w
              /\ Rest' = Rest /\ UNCHANGED <<rid, eaten, Rinbuf>>
         \/ \E n \in DOMAIN wire :
              /\ Rest' = Rest \o UpToNul(SubSeq(wire, 1, n))
              /\ wire' = SubSeq(wire, n + 1, Len(wire))
              /\ Rinbuf' /\ UNCHANGED <<rid, sent, eaten>>
         \/ /\ Feed /\ UNCHANGED <<rid, wire, sent>>
            /\ Rest' = SubSeq(Rbuf, at + 1, Len(Rbuf))
         \/ Rest = <<>> /\ Rest' = <<>> /\ UNCHANGED <<rid, wire, sent, eaten>>
         \/ Rest' = <<>> /\ wire' = <<>> /\ sent' = <<>> /\ eaten' = <<>>
<1>1. TypeOK /\ Positions /\ Rbuf \in Seq(Bytes)
  BY DEF Typed, TypeOK, Byteseq
<1>2. CASE \E w \in Words : PeerSends(w)
  BY <1>2 DEF PeerSends, Rest, Scanning, Same, conn, buffers, scan
<1>3. CASE \E n \in DOMAIN wire : ReceiveInput(n)
  BY <1>3 DEF ReceiveInput, Rest, Scanning, Same, conn, scan
<1>4. CASE Cycle
  <2>1. Rest = Rbuf /\ UNCHANGED <<rid, wire, sent, eaten, Rinbuf, Rbuf>>
    BY <1>4 DEF Cycle, Rest, Scanning, socket, conn, buffers
  <2>2. CASE rid # 0
    <3>1. Rest' = SubSeq(Rbuf, 1, Len(Rbuf))
      BY <1>4, <2>1, <2>2 DEF Cycle, Rest, Scanning, Same
    <3>2. Rest' = Rest
      BY <1>1, <2>1, <3>1, SubSeqFull
    <3> QED BY <2>1, <3>2
  <2> QED BY <2>1, <2>2
<1>5. CASE Closed \/ OtherInput \/ Timer \/ Ready \/ Break
  BY <1>5 DEF Closed, OtherInput, Timer, Ready, Break, Rest, Scanning, Same, socket, conn,
     buffers, scan
<1>6. CASE Text \/ Iac \/ Verb \/ Prompt \/ OtherCommand \/ Option
  <2>1. Feed /\ (rid' = 0 \/ (rid' = rid /\ fn' \in {"char", "line", "lines", "prompt"}))
    BY <1>6 DEF Text, Iac, Verb, Prompt, OtherCommand, Option, Give, Feed
  <2>2. Same /\ UNCHANGED <<wire, sent, Rbuf, saved>> /\ at' = at + 1
    BY <2>1, FeedTypes DEF Feed, socket
  <2> QED BY <2>1, <2>2 DEF Rest, Scanning, Same
<1>7. CASE Held
  <2>1. /\ fn = "char" /\ Same /\ fn' \in {"held", "other"} /\ UNCHANGED Rinbuf
        /\ Rbuf' = SubSeq(Rbuf, at, Len(Rbuf))
    BY <1>1, <1>7 DEF Held, Flush, Give, Positions
  <2> QED BY <1>7, <2>1 DEF Held, Rest, Scanning, socket, conn
<1>8. CASE Emptied
  <2>1. fn = "char" /\ Same /\ fn' \in {"flush", "done"} /\ UNCHANGED Rinbuf
    BY <1>1, <1>8 DEF Emptied, Flush, Give, Positions
  <2> QED BY <1>8, <2>1 DEF Emptied, Rest, Scanning, Same, socket, conn, scan
<1>9. CASE Done
  <2>1. UNCHANGED <<rid, saved, wire, sent, eaten>> /\ fn = "done" /\ fn' = "other"
    BY <1>9 DEF Done, socket, conn
  <2>2. CASE rid # 0
    <3>1. Rest' = <<>>
      BY <1>9, <2>1, <2>2 DEF Done, Rest, Scanning
    <3>2. CASE Same
      <4>1. Rest = SubSeq(Rbuf, at, Len(Rbuf)) /\ at = Len(Rbuf) + 1 /\ Len(Rbuf) \in Nat
        BY <1>1, <2>1, <3>2 DEF Rest, Scanning, Positions
      <4>2. SubSeq(Rbuf, at, Len(Rbuf)) = <<>>
        BY <1>1, <4>1, SubSeqEmpty
      <4> QED BY <2>1, <3>1, <4>1, <4>2
    <3>3. CASE ~Same
      BY <1>1, <2>1, <2>2, <3>1, <3>3 DEF Rest, Scanning, Positions
    <3> QED BY <3>2, <3>3
  <2> QED BY <2>1, <2>2
<1>10. CASE SetFlags \/ Disconnect
  BY <1>10 DEF SetFlags, Disconnect, Rest, Scanning, Same, socket, conn, buffers, scan
<1>11. CASE Connect
  <2>1. rid' # saved' /\ Rbuf' = <<>>
    BY <1>1, <1>11 DEF Connect, TypeOK, scan
  <2> QED BY <1>11, <2>1 DEF Connect, Rest, Scanning, Same
<1>12. CASE LineEnd \/ LinesEnd \/ PromptEnd \/ DisconnectEnd \/ FlushEnd \/ OtherEnd
  <2>1. /\ UNCHANGED <<rid, wire, sent, eaten, Rinbuf, Rbuf, at, saved>>
        /\ (fn \in ScanFns /\ Same) <=> (fn' \in ScanFns /\ Same)
    BY <1>12 DEF LineEnd, LinesEnd, PromptEnd, DisconnectEnd, FlushEnd, OtherEnd, Give,
       socket, conn, scan, buffers, ScanFns
  <2> QED BY <2>1 DEF Rest, Scanning, Same, ScanFns
<1>13. CASE UNCHANGED vars
  BY <1>13 DEF vars, Rest, Scanning, Same
<1> QED BY <1>2, <1>3, <1>4, <1>5, <1>6, <1>7, <1>8, <1>9, <1>10, <1>11, <1>12, <1>13
        DEF Next, MainLoop

\* A sequence of elements of a set is one of elements of a larger set.
LEMMA SeqOfMore ==
  ASSUME NEW S, NEW T, S \subseteq T, NEW s \in Seq(S)
  PROVE  s \in Seq(T)
<1>1. Len(s) \in Nat /\ s = [i \in 1..Len(s) |-> s[i]] /\ \A i \in 1..Len(s) : s[i] \in T
  OBVIOUS
<1> DEFINE n == Len(s)
<1> HIDE DEF n
<1>2. [i \in 1..n |-> s[i]] \in Seq(T)
  BY <1>1 DEF n
<1> QED BY <1>1, <1>2 DEF n

\* The bytes of a connection are words of the alphabet.
LEMMA Parts ==
  ASSUME Typed
  PROVE  /\ Processed \in Seq(STRING) /\ Rest \in Seq(STRING)
         /\ wire \in Seq(STRING) /\ sent \in Seq(STRING)
         /\ wire \in Seq(Bytes) /\ Bytes \subseteq STRING
         /\ \A w \in Words : w \in Seq(STRING)
<1>1. Bytes \subseteq STRING
  BY RemoteAssumption DEF Bytes
<1>2. /\ wire \in Seq(Bytes) /\ sent \in Seq(Bytes) /\ Rbuf \in Seq(Bytes)
      /\ eaten \in Seq([byte : STRING, kept : BOOLEAN])
  BY DEF Typed, TypeOK, Byteseq
<1>3. \A s \in Seq(Bytes) : s \in Seq(STRING)
  BY <1>1, SeqOfMore
<1>4. Processed \in Seq(STRING)
  <2> DEFINE n == Len(eaten)
  <2> DEFINE E == [byte : STRING, kept : BOOLEAN]
  <2>3. eaten \in Seq(E) /\ \A x \in E : x.byte \in STRING
    BY <1>2
  <2> HIDE DEF E
  <2>1. n \in Nat /\ DOMAIN eaten = 1..n /\ \A i \in 1..n : eaten[i].byte \in STRING
    BY <2>3
  <2> HIDE DEF n
  <2>2. [i \in 1..n |-> eaten[i].byte] \in Seq(STRING)
    BY <2>1
  <2> QED BY <2>1, <2>2 DEF Processed
<1>5. Rest \in Seq(Bytes)
  <2>1. CASE ~Scanning
    BY <1>2, <2>1 DEF Rest
  <2>2. CASE Scanning
    <3> DEFINE n == at - 1
    <3>1. at \in 1..(Len(Rbuf) + 1) /\ Len(Rbuf) \in Nat
      BY <1>2, <2>2 DEF Typed, TypeOK, Scanning
    <3>2. n \in 0..Len(Rbuf) /\ n + 1 = at
      BY <3>1
    <3> HIDE DEF n
    <3>3. SubSeq(Rbuf, n + 1, Len(Rbuf)) \in Seq(Bytes)
      BY <1>2, <3>2, Halves
    <3> QED BY <2>2, <3>2, <3>3 DEF Rest
  <2> QED BY <2>1, <2>2
<1> QED BY <1>1, <1>2, <1>3, <1>4, <1>5, RemoteAssumption

\* Concatenations group as one likes.
LEMMA Groups ==
  ASSUME NEW S
  PROVE  \A x, y, z \in Seq(S) : (x \o y) \o z = x \o (y \o z)
BY ConcatAssociative

\* Moving the border between two of four parts.
LEMMA MovedLeft ==
  ASSUME NEW S
  PROVE  \A p, a, b, c \in Seq(S) : ((p \o a) \o b) \o c = (p \o (a \o b)) \o c
<1>1. \A x, y, z \in Seq(S) : (x \o y) \o z = x \o (y \o z)
  BY Groups
<1> QED BY <1>1, Zenon

LEMMA NextWhole ==
  ASSUME "NUL" \notin Bytes, Typed, Whole, [Next]_vars
  PROVE  Whole'
<1> SUFFICES ASSUME rid' # 0
             PROVE  (Processed' \o Rest') \o wire' = sent'
  BY DEF Whole
<1> DEFINE p == Processed
           r == Rest
<1>1. /\ p \in Seq(STRING) /\ r \in Seq(STRING) /\ wire \in Seq(STRING)
      /\ wire \in Seq(Bytes) /\ Bytes \subseteq STRING
  BY Parts
<1>2. rid' = rid => (p \o r) \o wire = sent
  BY DEF Whole
<1>0. eaten' = eaten => Processed' = p
  BY DEF Processed
<1>3. CASE Rest' = Rest /\ UNCHANGED <<rid, wire, sent, eaten, Rinbuf>>
  BY <1>0, <1>2, <1>3
<1>4. CASE \E w \in Words :
              /\ wire' = wire \o w /\ sent' = sent \o w
              /\ Rest' = Rest /\ UNCHANGED <<rid, eaten, Rinbuf>>
  <2>1. PICK w \in Words : /\ wire' = wire \o w /\ sent' = sent \o w
                           /\ Rest' = r /\ UNCHANGED <<rid, eaten, Rinbuf>>
    BY <1>4
  <2>2. w \in Seq(STRING) /\ Processed' = p
    BY <1>0, <2>1, Parts
  <2>3. (p \o r) \o wire = sent
    BY <1>2, <2>1
  <2> HIDE DEF p, r
  <2>4. (p \o r) \o (wire \o w) = ((p \o r) \o wire) \o w
    <3>1. \A x, y, z \in Seq(STRING) : (x \o y) \o z = x \o (y \o z)
      BY ONLY Groups
    <3>2. p \o r \in Seq(STRING)
      BY <1>1, ConcatProperties
    <3> QED BY <1>1, <2>2, <3>1, <3>2, Zenon
  <2> QED BY <2>1, <2>2, <2>3, <2>4
<1>5. CASE \E n \in DOMAIN wire :
              /\ Rest' = Rest \o UpToNul(SubSeq(wire, 1, n))
              /\ wire' = SubSeq(wire, n + 1, Len(wire))
              /\ Rinbuf' /\ UNCHANGED <<rid, sent, eaten>>
  <2>1. PICK n \in DOMAIN wire :
              /\ Rest' = r \o UpToNul(SubSeq(wire, 1, n))
              /\ wire' = SubSeq(wire, n + 1, Len(wire))
              /\ Rinbuf' /\ UNCHANGED <<rid, sent, eaten>>
    BY <1>5
  <2> DEFINE a == SubSeq(wire, 1, n)
             b == SubSeq(wire, n + 1, Len(wire))
  <2>2. n \in 0..Len(wire)
    BY <1>1
  <2>3. a \in Seq(Bytes) /\ b \in Seq(Bytes) /\ a \o b = wire
    BY <1>1, <2>2, Halves
  <2> HIDE DEF a, b, p, r
  <2>4. UpToNul(a) = a
    BY <2>3, NoNul
  <2>5. a \in Seq(STRING) /\ b \in Seq(STRING)
    BY <1>1, <2>3, SeqOfMore
  <2>6. (p \o r) \o (a \o b) = (p \o (r \o a)) \o b
    <3>1. ((p \o r) \o a) \o b = (p \o r) \o (a \o b)
      <4>1. \A x, y, z \in Seq(STRING) : (x \o y) \o z = x \o (y \o z)
        BY ONLY Groups
      <4>2. p \o r \in Seq(STRING)
        BY <1>1, ConcatProperties
      <4> QED BY <2>5, <4>1, <4>2, Zenon
    <3>2. ((p \o r) \o a) \o b = (p \o (r \o a)) \o b
      BY <1>1, <2>5, MovedLeft, SMTT(60)
    <3> QED BY <3>1, <3>2
  <2>7. Rest' = r \o a /\ wire' = b /\ Processed' = p /\ sent' = sent
    BY <1>0, <2>1, <2>4 DEF a, b
  <2>8. (p \o r) \o wire = sent
    BY <1>2, <2>1
  <2> QED BY <2>3, <2>6, <2>7, <2>8
<1>6. CASE Feed /\ UNCHANGED <<rid, wire, sent>> /\ Rest' = SubSeq(Rbuf, at + 1, Len(Rbuf))
  <2> DEFINE b == Byte
             rest == SubSeq(Rbuf, at + 1, Len(Rbuf))
  <2>1. /\ r = <<b>> \o rest /\ rest \in Seq(STRING) /\ b \in STRING
        /\ eaten' = Append(eaten, [byte |-> b, kept |-> b # "CR" \/ Rraw])
        /\ eaten \in Seq([byte : STRING, kept : BOOLEAN]) /\ Len(eaten) \in Nat
    <3>1. r = <<b>> \o rest /\ rest \in Seq(Bytes) /\ b \in STRING
      BY <1>6, RestFed, FeedTypes DEF Byteseq
    <3>2. eaten' = Append(eaten, [byte |-> b, kept |-> b # "CR" \/ Rraw])
      BY <1>6 DEF Feed
    <3>3. eaten \in Seq([byte : STRING, kept : BOOLEAN]) /\ Len(eaten) \in Nat
      BY DEF Typed, TypeOK
    <3>4. rest \in Seq(STRING)
      <4> HIDE DEF rest
      <4> QED BY <1>1, <3>1
    <3> QED BY <3>1, <3>2, <3>3, <3>4
  <2>2. Rest' = rest /\ wire' = wire /\ sent' = sent /\ (p \o r) \o wire = sent
    BY <1>2, <1>6
  <2> HIDE DEF b, rest
  <2>3. Processed' = p \o <<b>>
    <3> DEFINE e == [byte |-> b, kept |-> b # "CR" \/ Rraw]
    <3>1. e.byte = b /\ eaten' = Append(eaten, e)
      BY <2>1
    <3> HIDE DEF e
    <3>2. /\ DOMAIN eaten' = 1..(Len(eaten) + 1) /\ DOMAIN eaten = 1..Len(eaten)
          /\ \A i \in 1..Len(eaten) : eaten'[i] = eaten[i]
          /\ eaten'[Len(eaten) + 1] = e
      BY <2>1, <3>1
    <3> DEFINE n == Len(eaten)
               q == [i \in 1..(n + 1) |-> eaten'[i].byte]
    <3>3. Processed' = q
      BY <3>2 DEF Processed
    <3>4. n \in Nat /\ p = [i \in 1..n |-> eaten[i].byte]
      BY <2>1, <3>2 DEF Processed
    <3>5. /\ Len(p) = n /\ \A i \in 1..n : p[i] = eaten[i].byte
      <4> HIDE DEF n, p
      <4> QED BY <3>4
    <3>6. \A i \in 1..n : eaten'[i].byte = p[i] /\ p[i] \in STRING
      <4>1. \A i \in 1..n : eaten'[i].byte = p[i]
        BY <3>2, <3>5
      <4>2. \A i \in 1..n : p[i] \in STRING
        <5> HIDE DEF p
        <5> QED BY <1>1, <3>5
      <4> QED BY <4>1, <4>2
    <3>7. eaten'[n + 1].byte = b
      BY <3>1, <3>2
    <3> DEFINE f == eaten'
    <3>8. /\ \A i \in 1..n : f[i].byte = p[i] /\ p[i] \in STRING
          /\ f[n + 1].byte = b /\ q = [i \in 1..(n + 1) |-> f[i].byte]
      BY <3>6, <3>7
    <3> HIDE DEF p, n, f, q
    <3>9. q = Append(p, b)
      <4>1. \A i \in 1..(n + 1) : q[i] = f[i].byte /\ f[i].byte \in STRING
        <5>1. \A i \in 1..(n + 1) : i = n + 1 \/ i \in 1..n
          BY <3>4
        <5>2. f[n + 1].byte \in STRING /\ \A i \in 1..n : f[i].byte \in STRING
          BY <2>1, <3>8
        <5> QED BY <3>8, <5>1, <5>2
      <4>2. q \in Seq(STRING) /\ Len(q) = n + 1
        BY <3>4, <3>8, <4>1
      <4>3. /\ Append(p, b) \in Seq(STRING) /\ Len(Append(p, b)) = n + 1
            /\ \A i \in 1..n : Append(p, b)[i] = p[i]
            /\ Append(p, b)[n + 1] = b
        BY <1>1, <2>1, <3>5, AppendProperties
      <4>4. \A i \in 1..(n + 1) : q[i] = Append(p, b)[i]
        <5> TAKE i \in 1..(n + 1)
        <5>1. i \in 1..n \/ i = n + 1
          BY <3>4
        <5> QED BY <3>8, <4>1, <4>3, <5>1
      <4> DEFINE t == Append(p, b)
      <4>5. t \in Seq(STRING) /\ Len(q) = Len(t) /\ \A i \in 1..Len(q) : q[i] = t[i]
        BY <4>2, <4>3, <4>4
      <4> HIDE DEF t
      <4>6. q = t
        BY <4>2, <4>5, SeqEqual
      <4> QED BY <4>6 DEF t
    <3>10. Append(p, b) = p \o <<b>>
      BY <1>1, <2>1, AppendIsConcat
    <3> QED BY <3>3, <3>9, <3>10
  <2> HIDE DEF p, r
  <2>4. <<b>> \in Seq(STRING)
    BY <2>1
  <2>5. (p \o (<<b>> \o rest)) \o wire = ((p \o <<b>>) \o rest) \o wire
    BY <1>1, <2>1, <2>4, MovedLeft, SMTT(60)
  <2> QED BY <2>1, <2>2, <2>3, <2>5
<1>7. CASE Rest = <<>> /\ Rest' = <<>> /\ UNCHANGED <<rid, wire, sent, eaten>>
  BY <1>0, <1>2, <1>7
<1>8. CASE Rest' = <<>> /\ wire' = <<>> /\ sent' = <<>> /\ eaten' = <<>>
  <2>1. Processed' = <<>>
    BY <1>8 DEF Processed
  <2>2. (<<>> \o <<>>) \o <<>> = <<>>
    OBVIOUS
  <2> QED BY <1>8, <2>1, <2>2
<1> QED BY <1>3, <1>4, <1>5, <1>6, <1>7, <1>8, RestSteps

\* Every byte that the peer sent is processed once and in order, whatever the
\* words, if there is no null byte in them: receive_input() loses the rest of
\* a block after one.
THEOREM BytesKept ==
  ASSUME "NUL" \notin Bytes
  PROVE  Spec => []NothingLost
<1>1. Init => Whole
  <2> SUFFICES ASSUME Init PROVE Whole
    OBVIOUS
  <2>1. Rbuf = <<>> /\ wire = <<>> /\ sent = <<>> /\ eaten = <<>> /\ fn = "select"
    BY DEF Init
  <2>2. Processed = <<>> /\ Rest = <<>>
    BY <2>1 DEF Processed, Rest, Scanning
  <2>3. (<<>> \o <<>>) \o <<>> = <<>>
    OBVIOUS
  <2> QED BY <2>1, <2>2, <2>3 DEF Whole
<1>2. Typed /\ Whole => NothingLost
  BY DEF Typed, Whole, NothingLost, Processed
<1>3. Typed /\ Whole /\ [Next]_vars => (Typed /\ Whole)'
  BY NextTyped, NextWhole
<1> QED BY <1>1, <1>2, <1>3, InitTyped, PTL DEF Spec

-----------------------------------------------------------------------------
(* What waits is announced.                                                *)

\* Rinbuf is right all the time, and not only when a program can ask.
Told == rid # 0 /\ Rest # <<>> => Rinbuf

LEMMA NextTold ==
  ASSUME Typed, Told, [Next]_vars
  PROVE  Told'
<1>1. CASE Feed /\ Rest' = SubSeq(Rbuf, at + 1, Len(Rbuf))
  <2>1. at \in 1..Len(Rbuf) /\ Len(Rbuf) \in Nat
    BY <1>1, FeedTypes DEF Typed, TypeOK, Byteseq
  <2>2. Rest' # <<>> => at < Len(Rbuf)
    BY <1>1, <2>1, RestFed
  <2> QED BY <1>1, <2>2 DEF Feed, Told
<1> QED BY <1>1, RestSteps DEF Told

\* A program that asks whether input is waiting hears of all text that was
\* read and not processed.
THEOREM WaitingKnown == Spec => []Announced
<1>1. Init => Told
  BY DEF Init, Told, Rest, Scanning
<1>2. Told => Announced
  BY DEF Told, Announced
<1>3. Typed /\ Told /\ [Next]_vars => (Typed /\ Told)'
  BY NextTyped, NextTold
<1> QED BY <1>1, <1>2, <1>3, InitTyped, PTL DEF Spec

-----------------------------------------------------------------------------
(* DO and DONT alternate.                                                  *)

Alternate == \A o \in {"ECHO", "EOR"} : \A i, j \in Said(o) :
  i < j /\ replies[i].verb = replies[j].verb => \E k \in Said(o) : i < k /\ k < j

\* The state of an option says what was said of it last: what would change it
\* is not what was said.  Reor may be on or off at first, when nothing was said.
Remembered ==
  rid # 0 =>
    /\ ~Recho <=> LastSaid("ECHO", "DO")
    /\ Recho => ~LastSaid("ECHO", "DO")
    /\ ~Recho => ~LastSaid("ECHO", "DONT")
    /\ Reor => ~LastSaid("EOR", "DONT")
    /\ ~Reor => ~LastSaid("EOR", "DO")

\* One answer more.
LEMMA Answered ==
  ASSUME Typed, NEW v \in {"WONT", "DO", "DONT"}, NEW p \in STRING,
         replies' = replies \o <<[verb |-> v, opt |-> p]>>
  PROVE  LET n == Len(replies) + 1
         IN /\ n \in Nat
            /\ \A o \in {"ECHO", "EOR"} :
                 /\ Said(o) \subseteq 1..Len(replies)
                 /\ Said(o)' = IF o = p /\ v # "WONT" THEN Said(o) \cup {n} ELSE Said(o)
                 /\ \A i \in Said(o) : replies'[i] = replies[i] /\ i < n
            /\ replies'[n].verb = v /\ replies'[n].opt = p
<1> DEFINE n == Len(replies) + 1
           E == [verb : Verbs, opt : STRING]
           e == [verb |-> v, opt |-> p]
<1>1. replies \in Seq(E) /\ e \in E /\ e.verb = v /\ e.opt = p
  BY DEF Typed, TypeOK, Verbs
<1>2. replies' = replies \o <<e>>
  OBVIOUS
<1> HIDE DEF E, e
<1>3. /\ n \in Nat /\ DOMAIN replies = 1..Len(replies) /\ Len(replies) \in Nat
      /\ DOMAIN replies' = 1..n
      /\ \A i \in 1..Len(replies) : replies'[i] = replies[i]
      /\ replies'[n] = e
  BY <1>1, <1>2
<1>4. /\ replies'[n].verb = v /\ replies'[n].opt = p
  BY <1>1, <1>3
<1>5. ASSUME NEW o \in {"ECHO", "EOR"}
      PROVE  /\ Said(o) \subseteq 1..Len(replies)
             /\ Said(o)' = IF o = p /\ v # "WONT" THEN Said(o) \cup {n} ELSE Said(o)
             /\ \A i \in Said(o) : replies'[i] = replies[i] /\ i < n
  <2>1. Said(o) \subseteq 1..Len(replies)
    BY <1>3 DEF Said
  <2>2. Said(o)' = {i \in 1..n : replies'[i].opt = o /\ replies'[i].verb \in {"DO", "DONT"}}
    BY <1>3 DEF Said
  <2>3. Said(o) = {i \in 1..Len(replies) : replies[i].opt = o /\ replies[i].verb \in {"DO", "DONT"}}
    BY <1>3 DEF Said
  <2>4. \A i \in 1..n : i \in Said(o)' <=> (i \in Said(o) \/ (i = n /\ o = p /\ v # "WONT"))
    <3> TAKE i \in 1..n
    <3>1. CASE i \in 1..Len(replies)
      BY <1>3, <2>2, <2>3, <3>1
    <3>2. CASE i = n
      BY <1>3, <1>4, <2>1, <2>2, <3>2
    <3> QED BY <1>3, <3>1, <3>2
  <2>5. Said(o)' \subseteq 1..n /\ Said(o) \subseteq 1..n /\ n \in 1..n
    BY <1>3, <2>1, <2>2
  <2>6. Said(o)' = IF o = p /\ v # "WONT" THEN Said(o) \cup {n} ELSE Said(o)
    <3> HIDE DEF n
    <3> QED BY <2>4, <2>5
  <2> QED BY <1>3, <2>1, <2>6
<1> QED BY <1>3, <1>4, <1>5

\* A step that adds no answer.
LEMMA NotAnswered ==
  ASSUME UNCHANGED replies
  PROVE  /\ \A o \in {"ECHO", "EOR"} : Said(o)' = Said(o)
         /\ \A o \in {"ECHO", "EOR"} : \A v \in {"DO", "DONT"} : LastSaid(o, v)' = LastSaid(o, v)
BY DEF Said, LastSaid

\* What would change the option is said, and was not said last.
LEMMA AlternateKept ==
  ASSUME Typed, Alternate, NEW v \in {"WONT", "DO", "DONT"}, NEW p \in STRING,
         replies' = replies \o <<[verb |-> v, opt |-> p]>>,
         p \in {"ECHO", "EOR"} /\ v # "WONT" => ~LastSaid(p, v)
  PROVE  /\ Alternate'
         /\ \A o \in {"ECHO", "EOR"} : \A u \in {"DO", "DONT"} :
              LastSaid(o, u)' <=> IF o = p /\ v # "WONT" THEN u = v ELSE LastSaid(o, u)
<1> DEFINE n == Len(replies) + 1
<1>1. /\ n \in Nat
      /\ \A o \in {"ECHO", "EOR"} :
           /\ Said(o) \subseteq 1..Len(replies)
           /\ Said(o)' = IF o = p /\ v # "WONT" THEN Said(o) \cup {n} ELSE Said(o)
           /\ \A i \in Said(o) : replies'[i] = replies[i] /\ i < n
      /\ replies'[n].verb = v /\ replies'[n].opt = p
  BY Answered
<1>2. Len(replies) \in Nat
  BY DEF Typed, TypeOK
<1> HIDE DEF n
<1>3. ASSUME NEW o \in {"ECHO", "EOR"}, NEW i \in Said(o)', NEW j \in Said(o)',
             i < j, replies'[i].verb = replies'[j].verb
      PROVE  \E k \in Said(o)' : i < k /\ k < j
  <2>1. \A k \in Said(o) : k \in Said(o)' /\ k < n /\ k \in Nat
    BY <1>1, <1>2
  <2>2. CASE j \in Said(o)
    <3>1. i \in Said(o)
      BY <1>1, <1>3, <2>1, <2>2
    <3>2. replies[i].verb = replies[j].verb
      BY <1>1, <1>3, <2>2, <3>1
    <3> QED BY <1>3, <2>1, <2>2, <3>1, <3>2 DEF Alternate
  <2>3. CASE j \notin Said(o)
    <3>1. j = n /\ o = p /\ v # "WONT" /\ ~LastSaid(o, v)
      BY <1>1, <1>3, <2>3
    <3>4. Said(o)' = Said(o) \cup {n} /\ i < n /\ i # n
      BY <1>1, <1>3, <3>1
    <3>5. i \in Said(o)
      BY <1>3, <3>4
    <3>6. replies'[i] = replies[i] /\ replies'[j].verb = v
      BY <1>1, <3>1, <3>5
    <3>2. i \in Said(o) /\ replies[i].verb = v
      BY <1>3, <3>5, <3>6
    <3>3. PICK k \in Said(o) : ~(k <= i)
      BY <3>1, <3>2 DEF LastSaid
    <3> QED BY <2>1, <3>1, <3>2, <3>3
  <2> QED BY <2>2, <2>3
<1>4. ASSUME NEW o \in {"ECHO", "EOR"}, NEW u \in {"DO", "DONT"}
      PROVE  LastSaid(o, u)' <=> IF o = p /\ v # "WONT" THEN u = v ELSE LastSaid(o, u)
  <2>1. LastSaid(o, u)' <=> \E i \in Said(o)' : replies'[i].verb = u /\ \A j \in Said(o)' : j <= i
    BY DEF LastSaid
  <2>2. CASE o = p /\ v # "WONT"
    <3>1. Said(o)' = Said(o) \cup {n} /\ (\A j \in Said(o) : j < n /\ j \in Nat) /\ n \in Nat
      BY <1>1, <1>2, <2>2
    <3>2. \A i \in Said(o)' : (\A j \in Said(o)' : j <= i) <=> i = n
      <4>1. n \in Said(o)' /\ \A j \in Said(o)' : j <= n
        BY <3>1
      <4>2. ASSUME NEW i \in Said(o)', \A j \in Said(o)' : j <= i PROVE i = n
        <5>1. n <= i
          BY <4>1, <4>2
        <5> QED BY <3>1, <4>2, <5>1
      <4> QED BY <4>1, <4>2
    <3> QED BY <1>1, <2>1, <2>2, <3>1, <3>2
  <2>3. CASE ~(o = p /\ v # "WONT")
    <3>1. Said(o)' = Said(o) /\ \A i \in Said(o) : replies'[i] = replies[i]
      BY <1>1, <2>3
    <3> QED BY <2>1, <2>3, <3>1 DEF LastSaid
  <2> QED BY <2>2, <2>3
<1>5. Alternate'
  BY <1>3 DEF Alternate
<1> QED BY <1>4, <1>5

LEMMA NextAgreed ==
  ASSUME Typed, Alternate, Remembered, [Next]_vars
  PROVE  Alternate' /\ Remembered'
<1>1. CASE UNCHANGED <<replies, Recho, Reor>> /\ (rid' = rid \/ rid' = 0)
  <2>1. Alternate'
    BY <1>1, NotAnswered DEF Alternate
  <2>2. Remembered'
    BY <1>1, NotAnswered DEF Remembered
  <2> QED BY <2>1, <2>2
<1>2. CASE Connect
  <2>1. replies' = <<>> /\ Recho' = TRUE
    BY <1>2 DEF Connect
  <2>2. \A o \in {"ECHO", "EOR"} : Said(o)' = {}
    BY <2>1 DEF Said
  <2> QED BY <2>1, <2>2 DEF Alternate, Remembered, LastSaid
<1>3. CASE Option
  <2> DEFINE p == Byte
             said == Answer(p)
  <2>1. /\ p \in STRING /\ rid # 0 /\ Rintent \in Verbs
        /\ Recho' = IF p = "ECHO" /\ Rintent \in {"WILL", "WONT"} THEN Rintent = "WONT" ELSE Recho
        /\ Reor' = IF p = "EOR" /\ Rintent \in {"WILL", "WONT"} THEN Rintent = "WILL" ELSE Reor
        /\ \/ rid' = rid /\ replies' = replies \o [i \in DOMAIN said |-> [verb |-> said[i], opt |-> p]]
           \/ rid' = 0 /\ UNCHANGED replies
    BY <1>3, FeedTypes DEF Option, Typed, TypeOK
  <2>0. replies \in Seq([verb : Verbs, opt : STRING]) /\ Recho \in BOOLEAN /\ Reor \in BOOLEAN
    BY DEF Typed, TypeOK
  <2>2. CASE UNCHANGED replies /\ rid' = 0
    BY <2>2, NotAnswered DEF Alternate, Remembered
  <2>3. CASE rid' = rid /\ replies' = replies \o [i \in DOMAIN said |-> [verb |-> said[i], opt |-> p]]
    <3>1. CASE said = <<>>
      <4>1. [i \in DOMAIN said |-> [verb |-> said[i], opt |-> p]] = <<>>
        BY <3>1
      <4> DEFINE r == replies
                 E == [verb : Verbs, opt : STRING]
      <4>2. replies' = replies
        <5>1. r \in Seq(E) /\ replies' = r \o <<>>
          BY <2>0, <2>3, <4>1
        <5> HIDE DEF r, E
        <5> QED BY <5>1, ConcatEmptySeq DEF r
      <4>3. /\ p = "ECHO" => (Rintent = "WILL" => ~Recho) /\ (Rintent = "WONT" => Recho)
            /\ p = "EOR" => (Rintent = "WILL" => Reor) /\ (Rintent = "WONT" => ~Reor)
        BY <3>1 DEF Answer
      <4>4. Recho' = Recho /\ Reor' = Reor
        BY <2>0, <2>1, <4>3
      <4> QED BY <1>1, <2>3, <4>2, <4>4
    <3>2. ASSUME NEW v \in {"WONT", "DO", "DONT"}, said = <<v>>
          PROVE  Alternate' /\ Remembered'
      <4>1. replies' = replies \o <<[verb |-> v, opt |-> p]>>
        <5>1. [i \in DOMAIN said |-> [verb |-> said[i], opt |-> p]] = <<[verb |-> v, opt |-> p]>>
          <6> HIDE DEF p, said
          <6> QED BY <3>2
        <5> QED BY <2>3, <5>1
      <4>2. /\ v = "DO" => Rintent = "WILL" /\ (p = "ECHO" => Recho) /\ (p = "EOR" => ~Reor)
            /\ v = "DONT" => /\ p = "ECHO" => Rintent = "WONT" /\ ~Recho
                             /\ p = "EOR" => Rintent = "WONT" /\ Reor
            /\ v = "WONT" => Rintent = "DO"
            /\ v = "DO" => p \in {"ECHO", "EOR"}
        BY <3>2 DEF Answer
      <4>3. p \in {"ECHO", "EOR"} /\ v # "WONT" => ~LastSaid(p, v)
        BY <2>1, <4>2 DEF Remembered
      <4>4. /\ Alternate'
            /\ \A o \in {"ECHO", "EOR"} : \A u \in {"DO", "DONT"} :
                 LastSaid(o, u)' <=> IF o = p /\ v # "WONT" THEN u = v ELSE LastSaid(o, u)
        <5> HIDE DEF p
        <5> QED BY <2>1, <4>1, <4>3, AlternateKept
      <4>5. Remembered'
        <5> HIDE DEF p
        <5> QED BY <2>0, <2>1, <2>3, <4>2, <4>4 DEF Remembered
      <4> QED BY <4>4, <4>5
    <3> QED BY <3>1, <3>2, AnswerIs
  <2> QED BY <2>1, <2>2, <2>3
<1>4. CASE \E w \in Words : PeerSends(w)
  BY <1>1, <1>4 DEF PeerSends, telnet, conn
<1>5. CASE \E n \in DOMAIN wire : ReceiveInput(n)
  BY <1>1, <1>5 DEF ReceiveInput, telnet, conn
<1>6. CASE Ready \/ Cycle \/ Closed \/ OtherInput \/ Timer \/ Break \/ SetFlags \/ Disconnect
  BY <1>1, <1>6 DEF Ready, Cycle, Closed, OtherInput, Timer, Break, SetFlags, Disconnect,
     telnet, conn
<1>7. CASE Text \/ Iac \/ Verb \/ Prompt \/ OtherCommand
  BY <1>1, <1>7 DEF Text, Iac, Verb, Prompt, OtherCommand, telnet
<1>8. CASE Held \/ Emptied \/ Done
  BY <1>1, <1>8 DEF Held, Emptied, Done, telnet, conn
<1>9. CASE LineEnd \/ LinesEnd \/ PromptEnd \/ DisconnectEnd \/ FlushEnd \/ OtherEnd
  BY <1>1, <1>9 DEF LineEnd, LinesEnd, PromptEnd, DisconnectEnd, FlushEnd, OtherEnd, telnet, conn
<1>10. CASE UNCHANGED vars
  BY <1>1, <1>10 DEF vars
<1> QED BY <1>2, <1>3, <1>4, <1>5, <1>6, <1>7, <1>8, <1>9, <1>10 DEF Next, MainLoop

\* The peer and vt agree on who echoes, and DO and DONT alternate in what vt
\* says of each option: no offer is answered twice, whatever the peer sends.
THEOREM AnswersAlternate == Spec => []Negotiated
<1>1. Init => Alternate /\ Remembered
  <2> SUFFICES ASSUME Init PROVE Alternate /\ Remembered
    OBVIOUS
  <2>1. replies = <<>> /\ Recho = TRUE
    BY DEF Init
  <2>2. \A o \in {"ECHO", "EOR"} : Said(o) = {}
    BY <2>1 DEF Said
  <2> QED BY <2>1, <2>2 DEF Alternate, Remembered, LastSaid
<1>2. Alternate /\ Remembered => Negotiated
  BY DEF Alternate, Remembered, Negotiated
<1>3. Typed /\ Alternate /\ Remembered /\ [Next]_vars => (Typed /\ Alternate /\ Remembered)'
  BY NextTyped, NextAgreed
<1> QED BY <1>1, <1>2, <1>3, InitTyped, PTL DEF Spec

-----------------------------------------------------------------------------
(* The text of a stream.                                                   *)

\* What Plain reads: the bytes of a stream, each with whether it is text that is
\* kept where it stands outside of a command.
Event == [byte : STRING, kept : BOOLEAN]

LEMMA EventIs ==
  ASSUME NEW s \in Events, NEW i \in 1..Len(s)
  PROVE  s[i] \in Event /\ s[i].byte \in STRING /\ s[i].kept \in BOOLEAN
<1>1. s \in Seq(Event)
  BY DEF Events, Event
<1>2. s[i] \in Event
  BY <1>1
<1> QED BY <1>2 DEF Event

\* What Plain does at a place of s, when f says what it makes of the rest.
Skips(s, i) == IF i < Len(s) /\ s[i + 1].byte \in Verbs THEN 3 ELSE 2
TextFrom(f, s, i) ==
  IF i > Len(s) THEN <<>>
  ELSE IF s[i].byte = "IAC" THEN f[i + Skips(s, i)]
  ELSE IF ~s[i].kept THEN f[i + 1]
  ELSE <<s[i].byte>> \o f[i + 1]

Parses(f, s) ==
  /\ f \in [1..(Len(s) + 3) -> Seq(STRING)]
  /\ \A i \in 1..(Len(s) + 3) : f[i] = TextFrom(f, s, i)

\* It looks at later places only.
LEMMA TextFromLater ==
  ASSUME NEW s \in Events, NEW f \in [1..(Len(s) + 3) -> Seq(STRING)],
         NEW i \in 1..(Len(s) + 3)
  PROVE  /\ TextFrom(f, s, i) \in Seq(STRING)
         /\ \A g : (\A j \in 1..(Len(s) + 3) : j > i => g[j] = f[j])
                     => TextFrom(g, s, i) = TextFrom(f, s, i)
<1>1. Len(s) \in Nat
  OBVIOUS
<1>2. CASE i > Len(s)
  <2>1. <<>> \in Seq(STRING)
    OBVIOUS
  <2> QED BY <1>2, <2>1 DEF TextFrom
<1>3. CASE i <= Len(s)
  <2>1. s[i].byte \in STRING
    <3>1. i \in 1..Len(s)
      BY <1>1, <1>3
    <3> QED BY <3>1, EventIs
  <2>2. Skips(s, i) \in {2, 3}
    BY DEF Skips
  <2>3. i + 1 \in 1..(Len(s) + 3) /\ i + Skips(s, i) \in 1..(Len(s) + 3)
        /\ i + 1 > i /\ i + Skips(s, i) > i
    BY <1>1, <1>3, <2>2
  <2>4. f[i + 1] \in Seq(STRING) /\ f[i + Skips(s, i)] \in Seq(STRING)
    BY <2>3
  <2>5. ASSUME NEW g, \A j \in 1..(Len(s) + 3) : j > i => g[j] = f[j]
        PROVE  g[i + 1] = f[i + 1] /\ g[i + Skips(s, i)] = f[i + Skips(s, i)]
    BY <2>3, <2>5
  <2>6. TextFrom(f, s, i) \in Seq(STRING)
    <3>1. <<s[i].byte>> \o f[i + 1] \in Seq(STRING)
      BY <2>1, <2>4
    <3>2. ~(i > Len(s))
      BY <1>1, <1>3
    <3> QED BY <2>4, <3>1, <3>2 DEF TextFrom
  <2>7. ASSUME NEW g, \A j \in 1..(Len(s) + 3) : j > i => g[j] = f[j]
        PROVE  TextFrom(g, s, i) = TextFrom(f, s, i)
    BY <2>5, <2>7 DEF TextFrom
  <2> QED BY <2>6, <2>7
<1> QED BY <1>1, <1>2, <1>3

\* The function exists, so that Plain is its first value.
LEMMA Parsable ==
  ASSUME NEW s \in Events
  PROVE  \E f : Parses(f, s)
<1> DEFINE n == Len(s)
           D == 1..(n + 3)
           From(f, m) == \A i \in D : i > n + 3 - m => f[i] = TextFrom(f, s, i)
           T == {m \in 0..(n + 3) : \E f \in [D -> Seq(STRING)] : From(f, m)}
<1>1. n \in Nat
  OBVIOUS
<1>2. 0 \in T
  <2>1. [i \in D |-> <<>>] \in [D -> Seq(STRING)]
    OBVIOUS
  <2>2. From([i \in D |-> <<>>], 0)
    BY <1>1
  <2>3. 0 \in 0..(n + 3)
    BY <1>1
  <2> HIDE DEF D, From
  <2> QED BY <2>1, <2>2, <2>3
<1>3. ASSUME NEW m \in 1..(n + 3), m - 1 \in T PROVE m \in T
  <2>1. PICK f \in [D -> Seq(STRING)] : From(f, m - 1)
    BY <1>3
  <2> DEFINE k == n + 4 - m
             g == [f EXCEPT ![k] = TextFrom(f, s, k)]
  <2>2. k \in D /\ k \in Nat
    BY <1>1
  <2>3. TextFrom(f, s, k) \in Seq(STRING)
    BY <2>2, TextFromLater
  <2>4. g \in [D -> Seq(STRING)] /\ g[k] = TextFrom(f, s, k) /\ \A i \in D : i # k => g[i] = f[i]
    BY <2>2, <2>3
  <2> HIDE DEF g
  <2>5. ASSUME NEW i \in D, i > n + 3 - m PROVE g[i] = TextFrom(g, s, i)
    <3>1. i >= k
      BY <1>1, <2>5
    <3>2. \A j \in D : j > i => g[j] = f[j]
      BY <1>1, <2>2, <2>4, <3>1
    <3>3. TextFrom(g, s, i) = TextFrom(f, s, i)
      BY <3>2, TextFromLater
    <3>4. CASE i = k
      BY <2>4, <3>3, <3>4
    <3>5. CASE i # k
      <4>1. i > n + 3 - (m - 1)
        BY <1>1, <3>1, <3>5
      <4>2. f[i] = TextFrom(f, s, i)
        BY <2>1, <4>1
      <4> QED BY <2>4, <3>3, <3>5, <4>2
    <3> QED BY <3>4, <3>5
  <2>6. From(g, m)
    BY <2>5
  <2>7. m \in 0..(n + 3)
    BY <1>1
  <2> HIDE DEF From, D
  <2> QED BY <2>4, <2>6, <2>7
<1>4. n + 3 \in T
  <2> HIDE DEF T
  <2>1. n + 3 \in Nat
    BY <1>1
  <2> HIDE DEF n
  <2>2. \A i \in 0..(n + 3) : i \in T
    BY ONLY <1>2, <1>3, <2>1, Upward
  <2> QED BY <2>1, <2>2
<1>5. PICK f \in [D -> Seq(STRING)] : From(f, n + 3)
  BY <1>4
<1>6. Parses(f, s)
  BY <1>1, <1>5 DEF Parses
<1> QED BY <1>6

LEMMA PlainIs ==
  ASSUME NEW s \in Events
  PROVE  \E f : Parses(f, s) /\ Plain(s) = f[1]
<1> DEFINE n == Len(s)
           Eq(f) == f = [i \in 1..(n + 3) |-> TextFrom(f, s, i)]
           from[i \in 1..(n + 3)] ==
             IF i > n THEN <<>>
             ELSE IF s[i].byte = "IAC"
                  THEN from[i + (IF i < n /\ s[i + 1].byte \in Verbs THEN 3 ELSE 2)]
             ELSE IF ~s[i].kept THEN from[i + 1]
             ELSE <<s[i].byte>> \o from[i + 1]
<1>1. PICK f : Parses(f, s)
  BY Parsable
<1>2. f = [i \in 1..(n + 3) |-> TextFrom(f, s, i)]
  BY <1>1 DEF Parses
<1>3. from = [i \in 1..(n + 3) |-> TextFrom(from, s, i)]
  BY <1>2 DEF from, TextFrom, Skips
<1>4. Plain(s) = from[1]
  BY DEF Plain, from
<1> HIDE DEF from
<1>5. \A i \in 1..(n + 3) : from[i] = TextFrom(from, s, i)
  BY <1>3
<1>6. Len(s) \in Nat
  OBVIOUS
<1> DEFINE T == {m \in 0..(n + 3) : \A i \in 1..(n + 3) : i > n + 3 - m => from[i] = f[i]}
<1>7. 0 \in T
  BY <1>6
<1>8. ASSUME NEW m \in 1..(n + 3), m - 1 \in T PROVE m \in T
  <2> DEFINE k == n + 4 - m
  <2>1. k \in 1..(n + 3) /\ k \in Nat
    BY <1>6
  <2>2. \A j \in 1..(n + 3) : j > k => from[j] = f[j]
    BY <1>6, <1>8
  <2>3. f \in [1..(n + 3) -> Seq(STRING)] /\ f[k] = TextFrom(f, s, k)
    BY <1>1, <2>1 DEF Parses
  <2>4. TextFrom(from, s, k) = TextFrom(f, s, k)
    BY <2>1, <2>2, <2>3, TextFromLater
  <2>5. from[k] = f[k]
    BY <1>5, <2>1, <2>3, <2>4
  <2>6. \A i \in 1..(n + 3) : i > n + 3 - m => i = k \/ i > k
    BY <1>6
  <2> QED BY <1>6, <2>2, <2>5, <2>6
<1>9. 1 \in 1..(n + 3) /\ n + 3 \in T
  <2> HIDE DEF T
  <2>1. n + 3 \in Nat /\ 1 \in 1..(n + 3)
    BY <1>6
  <2> HIDE DEF n
  <2>2. \A i \in 0..(n + 3) : i \in T
    BY ONLY <1>7, <1>8, <2>1, Upward
  <2> QED BY <2>1, <2>2
<1>10. from[1] = f[1]
  BY <1>6, <1>9
<1> QED BY <1>1, <1>4, <1>10

\* What comes before does not matter to Plain from there on.
Prefixed(a, u, f, g) == a \in Events /\ u \in Events /\ Parses(f, a \o u) /\ Parses(g, u)

LEMMA Shifted ==
  ASSUME NEW a, NEW u, NEW f, NEW g, Prefixed(a, u, f, g)
  PROVE  \A i \in 1..(Len(u) + 3) : f[Len(a) + i] = g[i]
<1> DEFINE c == a \o u
           k == Len(a)
           n == Len(u)
           N == Len(c)
<1>1. /\ k \in Nat /\ n \in Nat /\ N = k + n /\ c \in Events
      /\ \A i \in 1..n : c[k + i] = u[i]
  <2>1. a \in Seq(Event) /\ u \in Seq(Event)
    BY DEF Prefixed, Events, Event
  <2>2. c \in Seq(Event) /\ N = k + n /\ k \in Nat /\ n \in Nat /\ \A i \in 1..n : c[k + i] = u[i]
    BY <2>1
  <2> QED BY <2>2 DEF Events, Event
<1>2. \A i \in 1..(n + 3) : k + i \in 1..(N + 3)
  BY <1>1
<1>3. /\ \A i \in 1..(N + 3) : f[i] = TextFrom(f, c, i)
      /\ \A i \in 1..(n + 3) : g[i] = TextFrom(g, u, i)
  BY DEF Prefixed, Parses
<1> HIDE DEF c, k, n, N
<1> DEFINE T == {m \in 0..(n + 3) : \A i \in 1..(n + 3) : i > n + 3 - m => f[k + i] = g[i]}
<1>4. 0 \in T
  BY <1>1
<1>5. ASSUME NEW m \in 1..(n + 3), m - 1 \in T PROVE m \in T
  <2> DEFINE j == n + 4 - m
  <2>1. j \in 1..(n + 3) /\ j \in Nat
    BY <1>1
  <2>2. \A i \in 1..(n + 3) : i > j => f[k + i] = g[i]
    BY <1>1, <1>5
  <2> HIDE DEF j
  <2>3. f[k + j] = TextFrom(f, c, k + j) /\ g[j] = TextFrom(g, u, j)
    BY <1>2, <1>3, <2>1
  <2>4. TextFrom(f, c, k + j) = TextFrom(g, u, j)
    <3>1. CASE j > n
      <4>1. k + j > N
        BY <1>1, <2>1, <3>1
      <4> QED BY <3>1, <4>1 DEF TextFrom, n, N
    <3>2. CASE ~(j > n)
      <4>1. ~(k + j > N) /\ c[k + j] = u[j] /\ j \in 1..n
        <5>1. j \in 1..n
          BY <1>1, <2>1, <3>2
        <5>2. c[k + j] = u[j]
          BY <1>1, <5>1
        <5>3. ~(k + j > N)
          BY <1>1, <5>1
        <5> QED BY <5>1, <5>2, <5>3
      <4>2. Skips(c, k + j) = Skips(u, j)
        <5>1. k + j < N <=> j < n
          BY <1>1, <2>1
        <5>2. (k + j) + 1 = k + (j + 1) /\ (j < n => j + 1 \in 1..n)
          BY <1>1, <2>1
        <5>3. j < n => c[(k + j) + 1] = u[j + 1]
          BY <1>1, <5>2
        <5> QED BY <5>1, <5>3 DEF Skips, n, N
      <4>3. Skips(u, j) \in {2, 3}
        BY DEF Skips
      <4>4. f[(k + j) + 1] = g[j + 1] /\ f[(k + j) + Skips(c, k + j)] = g[j + Skips(u, j)]
        <5> DEFINE d == Skips(u, j)
        <5>1. d \in {2, 3} /\ Skips(c, k + j) = d
          BY <4>2, <4>3
        <5> HIDE DEF d
        <5>2. /\ j + 1 \in 1..(n + 3) /\ j + 1 > j /\ (k + j) + 1 = k + (j + 1)
              /\ j + d \in 1..(n + 3) /\ j + d > j /\ (k + j) + d = k + (j + d)
          BY <1>1, <2>1, <3>2, <5>1
        <5>3. f[k + (j + 1)] = g[j + 1] /\ f[k + (j + d)] = g[j + d]
          BY <2>2, <5>2
        <5> QED BY <5>1, <5>2, <5>3 DEF d
      <4> QED BY <3>2, <4>1, <4>4 DEF TextFrom, n, N
    <3> QED BY <3>1, <3>2
  <2>5. \A i \in 1..(n + 3) : i > n + 3 - m => i = j \/ i > j
    BY <1>1 DEF j
  <2>6. \A i \in 1..(n + 3) : i > n + 3 - m => f[k + i] = g[i]
    BY <2>2, <2>3, <2>4, <2>5
  <2>7. m \in 0..(n + 3)
    BY <1>1
  <2> QED BY <2>6, <2>7
<1>6. n + 3 \in T
  <2> HIDE DEF T
  <2>1. n + 3 \in Nat
    BY <1>1
  <2>2. \A i \in 0..(n + 3) : i \in T
    BY ONLY <1>4, <1>5, <2>1, Upward
  <2> QED BY <2>1, <2>2
<1>7. \A i \in 1..(n + 3) : f[k + i] = g[i]
  BY <1>1, <1>6
<1> QED BY <1>7 DEF k, n

\* The text of the rest of a stream, for each way it can begin.
LEMMA PlainText ==
  ASSUME NEW e \in Event, e.byte # "IAC", NEW u \in Events
  PROVE  Plain(<<e>> \o u) = (IF e.kept THEN <<e.byte>> ELSE <<>>) \o Plain(u)
<1> DEFINE c == <<e>> \o u
<1>1. <<e>> \in Events /\ u \in Seq(Event) /\ <<e>> \in Seq(Event) /\ Len(<<e>>) = 1
  BY DEF Events, Event
<1>2. c \in Events /\ Len(c) = 1 + Len(u) /\ c[1] = e /\ Len(u) \in Nat
  <2>1. c \in Seq(Event) /\ Len(c) = 1 + Len(u) /\ c[1] = e /\ Len(u) \in Nat
    BY <1>1
  <2> QED BY <2>1 DEF Events, Event
<1> HIDE DEF c
<1>3. PICK f : Parses(f, c) /\ Plain(c) = f[1]
  BY <1>2, PlainIs
<1>4. PICK g : Parses(g, u) /\ Plain(u) = g[1]
  BY PlainIs
<1>5. f[1 + 1] = g[1]
  <2>0. PICK a : a = <<e>>
    OBVIOUS
  <2>1. Prefixed(a, u, f, g)
    BY <1>1, <1>3, <1>4, <2>0 DEF c, Prefixed
  <2>2. \A i \in 1..(Len(u) + 3) : f[Len(a) + i] = g[i]
    BY ONLY <2>1, Shifted
  <2>3. Len(a) = 1
    BY <2>0
  <2> QED BY <1>2, <2>2, <2>3
<1>6. f[1] = TextFrom(f, c, 1)
  BY <1>2, <1>3 DEF Parses
<1>7. ~(1 > Len(c))
  BY <1>2
<1>8. Plain(u) \in Seq(STRING)
  BY <1>2, <1>4 DEF Parses
<1>9. <<>> \o Plain(u) = Plain(u)
  BY <1>8
<1> QED BY <1>2, <1>3, <1>4, <1>5, <1>6, <1>7, <1>9 DEF TextFrom, c

LEMMA PlainCommand ==
  ASSUME NEW a \in Events, NEW u \in Events, Len(a) \in {2, 3}, a[1].byte = "IAC",
         Skips(a \o u, 1) = Len(a)
  PROVE  Plain(a \o u) = Plain(u)
<1> DEFINE c == a \o u
           n == Len(a)
<1>1. c \in Events /\ Len(c) = n + Len(u) /\ c[1] = a[1] /\ Len(u) \in Nat /\ n \in {2, 3}
  <2>1. a \in Seq(Event) /\ u \in Seq(Event)
    BY DEF Events, Event
  <2>2. c \in Seq(Event) /\ Len(c) = n + Len(u) /\ c[1] = a[1] /\ Len(u) \in Nat
    BY <2>1
  <2> QED BY <2>2 DEF Events, Event
<1>2. c = a \o u /\ Skips(c, 1) = n /\ c[1].byte = "IAC"
  BY <1>1
<1> HIDE DEF c
<1>3. PICK f : Parses(f, c) /\ Plain(c) = f[1]
  BY <1>1, PlainIs
<1>4. PICK g : Parses(g, u) /\ Plain(u) = g[1]
  BY PlainIs
<1>5. f[n + 1] = g[1]
  <2>1. Prefixed(a, u, f, g)
    BY <1>2, <1>3, <1>4 DEF Prefixed
  <2>2. \A i \in 1..(Len(u) + 3) : f[Len(a) + i] = g[i]
    BY ONLY <2>1, Shifted
  <2> QED BY <1>1, <2>2
<1>6. f[1] = TextFrom(f, c, 1)
  BY <1>1, <1>3 DEF Parses
<1>7. ~(1 > Len(c)) /\ 1 + n = n + 1
  BY <1>1
<1> HIDE DEF n
<1>8. f[1] = f[1 + n]
  BY <1>2, <1>6, <1>7 DEF TextFrom
<1> QED BY <1>2, <1>3, <1>4, <1>5, <1>7, <1>8

\* A command that is not complete has no text.
LEMMA PlainCut ==
  ASSUME NEW s \in Events, s # <<>> => s[1].byte = "IAC" /\ Len(s) <= Skips(s, 1)
  PROVE  Plain(s) = <<>>
<1>1. PICK f : Parses(f, s) /\ Plain(s) = f[1]
  BY PlainIs
<1>2. Len(s) \in Nat /\ (s = <<>> <=> Len(s) = 0)
  BY DEF Events
<1>3. \A i \in 1..(Len(s) + 3) : f[i] = TextFrom(f, s, i)
  BY <1>1 DEF Parses
<1>4. f[1] = TextFrom(f, s, 1)
  BY <1>2, <1>3
<1>5. CASE s = <<>>
  <2>1. 1 > Len(s)
    BY <1>2, <1>5
  <2> QED BY <1>1, <1>4, <2>1 DEF TextFrom
<1>6. CASE s # <<>>
  <2> DEFINE d == Skips(s, 1)
  <2>1. d \in {2, 3}
    BY DEF Skips
  <2>2. ~(1 > Len(s)) /\ s[1].byte = "IAC" /\ Len(s) <= d
    BY <1>2, <1>6
  <2>3. f[1] = f[1 + d]
    BY <1>4, <2>2 DEF TextFrom
  <2> HIDE DEF d
  <2>4. 1 + d \in 1..(Len(s) + 3) /\ 1 + d > Len(s)
    BY <1>2, <1>6, <2>1, <2>2
  <2>5. f[1 + d] = TextFrom(f, s, 1 + d)
    BY <1>3, <2>4
  <2>6. f[1 + d] = <<>>
    BY <2>4, <2>5 DEF TextFrom
  <2> QED BY <1>1, <2>3, <2>6
<1> QED BY <1>5, <1>6

\* A stream that ends between two commands.
Complete(p) == p \in Events /\ \A u \in Events : Plain(p \o u) = Plain(p) \o Plain(u)

LEMMA PlainType ==
  ASSUME NEW s \in Events
  PROVE  Plain(s) \in Seq(STRING)
<1>1. PICK f : Parses(f, s) /\ Plain(s) = f[1]
  BY PlainIs
<1>2. 1 \in 1..(Len(s) + 3)
  OBVIOUS
<1> QED BY <1>1, <1>2 DEF Parses

LEMMA CompleteEmpty == Complete(<<>>) /\ Plain(<<>>) = <<>>
<1>1. <<>> \in Events
  BY DEF Events
<1>2. Plain(<<>>) = <<>>
  BY <1>1, PlainCut
<1>3. ASSUME NEW u \in Events PROVE Plain(<<>> \o u) = Plain(<<>>) \o Plain(u)
  <2>1. <<>> \o u = u
    BY DEF Events
  <2>2. <<>> \o Plain(u) = Plain(u)
    BY PlainType
  <2> QED BY <1>2, <2>1, <2>2
<1> QED BY <1>1, <1>2, <1>3 DEF Complete

\* One after the other.
LEMMA CompleteConcat ==
  ASSUME NEW p, Complete(p), NEW q, Complete(q)
  PROVE  Complete(p \o q) /\ Plain(p \o q) = Plain(p) \o Plain(q)
<1>1. p \in Events /\ q \in Events
  BY DEF Complete
<1>2. p \o q \in Events
  BY <1>1 DEF Events
<1>3. Plain(p \o q) = Plain(p) \o Plain(q)
  BY <1>1 DEF Complete
<1>4. ASSUME NEW u \in Events PROVE Plain((p \o q) \o u) = Plain(p \o q) \o Plain(u)
  <2>1. (p \o q) \o u = p \o (q \o u)
    BY <1>1, ConcatAssociative DEF Events
  <2>2. q \o u \in Events
    BY <1>1 DEF Events
  <2>3. Plain(p \o (q \o u)) = Plain(p) \o (Plain(q) \o Plain(u))
    BY <2>2 DEF Complete
  <2>4. (Plain(p) \o Plain(q)) \o Plain(u) = Plain(p) \o (Plain(q) \o Plain(u))
    <3>1. Plain(p) \in Seq(STRING) /\ Plain(q) \in Seq(STRING) /\ Plain(u) \in Seq(STRING)
      BY <1>1, PlainType
    <3> QED BY <3>1, ConcatAssociative
  <2> QED BY <1>3, <2>1, <2>3, <2>4
<1> QED BY <1>2, <1>3, <1>4 DEF Complete

\* Text, and whole commands.
LEMMA CompleteText ==
  ASSUME NEW e \in Event, e.byte # "IAC"
  PROVE  Complete(<<e>>) /\ Plain(<<e>>) = (IF e.kept THEN <<e.byte>> ELSE <<>>)
<1> DEFINE x == IF e.kept THEN <<e.byte>> ELSE <<>>
<1>1. <<e>> \in Events /\ <<>> \in Events
  BY DEF Events, Event
<1>2. x \in Seq(STRING)
  <2>1. e.byte \in STRING
    BY DEF Event
  <2>2. <<e.byte>> \in Seq(STRING) /\ <<>> \in Seq(STRING)
    BY <2>1
  <2> QED BY <2>2
<1>3. \A u \in Events : Plain(<<e>> \o u) = x \o Plain(u)
  BY PlainText
<1>4. <<e>> \o <<>> = <<e>> /\ x \o <<>> = x
  BY <1>1, <1>2
<1>5. Plain(<<e>>) = x
  BY <1>1, <1>3, <1>4, CompleteEmpty
<1> HIDE DEF x
<1>6. Complete(<<e>>)
  BY <1>1, <1>3, <1>5 DEF Complete
<1> QED BY <1>5, <1>6 DEF x

LEMMA CompleteCommand ==
  ASSUME NEW a \in Events, Len(a) \in {2, 3}, a[1].byte = "IAC",
         a[2].byte \in Verbs <=> Len(a) = 3
  PROVE  Complete(a) /\ Plain(a) = <<>>
<1>1. ASSUME NEW u \in Events PROVE Plain(a \o u) = Plain(u)
  <2>1. a \in Seq(Event) /\ u \in Seq(Event)
    BY DEF Events, Event
  <2>2. (a \o u)[2] = a[2] /\ 1 < Len(a \o u)
    BY <2>1
  <2>3. Skips(a \o u, 1) = Len(a)
    BY <2>2 DEF Skips
  <2> QED BY <2>3, PlainCommand
<1>2. Plain(a) = <<>>
  <2>1. <<>> \in Events /\ a \o <<>> = a
    BY DEF Events
  <2> QED BY <1>1, <2>1, CompleteEmpty
<1>3. ASSUME NEW u \in Events PROVE Plain(a \o u) = Plain(a) \o Plain(u)
  <2>1. <<>> \o Plain(u) = Plain(u)
    BY PlainType
  <2> QED BY <1>1, <1>2, <2>1
<1> QED BY <1>2, <1>3 DEF Complete

-----------------------------------------------------------------------------
(* The text is given in order.                                             *)

\* Where in a command the stream ends.
Parsed(e, iac, intent) ==
  /\ e \in Events
  /\ ~iac => intent = "none" /\ Complete(e)
  /\ iac /\ intent = "none" =>
       \E p, x : Complete(p) /\ x \in Event /\ x.byte = "IAC" /\ e = p \o <<x>>
  /\ iac /\ intent # "none" =>
       \E p, x, y : /\ Complete(p) /\ x \in Event /\ x.byte = "IAC"
                    /\ y \in Event /\ y.byte \in Verbs /\ e = p \o <<x, y>>

\* Streams of one, two and three bytes.
LEMMA Short ==
  ASSUME NEW x \in Event, NEW y \in Event, NEW z \in Event
  PROVE  /\ <<x>> \in Events /\ <<x, y>> \in Events /\ <<x, y, z>> \in Events
         /\ <<x>> \o <<y>> = <<x, y>> /\ <<x, y>> \o <<z>> = <<x, y, z>>
<1>1. <<x>> \in Seq(Event) /\ <<x, y>> \in Seq(Event) /\ <<x, y, z>> \in Seq(Event)
  OBVIOUS
<1>2. <<x>> \o <<y>> = <<x, y>>
  <2>1. <<x>> \o <<y>> \in Seq(Event) /\ Len(<<x>> \o <<y>>) = 2
        /\ (<<x>> \o <<y>>)[1] = x /\ (<<x>> \o <<y>>)[2] = y
    BY <1>1, ConcatProperties
  <2>2. \A i \in 1..2 : (<<x>> \o <<y>>)[i] = <<x, y>>[i]
    BY <2>1
  <2> QED BY <1>1, <2>1, <2>2, SeqEqual
<1>3. <<x, y>> \o <<z>> = <<x, y, z>>
  <2>1. <<x, y>> \o <<z>> \in Seq(Event) /\ Len(<<x, y>> \o <<z>>) = 3
        /\ (<<x, y>> \o <<z>>)[1] = x /\ (<<x, y>> \o <<z>>)[2] = y /\ (<<x, y>> \o <<z>>)[3] = z
    BY <1>1, ConcatProperties
  <2>2. \A i \in 1..3 : (<<x, y>> \o <<z>>)[i] = <<x, y, z>>[i]
    BY <2>1
  <2> QED BY <1>1, <2>1, <2>2, SeqEqual
<1> QED BY <1>1, <1>2, <1>3 DEF Events, Event

\* Those that are not a whole command.
LEMMA IacCut ==
  ASSUME NEW x \in Event, x.byte = "IAC"
  PROVE  Plain(<<x>>) = <<>>
<1>1. PICK s : s = <<x>>
  OBVIOUS
<1>2. s \in Events /\ s[1].byte = "IAC" /\ Len(s) = 1
  BY <1>1, Short
<1>3. Skips(s, 1) \in {2, 3}
  BY DEF Skips
<1>4. Len(s) <= Skips(s, 1)
  BY <1>2, <1>3
<1>5. Plain(s) = <<>>
  BY <1>2, <1>4, PlainCut
<1> QED BY <1>1, <1>5

LEMMA ShortCut ==
  ASSUME NEW x \in Event, x.byte = "IAC", NEW y \in Event, y.byte \in Verbs
  PROVE  Plain(<<x>>) = <<>> /\ Plain(<<x, y>>) = <<>>
<1>1. Plain(<<x>>) = <<>>
  BY IacCut
<1>2. Plain(<<x, y>>) = <<>>
  <2>1. PICK s : s = <<x, y>>
    OBVIOUS
  <2>2. s \in Events /\ s[1].byte = "IAC" /\ Len(s) = 2
    BY <2>1, Short
  <2>3. Skips(s, 1) \in {2, 3}
    BY DEF Skips
  <2>4. Len(s) <= Skips(s, 1)
    BY <2>2, <2>3
  <2>5. Plain(s) = <<>>
    BY <2>2, <2>4, PlainCut
  <2> QED BY <2>1, <2>5
<1> QED BY <1>1, <1>2

LEMMA Longer ==
  ASSUME NEW p \in Events, NEW x \in Event
  PROVE  Append(p, x) \in Events /\ Append(p, x) = p \o <<x>>
<1>1. p \in Seq(Event)
  BY DEF Events, Event
<1>2. Append(p, x) \in Seq(Event) /\ Append(p, x) = p \o <<x>>
  BY <1>1
<1> QED BY <1>2 DEF Events, Event

\* A command that has begun adds nothing.
LEMMA Begun ==
  ASSUME NEW p, Complete(p), NEW q \in Events, Plain(q) = <<>>
  PROVE  Plain(p \o q) = Plain(p)
<1>1. p \in Events /\ Plain(p \o q) = Plain(p) \o <<>>
  BY DEF Complete
<1> QED BY <1>1, PlainType

\* One byte more.
LEMMA MoreText ==
  ASSUME NEW e, Parsed(e, FALSE, "none"), NEW x \in Event, x.byte # "IAC"
  PROVE  /\ Parsed(Append(e, x), FALSE, "none")
         /\ Plain(Append(e, x)) = Plain(e) \o (IF x.kept THEN <<x.byte>> ELSE <<>>)
<1>1. Complete(e) /\ e \in Events
  BY DEF Parsed
<1>2. Append(e, x) \in Events /\ Append(e, x) = e \o <<x>>
  BY <1>1, Longer
<1>3. Complete(<<x>>) /\ Plain(<<x>>) = (IF x.kept THEN <<x.byte>> ELSE <<>>)
  BY CompleteText
<1>4. Complete(e \o <<x>>) /\ Plain(e \o <<x>>) = Plain(e) \o Plain(<<x>>)
  BY <1>1, <1>3, CompleteConcat
<1> QED BY <1>2, <1>3, <1>4 DEF Parsed

LEMMA MoreIac ==
  ASSUME NEW e, Parsed(e, FALSE, "none"), NEW x \in Event, x.byte = "IAC"
  PROVE  Parsed(Append(e, x), TRUE, "none") /\ Plain(Append(e, x)) = Plain(e)
<1>1. Complete(e) /\ e \in Events
  BY DEF Parsed
<1>2. Append(e, x) \in Events /\ Append(e, x) = e \o <<x>>
  BY <1>1, Longer
<1>3. <<x>> \in Events /\ <<x>>[1] = x /\ Len(<<x>>) = 1
  BY Short
<1>4. Plain(<<x>>) = <<>>
  BY IacCut
<1>5. Plain(e \o <<x>>) = Plain(e)
  BY <1>1, <1>3, <1>4, Begun
<1> QED BY <1>1, <1>2, <1>5 DEF Parsed

LEMMA MoreVerb ==
  ASSUME NEW e, Parsed(e, TRUE, "none"), NEW y \in Event, y.byte \in Verbs
  PROVE  Parsed(Append(e, y), TRUE, y.byte) /\ Plain(Append(e, y)) = Plain(e)
<1>1. PICK p, x : Complete(p) /\ x \in Event /\ x.byte = "IAC" /\ e = p \o <<x>>
  BY DEF Parsed
<1>2. e \in Events /\ p \in Events
  BY <1>1 DEF Parsed, Complete
<1>3. <<x>> \in Events /\ <<y>> \in Events /\ <<x, y>> \in Events /\ <<x>> \o <<y>> = <<x, y>>
  BY <1>1, Short
<1>4. Append(e, y) \in Events /\ Append(e, y) = p \o <<x, y>>
  <2>1. Append(e, y) \in Events /\ Append(e, y) = e \o <<y>>
    BY <1>2, Longer
  <2>2. (p \o <<x>>) \o <<y>> = p \o (<<x>> \o <<y>>)
    BY <1>2, <1>3, ConcatAssociative DEF Events
  <2> QED BY <1>1, <1>3, <2>1, <2>2
<1>5. Plain(<<x>>) = <<>> /\ Plain(<<x, y>>) = <<>>
  BY <1>1, ShortCut
<1>6. Plain(e) = Plain(p) /\ Plain(Append(e, y)) = Plain(p)
  BY <1>1, <1>3, <1>4, <1>5, Begun
<1>7. y.byte # "none"
  BY DEF Verbs
<1> QED BY <1>1, <1>4, <1>6, <1>7 DEF Parsed

LEMMA MoreCommand ==
  ASSUME NEW e, Parsed(e, TRUE, "none"), NEW y \in Event, y.byte \notin Verbs
  PROVE  Complete(Append(e, y)) /\ Plain(Append(e, y)) = Plain(e)
<1>1. PICK p, x : Complete(p) /\ x \in Event /\ x.byte = "IAC" /\ e = p \o <<x>>
  BY DEF Parsed
<1>2. e \in Events /\ p \in Events
  BY <1>1 DEF Parsed, Complete
<1>3. <<x>> \in Events /\ <<y>> \in Events /\ <<x, y>> \in Events /\ <<x>> \o <<y>> = <<x, y>>
  BY <1>1, Short
<1>4. Append(e, y) = p \o <<x, y>>
  <2>1. Append(e, y) = e \o <<y>>
    BY <1>2, Longer
  <2>2. (p \o <<x>>) \o <<y>> = p \o (<<x>> \o <<y>>)
    BY <1>2, <1>3, ConcatAssociative DEF Events
  <2> QED BY <1>1, <1>3, <2>1, <2>2
<1>5. Plain(<<x>>) = <<>> /\ Plain(<<x, y>>) = <<>> /\ Complete(<<x, y>>)
  <2>1. PICK a : a = <<x, y>>
    OBVIOUS
  <2>2. a[1] = x /\ a[2] = y /\ Len(a) = 2 /\ a \in Events
    BY <1>3, <2>1
  <2>3. Len(a) \in {2, 3} /\ a[1].byte = "IAC" /\ (a[2].byte \in Verbs <=> Len(a) = 3)
    BY <1>1, <2>2
  <2>4. Complete(a) /\ Plain(a) = <<>>
    BY <2>2, <2>3, CompleteCommand
  <2>5. Plain(<<x>>) = <<>>
    BY <1>1, IacCut
  <2> QED BY <2>1, <2>4, <2>5
<1>6. Plain(e) = Plain(p) /\ Plain(Append(e, y)) = Plain(p)
  BY <1>1, <1>3, <1>4, <1>5, Begun
<1>7. Complete(p \o <<x, y>>)
  BY <1>1, <1>5, CompleteConcat
<1> QED BY <1>4, <1>6, <1>7

LEMMA MoreOption ==
  ASSUME NEW e, NEW intent, intent # "none", Parsed(e, TRUE, intent), NEW z \in Event
  PROVE  Complete(Append(e, z)) /\ Plain(Append(e, z)) = Plain(e)
<1>1. PICK p, x, y : /\ Complete(p) /\ x \in Event /\ x.byte = "IAC"
                     /\ y \in Event /\ y.byte \in Verbs /\ e = p \o <<x, y>>
  BY DEF Parsed
<1>2. e \in Events /\ p \in Events
  BY <1>1 DEF Parsed, Complete
<1>3. <<x, y>> \in Events /\ <<z>> \in Events /\ <<x, y, z>> \in Events /\ <<x, y>> \o <<z>> = <<x, y, z>>
  BY <1>1, Short
<1>4. Append(e, z) = p \o <<x, y, z>>
  <2>1. Append(e, z) = e \o <<z>>
    BY <1>2, Longer
  <2>2. (p \o <<x, y>>) \o <<z>> = p \o (<<x, y>> \o <<z>>)
    BY <1>2, <1>3, ConcatAssociative DEF Events
  <2> QED BY <1>1, <1>3, <2>1, <2>2
<1>5. Plain(<<x, y>>) = <<>> /\ Plain(<<x, y, z>>) = <<>> /\ Complete(<<x, y, z>>)
  <2>1. PICK a : a = <<x, y, z>>
    OBVIOUS
  <2>2. a[1] = x /\ a[2] = y /\ Len(a) = 3 /\ a \in Events
    BY <1>3, <2>1
  <2>3. Len(a) \in {2, 3} /\ a[1].byte = "IAC" /\ (a[2].byte \in Verbs <=> Len(a) = 3)
    BY <1>1, <2>2
  <2>4. Complete(a) /\ Plain(a) = <<>>
    BY <2>2, <2>3, CompleteCommand
  <2>5. Plain(<<x, y>>) = <<>>
    BY <1>1, ShortCut
  <2> QED BY <2>1, <2>4, <2>5
<1>6. Plain(e) = Plain(p) /\ Plain(Append(e, z)) = Plain(p)
  BY <1>1, <1>3, <1>4, <1>5, Begun
<1>7. Complete(p \o <<x, y, z>>)
  BY <1>1, <1>5, CompleteConcat
<1> QED BY <1>4, <1>6, <1>7

\* The text before the last newline, and after.
LEMMA NewlineParts ==
  ASSUME NEW S, NEW s \in Seq(S)
  PROVE  ToNL(s) \o AfterNL(s) = s
<1> DEFINE nls == {i \in DOMAIN s : s[i] = "NL"}
           last == IF nls = {} THEN 0 ELSE CHOOSE i \in nls : \A j \in nls : j <= i
<1>1. Len(s) \in Nat /\ nls \subseteq 0..Len(s)
  OBVIOUS
<1>2. last \in 0..Len(s)
  <2> HIDE DEF nls
  <2>1. nls # {} => \E i \in nls : \A j \in nls : j <= i
    BY <1>1, GreatestNat
  <2>2. nls # {} => last \in nls
    BY <2>1
  <2>3. nls = {} => last = 0
    OBVIOUS
  <2>4. 0 \in 0..Len(s)
    BY <1>1
  <2> HIDE DEF last
  <2> QED BY <1>1, <2>2, <2>3, <2>4
<1>3. AfterNL(s) = SubSeq(s, last + 1, Len(s))
  BY DEF AfterNL
<1> HIDE DEF last
<1>4. /\ Len(SubSeq(s, last + 1, Len(s))) = Len(s) - last
      /\ SubSeq(s, 1, last) \o SubSeq(s, last + 1, Len(s)) = s
  BY <1>2, Halves
<1>5. Len(s) - Len(AfterNL(s)) = last
  BY <1>1, <1>2, <1>3, <1>4
<1>6. ToNL(s) = SubSeq(s, 1, last)
  BY <1>5 DEF ToNL
<1> QED BY <1>3, <1>4, <1>6

\* The command has come, and who reads the prompt has it: Riac is reset after.
InCommand == Same /\ fn \in {"lines", "prompt"}
Cutting ==
  rid # 0 => IF InCommand THEN Rintent = "none" /\ Complete(eaten) ELSE Parsed(eaten, Riac, Rintent)

\* Where the line so far is Rtelnetbuf, whatever connection it is of.
Between == fn \in {"select", "ready", "cycle", "char", "done", "other", "option", "closed"}

LEMMA BetweenIs ==
  /\ Between => Line = Rtelnetbuf /\ ~InCommand
  /\ Between' => Line' = Rtelnetbuf' /\ ~InCommand'
BY DEF Between, Line, InCommand

\* Steps that neither take a byte nor give text.
LEMMA Unread ==
  ASSUME Cutting, InOrder, Between, Between', rid' \in {rid, 0},
         UNCHANGED <<Rtelnetbuf, Riac, Rintent, eaten, given>>
  PROVE  Cutting' /\ InOrder'
<1>1. Line' = Line /\ ~InCommand /\ ~InCommand'
  BY BetweenIs
<1>2. CASE rid' = 0
  BY <1>2 DEF Cutting, InOrder
<1>3. CASE rid' = rid
  BY <1>1, <1>3 DEF Cutting, InOrder
<1> QED BY <1>2, <1>3

\* A character more.
LEMMA CharTypes ==
  ASSUME NEW S, NEW b \in S, NEW s \in Seq(S)
  PROVE  /\ <<b>> \in Seq(S) /\ <<>> \in Seq(S) /\ s \o <<>> = s
         /\ Append(s, b) = s \o <<b>> /\ Append(s, b) \in Seq(S)
<1>1. <<b>> \in Seq(S) /\ <<>> \in Seq(S)
  OBVIOUS
<1>2. s \o <<>> = s
  BY ConcatEmptySeq
<1>3. Append(s, b) = s \o <<b>> /\ Append(s, b) \in Seq(S)
  BY AppendIsConcat, AppendProperties
<1> QED BY <1>1, <1>2, <1>3

\* Strings and their parts.
LEMMA StringTypes ==
  ASSUME Typed
  PROVE  /\ given \in Seq(STRING) /\ Rtelnetbuf \in Seq(STRING) /\ eaten \in Events
         /\ \A b \in Bytes : b \in STRING
<1>1. \A b \in Bytes : b \in STRING
  BY RemoteAssumption DEF Bytes
<1>2. \A s \in Seq(Bytes) : s \in Seq(STRING)
  BY <1>1
<1> QED BY <1>1, <1>2 DEF Typed, TypeOK, Byteseq, Events

\* A byte was processed: what the line and what was given have to be.
LEMMA Fed ==
  ASSUME Typed, Cutting, InOrder, Feed
  PROVE  /\ Parsed(eaten, Riac, Rintent) /\ rid # 0 /\ Same
         /\ given \o Rtelnetbuf = Plain(eaten) /\ given \in Seq(STRING) /\ Rtelnetbuf \in Seq(STRING)
         /\ Byte \in STRING
         /\ \E x \in Event : /\ eaten' = Append(eaten, x) /\ x.byte = Byte
                             /\ x.kept = (Byte # "CR" \/ Rraw)
<1>1. fn = "char" /\ rid # 0 /\ Same /\ Byte \in STRING
  BY FeedTypes DEF Feed
<1>2. Line = Rtelnetbuf /\ ~InCommand
  BY <1>1, BetweenIs DEF Between
<1>3. eaten' = Append(eaten, [byte |-> Byte, kept |-> Byte # "CR" \/ Rraw])
  BY DEF Feed
<1>4. [byte |-> Byte, kept |-> Byte # "CR" \/ Rraw] \in Event
  BY <1>1 DEF Event
<1> QED BY <1>1, <1>2, <1>3, <1>4, StringTypes DEF Cutting, InOrder

LEMMA TextOrder ==
  ASSUME Typed, Cutting, InOrder, Text
  PROVE  Cutting' /\ InOrder'
<1>1. Feed /\ ~Riac /\ Byte # "IAC" /\ rid' = rid /\ Riac' = Riac /\ Rintent' = Rintent /\ saved' = saved
  BY DEF Text, Feed, telnet
<1>2. /\ Parsed(eaten, Riac, Rintent) /\ rid # 0 /\ Same
      /\ given \o Rtelnetbuf = Plain(eaten) /\ given \in Seq(STRING) /\ Rtelnetbuf \in Seq(STRING)
      /\ Byte \in STRING
  BY <1>1, Fed
<1>3. PICK x \in Event : /\ eaten' = Append(eaten, x) /\ x.byte = Byte
                         /\ x.kept = (Byte # "CR" \/ Rraw)
  BY <1>1, Fed
<1>4. Riac = FALSE /\ Rintent = "none"
  BY <1>1, <1>2 DEF Parsed, Typed, TypeOK
<1> DEFINE k == IF x.kept THEN <<x.byte>> ELSE <<>>
<1>5. Parsed(eaten', FALSE, "none") /\ Plain(eaten') = (given \o Rtelnetbuf) \o k
  BY <1>1, <1>2, <1>3, <1>4, MoreText
<1>11. given \in Seq(STRING) /\ Rtelnetbuf \in Seq(STRING) /\ Byte \in STRING
  BY <1>2
<1>6. <<Byte>> \in Seq(STRING) /\ <<>> \in Seq(STRING)
  BY <1>11, CharTypes
<1>7. k \in Seq(STRING) /\ (given \o Rtelnetbuf) \o k = given \o (Rtelnetbuf \o k)
  <2>1. k \in Seq(STRING)
    BY <1>3, <1>6
  <2> HIDE DEF k
  <2>2. (given \o Rtelnetbuf) \o k = given \o (Rtelnetbuf \o k)
    <3>1. \A r, s, t \in Seq(STRING) : (r \o s) \o t = r \o (s \o t)
      BY ONLY Groups
    <3> QED BY <1>11, <2>1, <3>1, Zenon
  <2> QED BY <2>1, <2>2
<1>8. /\ Append(Rtelnetbuf, Byte) = Rtelnetbuf \o <<Byte>> /\ Rtelnetbuf \o <<>> = Rtelnetbuf
      /\ Append(Rtelnetbuf, Byte) \in Seq(STRING)
  BY <1>11, CharTypes
<1>9. CASE Byte = "NL" /\ ~Rraw
  <2>1. given' = given \o Append(Rtelnetbuf, "NL") /\ fn' = "line"
    BY <1>9 DEF Text, Give
  <2>2. k = <<Byte>>
    BY <1>3, <1>9
  <2>3. Line' = <<>> /\ ~InCommand'
    BY <1>1, <1>2, <2>1 DEF Line, InCommand, Same
  <2>4. given' = Plain(eaten') /\ given' \in Seq(STRING)
    <3> HIDE DEF k
    <3>1. given' = Plain(eaten')
      BY <1>5, <1>7, <1>8, <1>9, <2>1, <2>2
    <3>2. given' \in Seq(STRING)
      BY <1>8, <1>9, <1>11, <2>1, ConcatProperties
    <3> QED BY <3>1, <3>2
  <2>5. given' \o Line' = given'
    BY <2>3, <2>4
  <2> QED BY <1>1, <1>4, <1>5, <2>3, <2>4, <2>5 DEF Cutting, InOrder
<1>10. CASE ~(Byte = "NL" /\ ~Rraw)
  <2>1. /\ fn' = "char" /\ given' = given
        /\ Rtelnetbuf' = IF Byte = "CR" /\ ~Rraw THEN Rtelnetbuf ELSE Append(Rtelnetbuf, Byte)
    BY <1>1, <1>10 DEF Text, Feed
  <2>2. Rtelnetbuf' = Rtelnetbuf \o k
    <3>1. CASE Byte = "CR" /\ ~Rraw
      <4>1. ~x.kept
        BY <1>3, <3>1
      <4>2. k = <<>>
        BY <4>1
      <4> QED BY <1>8, <2>1, <3>1, <4>2
    <3>2. CASE ~(Byte = "CR" /\ ~Rraw)
      <4>1. x.kept
        BY <1>3, <3>2
      <4>2. k = <<Byte>>
        BY <1>3, <4>1
      <4>3. Rtelnetbuf' = Append(Rtelnetbuf, Byte)
        BY <2>1, <3>2
      <4> HIDE DEF k
      <4> QED BY <1>8, <4>2, <4>3
    <3> QED BY <3>1, <3>2
  <2> HIDE DEF k
  <2>3. Line' = Rtelnetbuf' /\ ~InCommand'
    BY <2>1, BetweenIs DEF Between
  <2>4. given' \o Line' = Plain(eaten')
    BY <1>5, <1>7, <2>1, <2>2, <2>3
  <2> QED BY <1>1, <1>4, <1>5, <2>3, <2>4 DEF Cutting, InOrder
<1> QED BY <1>9, <1>10

LEMMA CommandOrder ==
  ASSUME Typed, Cutting, InOrder, Iac \/ Verb \/ OtherCommand \/ Option
  PROVE  Cutting' /\ InOrder'
<1>1. /\ Feed /\ Rtelnetbuf' = Rtelnetbuf /\ given' = given /\ rid' \in {rid, 0}
      /\ rid' # 0 => fn' = fn
  BY DEF Iac, Verb, OtherCommand, Option
<1>2. /\ Parsed(eaten, Riac, Rintent) /\ rid # 0 /\ Same
      /\ given \o Rtelnetbuf = Plain(eaten) /\ fn = "char"
  BY <1>1, Fed DEF Feed
<1>3. PICK x \in Event : eaten' = Append(eaten, x) /\ x.byte = Byte
  BY <1>1, Fed
<1>4. CASE rid' = 0
  BY <1>4 DEF Cutting, InOrder
<1>5. ASSUME rid' # 0 PROVE Parsed(eaten', Riac', Rintent') /\ Plain(eaten') = Plain(eaten)
  <2>0. Riac \in BOOLEAN
    BY DEF Typed, TypeOK
  <2>1. CASE Iac
    <3>1. Riac = FALSE /\ Byte = "IAC" /\ Riac' = TRUE /\ Rintent' = Rintent
      BY <2>0, <2>1 DEF Iac
    <3>2. Rintent = "none"
      BY <1>2, <3>1 DEF Parsed
    <3> QED BY <1>2, <1>3, <3>1, <3>2, MoreIac
  <2>2. CASE Verb
    <3>1. Riac = TRUE /\ Rintent = "none" /\ Byte \in Verbs /\ Riac' = TRUE /\ Rintent' = Byte
      BY <2>0, <2>2 DEF Verb
    <3> QED BY <1>2, <1>3, <3>1, MoreVerb
  <2>3. CASE OtherCommand
    <3>1. Riac = TRUE /\ Rintent = "none" /\ Byte \notin Verbs /\ Riac' = FALSE /\ Rintent' = Rintent
      BY <2>0, <2>3 DEF OtherCommand
    <3>2. Complete(eaten') /\ Plain(eaten') = Plain(eaten)
      BY <1>2, <1>3, <3>1, MoreCommand
    <3> QED BY <3>1, <3>2 DEF Parsed, Complete
  <2>4. CASE Option
    <3>1. Riac = TRUE /\ Rintent # "none" /\ Riac' = FALSE /\ Rintent' = "none"
      BY <2>0, <2>4 DEF Option
    <3>2. Complete(eaten') /\ Plain(eaten') = Plain(eaten)
      BY <1>2, <1>3, <3>1, MoreOption
    <3> QED BY <3>1, <3>2 DEF Parsed, Complete
  <2> QED BY <2>1, <2>2, <2>3, <2>4
<1>6. CASE rid' # 0
  <2>1. Line' = Rtelnetbuf' /\ ~InCommand'
    BY <1>1, <1>2, <1>6, BetweenIs DEF Between
  <2> QED BY <1>1, <1>2, <1>5, <1>6, <2>1 DEF Cutting, InOrder
<1> QED BY <1>4, <1>6

LEMMA PromptOrder ==
  ASSUME Typed, Cutting, InOrder, Prompt
  PROVE  Cutting' /\ InOrder'
<1>1. /\ Feed /\ Riac /\ Rintent = "none" /\ Terminator /\ rid' = rid /\ saved' = saved
      /\ Riac' = Riac /\ Rintent' = Rintent /\ Rtelnetbuf' = Rtelnetbuf
  BY DEF Prompt, Feed, telnet
<1>2. /\ Parsed(eaten, Riac, Rintent) /\ rid # 0 /\ Same
      /\ given \o Rtelnetbuf = Plain(eaten) /\ given \in Seq(STRING) /\ Rtelnetbuf \in Seq(STRING)
  BY <1>1, Fed
<1>3. PICK x \in Event : eaten' = Append(eaten, x) /\ x.byte = Byte
  BY <1>1, Fed
<1>8. given \in Seq(STRING) /\ Rtelnetbuf \in Seq(STRING)
  BY <1>2
<1>4. Riac = TRUE /\ Byte \notin Verbs
  BY <1>1 DEF Typed, TypeOK, Terminator, Verbs
<1>5. Complete(eaten') /\ Plain(eaten') = given \o Rtelnetbuf
  BY <1>1, <1>2, <1>3, <1>4, MoreCommand
<1>6. CASE Rraw /\ ToNL(Rtelnetbuf) # <<>>
  <2>1. given' = given \o ToNL(Rtelnetbuf) /\ fn' = "lines"
    BY <1>6 DEF Prompt, Give
  <2>2. Line' = AfterNL(Rtelnetbuf) /\ InCommand'
    BY <1>1, <1>2, <2>1 DEF Line, InCommand, Same
  <2>3. /\ ToNL(Rtelnetbuf) \in Seq(STRING) /\ AfterNL(Rtelnetbuf) \in Seq(STRING)
        /\ ToNL(Rtelnetbuf) \o AfterNL(Rtelnetbuf) = Rtelnetbuf
    BY <1>8, NewlineTypes, NewlineParts
  <2>4. (given \o ToNL(Rtelnetbuf)) \o AfterNL(Rtelnetbuf) = given \o Rtelnetbuf
    <3> DEFINE a == ToNL(Rtelnetbuf)
               b == AfterNL(Rtelnetbuf)
    <3>1. a \in Seq(STRING) /\ b \in Seq(STRING) /\ given \in Seq(STRING)
      BY <1>8, <2>3
    <3>2. a \o b = Rtelnetbuf
      BY <2>3
    <3> HIDE DEF a, b
    <3>3. (given \o a) \o b = given \o (a \o b)
      BY <3>1, ConcatAssociative
    <3> QED BY <3>2, <3>3 DEF a, b
  <2> QED BY <1>1, <1>5, <2>1, <2>2, <2>4 DEF Cutting, InOrder
<1>7. CASE ~(Rraw /\ ToNL(Rtelnetbuf) # <<>>)
  <2>1. given' = given \o Rtelnetbuf /\ fn' = "prompt"
    BY <1>7 DEF Prompt, Give
  <2>2. Line' = <<>> /\ InCommand'
    BY <1>1, <1>2, <2>1 DEF Line, InCommand, Same
  <2>3. given' \in Seq(STRING)
    BY <1>8, <2>1
  <2>4. given' \o Line' = given'
    BY <2>2, <2>3
  <2> QED BY <1>1, <1>5, <2>1, <2>2, <2>4 DEF Cutting, InOrder
<1> QED BY <1>6, <1>7

\* The scan ends, and gives the unterminated line of a remote in raw mode.
LEMMA FlushOrder ==
  ASSUME Typed, Cutting, InOrder, Held \/ Emptied
  PROVE  Cutting' /\ InOrder'
<1>1. /\ fn = "char" /\ rid' = rid /\ saved' = saved /\ Rtelnetbuf' = Rtelnetbuf
      /\ eaten' = eaten /\ Riac' = Riac /\ Rintent' = Rintent
      /\ \/ fn' \in {"held", "flush"} /\ given' = given \o Rtelnetbuf
         \/ fn' \in {"other", "done"} /\ given' = given
  BY DEF Held, Emptied, Flush, Give, conn, telnet, scan
<1>2. Same /\ Line = Rtelnetbuf /\ ~InCommand
  BY <1>1, BetweenIs DEF Between, Typed, Positions
<1>3. CASE fn' \in {"held", "flush"} /\ given' = given \o Rtelnetbuf
  <2>1. Line' = <<>> /\ ~InCommand'
    BY <1>1, <1>2, <1>3 DEF Line, InCommand, Same
  <2>2. given \in Seq(STRING) /\ Rtelnetbuf \in Seq(STRING)
    BY StringTypes
  <2>3. given \o Rtelnetbuf \in Seq(STRING)
    BY <2>2, ConcatProperties
  <2>4. given' \o Line' = given'
    BY <1>3, <2>1, <2>3
  <2> QED BY <1>1, <1>2, <1>3, <2>1, <2>4 DEF Cutting, InOrder
<1>4. CASE fn' \in {"other", "done"} /\ given' = given
  <2>1. Line' = Line /\ ~InCommand'
    BY <1>1, <1>2, <1>4, BetweenIs DEF Between
  <2> QED BY <1>1, <1>2, <1>4, <2>1 DEF Cutting, InOrder
<1> QED BY <1>1, <1>3, <1>4

\* Who had the text is done, and its connection is another one.
LEMMA OtherConnection ==
  ASSUME Cutting, InOrder, ~Same, fn \in {"line", "lines", "prompt", "flush", "held"},
         UNCHANGED <<rid, saved, Rtelnetbuf, Riac, Rintent, eaten, given>>
  PROVE  Cutting' /\ InOrder'
<1>1. Line = Rtelnetbuf /\ Line' = Rtelnetbuf' /\ ~InCommand /\ ~InCommand'
  BY DEF Line, InCommand, Same
<1> QED BY <1>1 DEF Cutting, InOrder

LEMMA TakenOrder ==
  ASSUME Typed, Cutting, InOrder, LineEnd \/ LinesEnd \/ PromptEnd \/ FlushEnd
  PROVE  Cutting' /\ InOrder'
<1>1. rid' = rid /\ saved' = saved /\ eaten' = eaten /\ Rintent' = Rintent
  BY DEF LineEnd, LinesEnd, PromptEnd, FlushEnd, conn, telnet, scan
<1>2. CASE ~Same
  <2>1. /\ fn \in {"line", "lines", "prompt", "flush", "held"}
        /\ Rtelnetbuf' = Rtelnetbuf /\ Riac' = Riac /\ given' = given
    BY <1>2 DEF LineEnd, LinesEnd, PromptEnd, FlushEnd, telnet
  <2> QED BY <1>1, <1>2, <2>1, OtherConnection
<1>3. CASE Same
  <2>1. given \in Seq(STRING) /\ AfterNL(Rtelnetbuf) \in Seq(STRING)
    BY StringTypes, NewlineTypes
  <2>2. CASE LineEnd \/ FlushEnd
    <3>1. /\ fn \in {"line", "flush", "held"} /\ fn' \in {"char", "done", "other"}
          /\ Rtelnetbuf' = <<>> /\ given' = given /\ Riac' = Riac
      BY <1>3, <2>2 DEF LineEnd, FlushEnd, telnet
    <3>2. Line = <<>> /\ ~InCommand
      BY <1>3, <3>1 DEF Line, InCommand
    <3>3. Line' = <<>> /\ ~InCommand'
      BY <3>1, BetweenIs DEF Between
    <3> QED BY <1>1, <3>1, <3>2, <3>3 DEF Cutting, InOrder
  <2>3. CASE LinesEnd
    <3>1. /\ fn = "lines" /\ fn' = "prompt" /\ Riac' = Riac
          /\ given' = given \o AfterNL(Rtelnetbuf)
      BY <1>3, <2>3 DEF LinesEnd, Give, telnet
    <3>2. Line = AfterNL(Rtelnetbuf) /\ InCommand
      BY <1>3, <3>1 DEF Line, InCommand
    <3>3. Line' = <<>> /\ InCommand'
      BY <1>1, <1>3, <3>1 DEF Line, InCommand, Same
    <3>4. given' \in Seq(STRING)
      BY <2>1, <3>1, ConcatProperties
    <3>5. given' \o Line' = given'
      BY <3>3, <3>4
    <3> QED BY <1>1, <3>1, <3>2, <3>3, <3>5 DEF Cutting, InOrder
  <2>4. CASE PromptEnd
    <3>1. fn = "prompt" /\ fn' = "char" /\ Riac' = FALSE /\ Rtelnetbuf' = <<>> /\ given' = given
      BY <1>3, <2>4 DEF PromptEnd
    <3>2. Line = <<>> /\ InCommand
      BY <1>3, <3>1 DEF Line, InCommand
    <3>3. Line' = <<>> /\ ~InCommand'
      BY <3>1, BetweenIs DEF Between
    <3>4. rid # 0 => Parsed(eaten', Riac', Rintent')
      BY <1>1, <3>1, <3>2 DEF Cutting, Parsed, Complete
    <3> QED BY <1>1, <3>1, <3>2, <3>3, <3>4 DEF Cutting, InOrder
  <2> QED BY <2>2, <2>3, <2>4
<1> QED BY <1>2, <1>3

LEMMA ConnectOrder ==
  ASSUME Typed, Connect
  PROVE  Cutting' /\ InOrder'
<1>1. /\ rid' = conns + 1 /\ saved' = saved /\ Rtelnetbuf' = <<>> /\ given' = <<>>
      /\ eaten' = <<>> /\ Riac' = FALSE /\ Rintent' = "none"
  BY DEF Connect, scan
<1>2. conns \in Nat /\ saved \in 0..conns
  BY DEF Typed, TypeOK
<1>3. ~Same'
  BY <1>1, <1>2 DEF Same
<1>4. Line' = <<>> /\ ~InCommand'
  BY <1>1, <1>3 DEF Line, InCommand
<1>5. Parsed(eaten', Riac', Rintent') /\ Plain(eaten') = <<>>
  BY <1>1, CompleteEmpty DEF Parsed, Complete
<1>6. given' \o Line' = <<>>
  BY <1>1, <1>4
<1> QED BY <1>4, <1>5, <1>6 DEF Cutting, InOrder

LEMMA InitOrder == Init => Cutting /\ InOrder
<1> SUFFICES ASSUME Init PROVE Cutting /\ InOrder
  OBVIOUS
<1>1. /\ fn = "select" /\ Rtelnetbuf = <<>> /\ given = <<>> /\ eaten = <<>>
      /\ Riac = FALSE /\ Rintent = "none"
  BY DEF Init
<1>2. Line = <<>> /\ ~InCommand
  BY <1>1, BetweenIs DEF Between
<1>3. Parsed(eaten, Riac, Rintent) /\ Plain(eaten) = <<>>
  BY <1>1, CompleteEmpty DEF Parsed, Complete
<1>4. given \o Line = <<>>
  BY <1>1, <1>2
<1> QED BY <1>2, <1>3, <1>4 DEF Cutting, InOrder

LEMMA NextOrder ==
  ASSUME Typed, Cutting, InOrder, [Next]_vars
  PROVE  Cutting' /\ InOrder'
<1>1. CASE \E n \in DOMAIN wire : ReceiveInput(n)
  <2>1. /\ UNCHANGED <<rid, Rtelnetbuf, Riac, Rintent, eaten, given>>
        /\ fn = "select" /\ fn' = "ready"
    BY <1>1 DEF ReceiveInput, conn, telnet
  <2> QED BY <2>1, Unread DEF Between
<1>2. CASE \E w \in Words : PeerSends(w)
  <2>1. /\ UNCHANGED <<rid, Rtelnetbuf, Riac, Rintent, eaten, given>>
        /\ fn = "select" /\ fn' = fn
    BY <1>2 DEF PeerSends, conn, telnet, buffers
  <2> QED BY <2>1, Unread DEF Between
<1>3. CASE Closed \/ OtherInput \/ Timer \/ Ready \/ Break \/ Cycle \/ DisconnectEnd \/ OtherEnd \/ Done
  <2>1. UNCHANGED <<Rtelnetbuf, Riac, Rintent, eaten, given>> /\ rid' \in {rid, 0}
    BY <1>3 DEF Closed, OtherInput, Timer, Ready, Break, Cycle, DisconnectEnd, OtherEnd, Done,
       conn, telnet, buffers
  <2>2. Between /\ Between'
    BY <1>3 DEF Between, Closed, OtherInput, Timer, Ready, Break, Cycle, DisconnectEnd, OtherEnd, Done
  <2> QED BY <2>1, <2>2, Unread
<1>4. CASE SetFlags \/ UNCHANGED vars
  <2>1. UNCHANGED <<rid, saved, fn, Rtelnetbuf, Riac, Rintent, eaten, given>>
    BY <1>4 DEF SetFlags, vars, conn, telnet, buffers, scan
  <2>2. Line' = Line /\ InCommand' = InCommand
    BY <2>1 DEF Line, InCommand, Same
  <2> QED BY <2>1, <2>2 DEF Cutting, InOrder
<1>5. CASE Disconnect
  <2>1. rid' = 0
    BY <1>5 DEF Disconnect
  <2> QED BY <2>1 DEF Cutting, InOrder
<1>6. CASE Text
  BY <1>6, TextOrder
<1>7. CASE Iac \/ Verb \/ OtherCommand \/ Option
  BY <1>7, CommandOrder
<1>8. CASE Prompt
  BY <1>8, PromptOrder
<1>9. CASE Held \/ Emptied
  BY <1>9, FlushOrder
<1>10. CASE LineEnd \/ LinesEnd \/ PromptEnd \/ FlushEnd
  BY <1>10, TakenOrder
<1>11. CASE Connect
  BY <1>11, ConnectOrder
<1> QED BY <1>1, <1>2, <1>3, <1>4, <1>5, <1>6, <1>7, <1>8, <1>9, <1>10, <1>11 DEF Next, MainLoop

\* What programs got, followed by the line so far, is the text of the stream:
\* commands are taken out wherever reads cut them and whatever programs do with
\* the remote while they have the text, and nothing is given twice, left out or
\* moved, for any peer, any number of connections and any bytes.
THEOREM TextInOrder == Spec => []InOrder
<1>1. Typed /\ Cutting /\ InOrder /\ [Next]_vars => (Typed /\ Cutting /\ InOrder)'
  BY NextTyped, NextOrder
<1> QED BY <1>1, InitTyped, InitOrder, PTL DEF Spec
=============================================================================
