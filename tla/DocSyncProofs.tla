---------------------------- MODULE DocSyncProofs ----------------------------
(***************************************************************************)
(* Theorems about DocSync, for any number of edits and faults: the types,  *)
(* that no copy of a piece is counted twice, that nothing is taken out of  *)
(* the document before it was put in, and that a connected replica has     *)
(* nothing the document will not get.                                      *)
(*                                                                         *)
(* The idea: messages to the server arrive in order, so it is enough that  *)
(* each takes out only what the document has, or what is put in by it or a *)
(* message before it.  A cycle's transfer takes out only what its          *)
(* handshake heard of.  The answer to the server's summary is the          *)
(* whole replica; from then on every change of the replica is in a message *)
(* or came from the server.                                                *)
(***************************************************************************)
EXTENDS DocSync, SequenceTheorems, FiniteSetTheorems, FunctionTheorems, TLAPS

-----------------------------------------------------------------------------
(* The inductive invariant.                                                *)

\* A document with so many copies of each piece.
Numbered(doc, count) ==
  /\ IsFiniteSet(doc.has)
  /\ \A e \in doc.has : e[2] <= count[e[1]]

Has(messages) == UNION {messages[i].doc.has : i \in 1..Len(messages)}

Gone(messages) == UNION {messages[i].doc.gone : i \in 1..Len(messages)}

\* What a document has once it has taken in the messages up to the i-th.
After(doc, messages, i) == doc.has \cup UNION {messages[j].doc.has : j \in 1..i}

\* A document that took out only what it had.
SoundDoc(doc, count) ==
  doc \in Docs /\ Numbered(doc, count) /\ doc.gone \subseteq doc.has

\* A message takes out only what is there when it arrives.
SoundUp(doc, count, messages) ==
  \A i \in 1..Len(messages) :
    /\ messages[i].kind = "step1" => messages[i].doc = NoDoc
    /\ Numbered(messages[i].doc, count)
    /\ messages[i].doc.gone \subseteq After(doc, messages, i)

\* The server tells only what its document has.
SoundDown(doc, messages) ==
  \A i \in 1..Len(messages) :
    /\ messages[i].doc.has \subseteq doc.has
    /\ messages[i].doc.gone \subseteq doc.gone

\* A replica may have heard that a copy is gone before it hears of the copy.
SoundReplica(rep, doc, count) ==
  /\ rep \in Docs /\ Numbered(rep, count)
  /\ rep.gone \subseteq doc.has \cup rep.has

\* Nothing the replica has is unknown to the document and not on the way.
Told(rep, doc, messages) ==
  /\ rep.has \subseteq doc.has \cup Has(messages)
  /\ rep.gone \subseteq doc.gone \cup Gone(messages)

\* The connection has sent the replica.
HasTold(l) == l.wire /\ (l.connected \/ "step1" \in l.got)

DocsInv ==
  /\ SoundDoc(cloud, copies)
  /\ SoundUp(cloud, copies, up)
  /\ SoundDown(cloud, down)
  /\ SoundReplica(replica, cloud, copies)
  /\ HasTold(link) => Told(replica, cloud, up)

\* The piece of an edit to come is nowhere yet.
Fresh ==
  \A p \in Pieces : p > edits =>
    /\ copies[p] = 0
    /\ file # Absent => file[p] = 0
    /\ cycle.text[p] = 0

\* Whose turn it is: cycles run before and after the connection, or in the
\* watch, and a connection counts as up only after its handshake.
Turns ==
  /\ cycle.at # "off" => main \in {"initial", "watch", "final"}
  /\ main = "initial" => link.at = "off"
  /\ link.connected => link.at = "up"

\* What a transfer heard of the document, the document still has.
Heard ==
  heard \in Docs /\ heard.has \subseteq cloud.has /\ heard.gone \subseteq cloud.gone

IInv == TypeOK /\ DocsInv /\ Fresh /\ Turns /\ Heard

-----------------------------------------------------------------------------
(* Texts and documents.                                                    *)

LEMMA NoDocSound ==
  ASSUME NEW count
  PROVE  SoundDoc(NoDoc, count)
BY FS_EmptySet DEF SoundDoc, Docs, NoDoc, Numbered

\* The text of a finite document has each piece a number of times.
LEMMA TextOfType ==
  ASSUME NEW doc, IsFiniteSet(doc.has)
  PROVE  TextOf(doc) \in Texts
<1>1. ASSUME NEW p \in Pieces
      PROVE  Cardinality({e \in Live(doc) : e[1] = p}) \in Nat
  <2>1. {e \in Live(doc) : e[1] = p} \in SUBSET doc.has
    BY DEF Live
  <2>2. IsFiniteSet({e \in Live(doc) : e[1] = p})
    BY <2>1, FS_Subset
  <2>. QED
    BY <2>2, FS_CardinalityType
<1>. QED
  BY <1>1 DEF TextOf, Texts

\* A piece of which no copy was made is in no text.
LEMMA TextOfFresh ==
  ASSUME NEW doc \in Docs, NEW count, Numbered(doc, count),
         NEW p \in Pieces, count[p] = 0
  PROVE  TextOf(doc)[p] = 0
<1>1. ASSUME NEW e \in Live(doc), e[1] = p
      PROVE  FALSE
  <2>1. e \in doc.has /\ e \in Elements
    BY DEF Live, Docs
  <2>2. e[2] \in Nat \ {0}
    BY <2>1 DEF Elements
  <2>3. e[2] <= 0
    BY <1>1, <2>1 DEF Numbered
  <2>. QED
    BY <2>2, <2>3
<1>2. {e \in Live(doc) : e[1] = p} = {}
  BY <1>1
<1>. QED
  BY <1>2, FS_EmptySet DEF TextOf

\* More copies may be counted.
LEMMA NumberedGrows ==
  ASSUME NEW doc \in Docs, NEW count \in [Pieces -> Nat], NEW next \in [Pieces -> Nat],
         Numbered(doc, count), \A p \in Pieces : count[p] <= next[p]
  PROVE  Numbered(doc, next)
<1>1. ASSUME NEW e \in doc.has
      PROVE  e[2] <= next[e[1]]
  <2>1. e[1] \in Pieces /\ e[2] \in Nat
    BY DEF Docs, Elements
  <2>2. e[2] <= count[e[1]] /\ count[e[1]] <= next[e[1]]
    BY <2>1 DEF Numbered
  <2>. QED
    BY <2>1, <2>2
<1>. QED
  BY <1>1 DEF Numbered

\* Merging keeps documents within what was counted.
LEMMA MergeNumbered ==
  ASSUME NEW doc \in Docs, NEW update \in Docs, NEW count,
         Numbered(doc, count), Numbered(update, count)
  PROVE  Merge(doc, update) \in Docs /\ Numbered(Merge(doc, update), count)
<1>1. Merge(doc, update) \in Docs
  BY DEF Merge, Docs
<1>2. IsFiniteSet(doc.has \cup update.has)
  BY FS_Union DEF Numbered
<1>. QED
  BY <1>1, <1>2 DEF Merge, Numbered

LEMMA GainedDoc ==
  ASSUME NEW doc \in Docs, NEW update \in Docs
  PROVE  /\ Gained(doc, update) \in Docs
         /\ Gained(doc, update).has \subseteq update.has
         /\ Gained(doc, update).gone \subseteq update.gone
BY DEF Gained, Docs

\* The copies of a piece that a diff puts in.
New(doc, text, p) == {p} \X ((copies[p] + 1)..(copies[p] + text[p] - TextOf(doc)[p]))

LEMMA NewCopies ==
  ASSUME NEW doc \in Docs, IsFiniteSet(doc.has), NEW text \in Texts,
         copies \in [Pieces -> Nat], NEW p \in Pieces
  PROVE  /\ IsFiniteSet(New(doc, text, p))
         /\ Cardinality(New(doc, text, p)) \in Nat
         /\ \A e \in New(doc, text, p) :
              /\ e \in Elements /\ e[1] = p
              /\ e[2] <= copies[p] + Cardinality(New(doc, text, p))
         /\ text[p] = 0 => Cardinality(New(doc, text, p)) = 0
<1>. DEFINE a == copies[p]
            t == text[p] - TextOf(doc)[p]
            I == (a + 1)..(a + t)
<1>1. a \in Nat /\ text[p] \in Nat /\ TextOf(doc)[p] \in Nat
  BY TextOfType DEF Texts
<1>2. t \in Int /\ a + t = copies[p] + text[p] - TextOf(doc)[p]
  BY <1>1
<1>3. New(doc, text, p) = {p} \X I
  BY <1>2 DEF New
<1>. HIDE DEF t
<1>4. IsFiniteSet(I) /\ Cardinality(I) = IF t > 0 THEN t ELSE 0
  <2>. DEFINE low  == a + 1
              high == a + t
  <2>1. low \in Int /\ high \in Int
    BY <1>1, <1>2
  <2>. HIDE DEF low, high
  <2>2. IsFiniteSet(low..high) /\ Cardinality(low..high) = IF low > high THEN 0 ELSE high - low + 1
    BY <2>1, FS_Interval
  <2>. QED
    BY <1>1, <1>2, <2>2 DEF low, high
<1>5. IsFiniteSet({p}) /\ Cardinality({p}) = 1
  BY FS_Singleton
<1>6. IsFiniteSet({p} \X I) /\ Cardinality({p} \X I) = 1 * Cardinality(I)
  BY <1>4, <1>5, FS_Product
<1>7. Cardinality({p} \X I) = IF t > 0 THEN t ELSE 0
  BY <1>2, <1>4, <1>6
<1>8. ASSUME NEW e \in {p} \X I
      PROVE  e \in Elements /\ e[1] = p /\ e[2] <= a + Cardinality({p} \X I)
  <2>1. e[1] = p /\ e[2] \in I /\ e = <<e[1], e[2]>>
    OBVIOUS
  <2>2. e[2] \in Int /\ a + 1 <= e[2] /\ e[2] <= a + t
    BY <1>1, <1>2, <2>1
  <2>3. t > 0 /\ e[2] \in Nat \ {0}
    BY <1>1, <1>2, <2>2
  <2>. QED
    BY <1>1, <1>2, <1>7, <2>1, <2>2, <2>3 DEF Elements
<1>9. text[p] = 0 => ~(t > 0)
  BY <1>1 DEF t
<1>10. Cardinality({p} \X I) \in Nat /\ (text[p] = 0 => Cardinality({p} \X I) = 0)
  BY <1>2, <1>7, <1>9
<1>. HIDE DEF a, I
<1>11. \A e \in {p} \X I : /\ e \in Elements /\ e[1] = p
                           /\ e[2] <= a + Cardinality({p} \X I)
  BY <1>8
<1>. QED
  BY <1>3, <1>6, <1>10, <1>11 DEF a

\* What a diff of a document is: it takes out what the document has, and puts
\* in copies that were not made before.
LEMMA DiffProperties ==
  ASSUME NEW doc \in Docs, IsFiniteSet(doc.has), NEW text \in Texts,
         copies \in [Pieces -> Nat]
  PROVE  LET update == Diff(doc, text)
             count  == Counted(update)
         IN  /\ update \in Docs /\ Numbered(update, count)
             /\ update.gone \subseteq doc.has
             /\ count \in [Pieces -> Nat]
             /\ \A p \in Pieces : /\ copies[p] <= count[p]
                                  /\ text[p] = 0 => count[p] = copies[p]
<1>. DEFINE update == Diff(doc, text)
            count  == Counted(update)
            f      == [p \in Pieces |-> New(doc, text, p)]
            all    == {New(doc, text, p) : p \in Pieces}
<1>1. update.has = UNION all
  BY DEF Diff, New
<1>2. update.gone \subseteq doc.has
  BY DEF Diff, Live
<1>3. \A p \in Pieces : /\ IsFiniteSet(New(doc, text, p))
                        /\ Cardinality(New(doc, text, p)) \in Nat
                        /\ \A e \in New(doc, text, p) :
                             /\ e \in Elements /\ e[1] = p
                             /\ e[2] <= copies[p] + Cardinality(New(doc, text, p))
                        /\ text[p] = 0 => Cardinality(New(doc, text, p)) = 0
  BY NewCopies
<1>. HIDE DEF update
<1>4. IsFiniteSet(update.has)
  <2>1. IsFiniteSet(Pieces)
    BY FS_Interval, DocSyncAssumption DEF Pieces
  <2>2. f \in Surjection(Pieces, all)
    BY DEF Surjection
  <2>3. IsFiniteSet(all)
    BY <2>1, <2>2, FS_Surjection
  <2>4. \A T \in all : IsFiniteSet(T)
    BY <1>3
  <2>. QED
    BY <1>1, <2>3, <2>4, FS_UNION
<1>5. \A p \in Pieces : {e \in update.has : e[1] = p} = New(doc, text, p)
  BY <1>1, <1>3
<1>6. \A p \in Pieces : count[p] = copies[p] + Cardinality(New(doc, text, p))
  BY <1>5 DEF Counted
<1>7. count = [p \in Pieces |-> count[p]]
  BY DEF Counted
<1>. HIDE DEF count
<1>8. \A p \in Pieces : count[p] \in Nat
  BY <1>3, <1>6
<1>9. count \in [Pieces -> Nat]
  BY <1>7, <1>8
<1>10. \A p \in Pieces : copies[p] <= count[p] /\ (text[p] = 0 => count[p] = copies[p])
  BY <1>3, <1>6
<1>11. \A e \in update.has : e \in Elements /\ e[2] <= count[e[1]]
  BY <1>1, <1>3, <1>6
<1>12. update \in Docs
  <2>1. update = [has |-> update.has, gone |-> update.gone]
    BY DEF update, Diff
  <2>2. update.gone \in SUBSET Elements /\ update.has \in SUBSET Elements
    BY <1>2, <1>11 DEF Docs
  <2>. QED
    BY <2>1, <2>2 DEF Docs
<1>13. Numbered(update, count)
  BY <1>4, <1>11 DEF Numbered
<1>. QED
  BY <1>2, <1>9, <1>10, <1>12, <1>13 DEF update, count

-----------------------------------------------------------------------------
(* Messages.                                                               *)

LEMMA MessageType ==
  ASSUME NEW kind \in {"step1", "step2", "update"}, NEW doc \in Docs
  PROVE  /\ Message(kind, doc) \in Messages
         /\ Message(kind, doc).kind = kind /\ Message(kind, doc).doc = doc
BY DEF Message, Messages

LEMMA NoMessages ==
  ASSUME NEW doc, NEW count
  PROVE  SoundUp(doc, count, <<>>) /\ SoundDown(doc, <<>>) /\ <<>> \in Seq(Messages)
<1>1. \A i : i \notin 1..Len(<<>>)
  BY EmptySeq
<1>2. <<>> \in Seq(Messages)
  BY EmptySeq
<1>. QED
  BY <1>1, <1>2 DEF SoundUp, SoundDown

\* One summary on the way, in each direction.
LEMMA FirstMessage ==
  ASSUME NEW doc, NEW count
  PROVE  /\ SoundUp(doc, count, <<Message("step1", NoDoc)>>)
         /\ SoundDown(doc, <<Message("step1", NoDoc)>>)
         /\ <<Message("step1", NoDoc)>> \in Seq(Messages)
<1>. DEFINE m == Message("step1", NoDoc)
            s == <<m>>
<1>1. NoDoc \in Docs /\ Numbered(NoDoc, count)
  BY NoDocSound DEF SoundDoc
<1>2. m \in Messages /\ m.kind = "step1" /\ m.doc = NoDoc
  BY <1>1, MessageType
<1>. HIDE DEF m
<1>3. s \in Seq(Messages) /\ Len(s) = 1 /\ \A i \in 1..1 : s[i] = m
  BY <1>2
<1>4. NoDoc.has = {} /\ NoDoc.gone = {}
  BY DEF NoDoc
<1>. HIDE DEF s
<1>. QED
  BY <1>1, <1>2, <1>3, <1>4 DEF SoundUp, SoundDown, m, s

LEMMA HasAppend ==
  ASSUME NEW s \in Seq(Messages), NEW m \in Messages
  PROVE  /\ Append(s, m) \in Seq(Messages)
         /\ Has(Append(s, m)) = Has(s) \cup m.doc.has
         /\ Gone(Append(s, m)) = Gone(s) \cup m.doc.gone
<1>. DEFINE t == Append(s, m)
<1>1. /\ t \in Seq(Messages) /\ Len(t) = Len(s) + 1 /\ Len(s) \in Nat
      /\ t[Len(t)] = m /\ \A i \in 1..Len(s) : t[i] = s[i]
  BY AppendProperties, LenProperties
<1>. HIDE DEF t
<1>2. 1..Len(t) = 1..Len(s) \cup {Len(t)}
  BY <1>1
<1>3. Has(t) = Has(s) \cup m.doc.has
  BY <1>1, <1>2 DEF Has
<1>4. Gone(t) = Gone(s) \cup m.doc.gone
  BY <1>1, <1>2 DEF Gone
<1>. QED
  BY <1>1, <1>3, <1>4 DEF t

\* A message that takes out only what is there when it arrives may follow.
LEMMA UpAppend ==
  ASSUME NEW doc \in Docs, NEW count, NEW s \in Seq(Messages), SoundUp(doc, count, s),
         NEW m \in Messages, m.kind # "step1", Numbered(m.doc, count),
         m.doc.gone \subseteq doc.has \cup Has(s) \cup m.doc.has
  PROVE  SoundUp(doc, count, Append(s, m))
<1>. DEFINE t == Append(s, m)
<1>1. /\ Len(t) = Len(s) + 1 /\ Len(s) \in Nat
      /\ t[Len(t)] = m /\ \A i \in 1..Len(s) : t[i] = s[i]
  BY AppendProperties, LenProperties
<1>. HIDE DEF t
<1>2. SUFFICES ASSUME NEW i \in 1..Len(t)
               PROVE  /\ t[i].kind = "step1" => t[i].doc = NoDoc
                      /\ Numbered(t[i].doc, count)
                      /\ t[i].doc.gone \subseteq After(doc, t, i)
  BY DEF SoundUp, t
<1>3. CASE i = Len(t)
  <2>1. Has(s) \cup m.doc.has \subseteq UNION {t[j].doc.has : j \in 1..i}
    <3>1. 1..i = 1..Len(s) \cup {i}
      BY <1>1, <1>3
    <3>. QED
      BY <1>1, <1>3, <3>1 DEF Has
  <2>. QED
    BY <1>1, <1>3, <2>1 DEF After
<1>4. CASE i \in 1..Len(s)
  <2>1. \A j \in 1..i : j \in 1..Len(s)
    BY <1>1, <1>4
  <2>2. After(doc, t, i) = After(doc, s, i)
    BY <1>1, <2>1 DEF After
  <2>. QED
    BY <1>1, <1>4, <2>2 DEF SoundUp
<1>. QED
  BY <1>1, <1>3, <1>4

\* The first message arrives.
LEMMA UpTail ==
  ASSUME NEW doc \in Docs, NEW count, NEW s \in Seq(Messages), SoundUp(doc, count, s), s # <<>>
  PROVE  /\ Head(s) \in Messages /\ Tail(s) \in Seq(Messages)
         /\ Head(s).kind = "step1" => Head(s).doc = NoDoc
         /\ Numbered(Head(s).doc, count)
         /\ Head(s).doc.gone \subseteq doc.has \cup Head(s).doc.has
         /\ SoundUp(Merge(doc, Head(s).doc), count, Tail(s))
         /\ Has(s) = Head(s).doc.has \cup Has(Tail(s))
         /\ Gone(s) = Head(s).doc.gone \cup Gone(Tail(s))
<1>. DEFINE h == Head(s)
            t == Tail(s)
<1>1. /\ h \in Messages /\ t \in Seq(Messages) /\ h = s[1]
      /\ Len(s) \in Nat \ {0} /\ Len(t) = Len(s) - 1
      /\ \A i \in 1..Len(t) : t[i] = s[i + 1]
  BY HeadTailProperties, EmptySeq
<1>. HIDE DEF h, t
<1>2. 1 \in 1..Len(s) /\ \A i \in 1..Len(t) : i + 1 \in 1..Len(s) /\ i \in Nat
  BY <1>1
<1>3. \A i \in 1..Len(s) : i = 1 \/ \E j \in 1..Len(t) : s[i] = t[j]
  <2>1. \A i \in 1..Len(s) : i = 1 \/ (i - 1 \in 1..Len(t) /\ (i - 1) + 1 = i)
    BY <1>1
  <2>. QED
    BY <1>1, <2>1
<1>4. Has(s) = h.doc.has \cup Has(t)
  BY <1>1, <1>2, <1>3 DEF Has
<1>5. Gone(s) = h.doc.gone \cup Gone(t)
  BY <1>1, <1>2, <1>3 DEF Gone
<1>6. /\ h.kind = "step1" => h.doc = NoDoc
      /\ Numbered(h.doc, count)
      /\ h.doc.gone \subseteq After(doc, s, 1)
  BY <1>1, <1>2 DEF SoundUp
<1>7. After(doc, s, 1) = doc.has \cup h.doc.has
  <2>1. \A j \in 1..1 : j = 1
    OBVIOUS
  <2>2. 1 \in 1..1
    OBVIOUS
  <2>. QED
    BY <1>1, <2>1, <2>2 DEF After
<1>8. SoundUp(Merge(doc, h.doc), count, t)
  <2>1. SUFFICES ASSUME NEW i \in 1..Len(t)
                 PROVE  /\ t[i].kind = "step1" => t[i].doc = NoDoc
                        /\ Numbered(t[i].doc, count)
                        /\ t[i].doc.gone \subseteq After(Merge(doc, h.doc), t, i)
    BY DEF SoundUp
  <2>2. After(doc, s, i + 1) \subseteq After(Merge(doc, h.doc), t, i)
    <3>1. \A j \in 1..(i + 1) : j = 1 \/ \E k \in 1..i : s[j] = t[k]
      <4>1. \A j \in 1..(i + 1) :
              j = 1 \/ (j - 1 \in 1..i /\ j - 1 \in 1..Len(t) /\ (j - 1) + 1 = j)
        BY <1>1, <1>2
      <4>. QED
        BY <1>1, <4>1
    <3>2. Merge(doc, h.doc).has = doc.has \cup h.doc.has
      BY DEF Merge
    <3>3. ASSUME NEW j \in 1..(i + 1)
          PROVE  s[j].doc.has \subseteq h.doc.has \cup UNION {t[k].doc.has : k \in 1..i}
      <4>1. CASE j = 1
        BY <1>1, <4>1
      <4>2. CASE \E k \in 1..i : s[j] = t[k]
        BY <4>2
      <4>. QED
        BY <3>1, <4>1, <4>2
    <3>4. UNION {s[j].doc.has : j \in 1..(i + 1)} \subseteq
            h.doc.has \cup UNION {t[k].doc.has : k \in 1..i}
      BY <3>3
    <3>. QED
      BY <3>2, <3>4 DEF After
  <2>. QED
    BY <1>1, <1>2, <2>2 DEF SoundUp
<1>. QED
  BY <1>1, <1>4, <1>5, <1>6, <1>7, <1>8 DEF h, t

\* Other messages stay sound while the document and the counts grow.
LEMMA UpGrows ==
  ASSUME NEW doc \in Docs, NEW next \in Docs, NEW s \in Seq(Messages),
         NEW count \in [Pieces -> Nat], NEW more \in [Pieces -> Nat],
         SoundUp(doc, count, s), doc.has \subseteq next.has,
         \A p \in Pieces : count[p] <= more[p]
  PROVE  SoundUp(next, more, s)
<1>1. SUFFICES ASSUME NEW i \in 1..Len(s)
               PROVE  /\ s[i].kind = "step1" => s[i].doc = NoDoc
                      /\ Numbered(s[i].doc, more)
                      /\ s[i].doc.gone \subseteq After(next, s, i)
  BY DEF SoundUp
<1>2. s[i] \in Messages
  BY ElementOfSeq
<1>3. s[i].doc \in Docs
  BY <1>2 DEF Messages
<1>4. Numbered(s[i].doc, count) /\ s[i].doc.gone \subseteq After(doc, s, i)
      /\ (s[i].kind = "step1" => s[i].doc = NoDoc)
  BY DEF SoundUp
<1>5. Numbered(s[i].doc, more)
  BY <1>3, <1>4, NumberedGrows
<1>6. After(doc, s, i) \subseteq After(next, s, i)
  BY DEF After
<1>. QED
  BY <1>4, <1>5, <1>6

\* What the server tells is appended.
LEMMA DownAppend ==
  ASSUME NEW doc, NEW s \in Seq(Messages), SoundDown(doc, s), NEW m \in Messages,
         m.doc.has \subseteq doc.has, m.doc.gone \subseteq doc.gone
  PROVE  SoundDown(doc, Append(s, m)) /\ Append(s, m) \in Seq(Messages)
<1>. DEFINE t == Append(s, m)
<1>1. /\ t \in Seq(Messages) /\ Len(t) = Len(s) + 1 /\ Len(s) \in Nat
      /\ t[Len(t)] = m /\ \A i \in 1..Len(s) : t[i] = s[i]
  BY AppendProperties, LenProperties
<1>. HIDE DEF t
<1>2. \A i \in 1..Len(t) : i \in 1..Len(s) \/ i = Len(t)
  BY <1>1
<1>. QED
  BY <1>1, <1>2 DEF SoundDown, t

\* What the server told is taken.
LEMMA DownTail ==
  ASSUME NEW doc, NEW s \in Seq(Messages), SoundDown(doc, s), s # <<>>
  PROVE  /\ Head(s) \in Messages /\ Tail(s) \in Seq(Messages)
         /\ Head(s).doc.has \subseteq doc.has /\ Head(s).doc.gone \subseteq doc.gone
         /\ SoundDown(doc, Tail(s))
<1>. DEFINE h == Head(s)
            t == Tail(s)
<1>1. /\ h \in Messages /\ t \in Seq(Messages) /\ h = s[1]
      /\ Len(s) \in Nat \ {0} /\ Len(t) = Len(s) - 1
      /\ \A i \in 1..Len(t) : t[i] = s[i + 1]
  BY HeadTailProperties, EmptySeq
<1>. HIDE DEF h, t
<1>2. 1 \in 1..Len(s) /\ \A i \in 1..Len(t) : i + 1 \in 1..Len(s)
  BY <1>1
<1>. QED
  BY <1>1, <1>2 DEF SoundDown, h, t

LEMMA DownGrows ==
  ASSUME NEW doc, NEW next, NEW s, SoundDown(doc, s),
         doc.has \subseteq next.has, doc.gone \subseteq next.gone
  PROVE  SoundDown(next, s)
BY DEF SoundDown

-----------------------------------------------------------------------------
(* The steps.                                                              *)

\* The types without what they say of documents, which is part of DocsInv.
Flat ==
  /\ file \in Texts \cup {Absent} /\ entry \in Texts \cup {None}
  /\ timer \in BOOLEAN
  /\ main \in {"initial", "connect", "watch", "final", "ended"}
  /\ cycle \in [at : {"off", "read", "decide", "write", "update", "send", "record"}, text : Texts]
  /\ queued \in BOOLEAN /\ sent \in Texts \cup {None} /\ writing \in BOOLEAN
  /\ copies \in [Pieces -> Nat]
  /\ link \in [at : {"off", "down", "shake", "up"}, connected : BOOLEAN,
               wire : BOOLEAN, got : SUBSET {"step1", "step2"}]
  /\ up \in Seq(Messages) /\ down \in Seq(Messages)
  /\ edits \in 0..MaxEvents /\ breaks \in 0..MaxEvents
  /\ given \subseteq Pieces /\ unaware \in BOOLEAN

LEMMA TypeFlat == TypeOK => Flat
BY DEF Flat, TypeOK

LEMMA NextIsInv == Flat' /\ DocsInv' /\ Fresh' /\ Turns' /\ Heard' => IInv'
BY DEF Flat, DocsInv, TypeOK, SoundDoc, SoundReplica, Numbered, Heard, IInv

LEMMA BlankText == Blank \in Texts /\ \A p \in Pieces : Blank[p] = 0
BY DEF Blank, Texts

\* Steps that touch no document and no message, and of the connection only
\* where its coroutine is.
LEMMA DocsSame ==
  ASSUME DocsInv, UNCHANGED <<server, replica, wires>>, HasTold(link') => HasTold(link)
  PROVE  DocsInv'
BY DEF DocsInv, server, wires

\* A cycle ends.
LEMMA CycleEndsTurns ==
  ASSUME Flat, Turns, cycle.at # "off", CycleEnds
  PROVE  /\ cycle' \in [at : {"off", "read", "decide", "write", "update", "send", "record"}, text : Texts]
         /\ main' \in {"initial", "connect", "watch", "final", "ended"}
         /\ link' \in [at : {"off", "down", "shake", "up"}, connected : BOOLEAN,
                       wire : BOOLEAN, got : SUBSET {"step1", "step2"}]
         /\ \A p \in Pieces : cycle'.text[p] = 0
         /\ HasTold(link') => HasTold(link)
         /\ Turns'
<1>1. main \in {"initial", "watch", "final"}
  BY DEF Turns
<1>2. cycle' = [at |-> "off", text |-> Blank]
  BY DEF CycleEnds, Idle
<1>3. /\ main = "initial" => main' = "connect" /\ link' = [link EXCEPT !.at = "down"]
      /\ main = "watch" => main' = "watch" /\ link' = link
      /\ main = "final" => main' = "ended" /\ link' = link
  BY <1>1 DEF CycleEnds
<1>4. main = "initial" => ~link.connected
  BY DEF Turns
<1>. QED
  BY <1>1, <1>2, <1>3, <1>4, BlankText DEF Flat, Turns, HasTold

LEMMA CycleReadStep ==
  ASSUME IInv, Heard', CycleRead
  PROVE  IInv'
<1>1. Flat /\ DocsInv /\ Fresh /\ Turns
  BY TypeFlat DEF IInv
<1>2. TextOf(cloud) \in Texts
  BY <1>1, TextOfType DEF DocsInv, SoundDoc, Numbered
<1>3. \A p \in Pieces : p > edits => TextOf(cloud)[p] = 0
  BY <1>1, TextOfFresh DEF DocsInv, SoundDoc, Fresh
<1>4. /\ \/ cycle' = [at |-> "decide", text |-> TextOf(cloud)]
         \/ cycle' = [at |-> "decide", text |-> Blank]
      /\ breaks' = breaks \/ (MayHappen /\ breaks' = breaks + 1)
  BY DEF CycleRead
<1>5. UNCHANGED <<local, main, queued, sent, writing, server, replica, link, wires,
                  edits, given, unaware>>
  BY DEF CycleRead
<1>6. DocsInv'
  BY <1>1, <1>5, DocsSame
<1>7. breaks' \in 0..MaxEvents
  BY <1>1, <1>4, DocSyncAssumption DEF MayHappen, Flat
<1>8. cycle' \in [at : {"decide"}, text : Texts] /\ \A p \in Pieces : p > edits => cycle'.text[p] = 0
  BY <1>2, <1>3, <1>4, BlankText
<1>9. Flat'
  BY <1>1, <1>5, <1>7, <1>8 DEF Flat, local, server, wires
<1>10. Fresh'
  BY <1>1, <1>5, <1>8 DEF Fresh, local, server
<1>11. cycle.at # "off"
  BY DEF CycleRead
<1>12. Turns'
  BY <1>1, <1>5, <1>11 DEF Turns
<1>. QED
  BY <1>6, <1>9, <1>10, <1>12, NextIsInv

\* A file or a record is chosen to be transferred, and nothing else happens.
LEMMA TransfersStep ==
  ASSUME IInv, Heard', PushFirst \/ PushUpdate
  PROVE  IInv'
<1>1. Flat /\ DocsInv /\ Fresh /\ Turns
  BY TypeFlat DEF IInv
<1>2. PICK how \in {"write", "update"} : Transfers(how)
  BY DEF PushFirst, PushUpdate
<1>3. cycle' = [at |-> how, text |-> file]
      /\ UNCHANGED <<local, main, queued, sent, writing, server, replica, link, wires, history>>
  BY <1>2 DEF Transfers
<1>4. file # Absent /\ cycle.at # "off"
  BY DEF PushFirst, PushUpdate, Both, Deciding
<1>5. file \in Texts
  BY <1>1, <1>4 DEF Flat
<1>6. DocsInv'
  BY <1>1, <1>3, DocsSame
<1>7. Flat'
  BY <1>1, <1>3, <1>5 DEF Flat, local, server, wires, history
<1>8. Fresh'
  BY <1>1, <1>3, <1>4 DEF Fresh, local, server, history
<1>9. Turns'
  BY <1>1, <1>3, <1>4 DEF Turns
<1>. QED
  BY <1>6, <1>7, <1>8, <1>9, NextIsInv

LEMMA HandshakeStep ==
  ASSUME IInv, Heard', Handshake
  PROVE  IInv'
<1>1. Flat /\ DocsInv /\ Fresh /\ Turns
  BY TypeFlat DEF IInv
<1>2. /\ cycle.at = "update" /\ cycle' = [cycle EXCEPT !.at = "send"]
      /\ UNCHANGED <<local, main, queued, sent, writing, server, replica, link, wires,
                     edits, given, unaware>>
      /\ breaks' = breaks \/ (MayHappen /\ breaks' = breaks + 1)
  BY DEF Handshake
<1>3. DocsInv'
  BY <1>1, <1>2, DocsSame
<1>4. breaks' \in 0..MaxEvents
  BY <1>1, <1>2, DocSyncAssumption DEF MayHappen, Flat
<1>5. cycle' \in [at : {"send"}, text : Texts] /\ cycle'.text = cycle.text
  BY <1>1, <1>2 DEF Flat
<1>6. Flat'
  BY <1>1, <1>2, <1>4, <1>5 DEF Flat, local, server, wires
<1>7. Fresh'
  BY <1>1, <1>2, <1>5 DEF Fresh, local, server
<1>8. Turns'
  BY <1>1, <1>2 DEF Turns
<1>. QED
  BY <1>3, <1>6, <1>7, <1>8, NextIsInv

\* A cycle ends with what it decided, or with its record.
LEMMA CycleEndStep ==
  ASSUME IInv, Heard', Pull \/ Adopt \/ Leave \/ Record
  PROVE  IInv'
<1>1. Flat /\ DocsInv /\ Fresh /\ Turns
  BY TypeFlat DEF IInv
<1>2. /\ CycleEnds /\ cycle.at # "off"
      /\ UNCHANGED <<queued, sent, writing, server, replica, wires, history>>
  BY DEF Pull, Adopt, Leave, Record, Deciding, local
<1>3. /\ file' \in {file, cycle.text} /\ entry' \in {entry, cycle.text} \cup ({file} \ {Absent})
      /\ timer' \in BOOLEAN
  <2>1. CASE Pull
    BY <1>1, <2>1 DEF Pull, Flat, Watching
  <2>2. CASE Adopt
    BY <1>1, <2>2 DEF Adopt, Flat
  <2>3. CASE Leave
    BY <1>1, <2>3 DEF Leave, Flat, local
  <2>4. CASE Record
    BY <1>1, <2>4 DEF Record, Flat
  <2>. QED
    BY <2>1, <2>2, <2>3, <2>4
<1>4. cycle.text \in Texts
  BY <1>1 DEF Flat
<1>5. file' \in Texts \cup {Absent} /\ entry' \in Texts \cup {None}
  BY <1>1, <1>3, <1>4 DEF Flat
<1>6. /\ cycle' \in [at : {"off", "read", "decide", "write", "update", "send", "record"}, text : Texts]
      /\ main' \in {"initial", "connect", "watch", "final", "ended"}
      /\ link' \in [at : {"off", "down", "shake", "up"}, connected : BOOLEAN,
                    wire : BOOLEAN, got : SUBSET {"step1", "step2"}]
      /\ \A p \in Pieces : cycle'.text[p] = 0
      /\ HasTold(link') => HasTold(link)
      /\ Turns'
  BY <1>1, <1>2, CycleEndsTurns
<1>7. DocsInv'
  BY <1>1, <1>2, <1>6, DocsSame
<1>8. Flat'
  BY <1>1, <1>2, <1>3, <1>5, <1>6 DEF Flat, server, wires, history
<1>9. Fresh'
  BY <1>1, <1>2, <1>3, <1>6 DEF Fresh, server, history
<1>. QED
  BY <1>6, <1>7, <1>8, <1>9, NextIsInv

\* Steps of the watcher, of the main loop and of the user, which touch no
\* document.
LEMMA LocalStep ==
  ASSUME IInv, Heard', Written \/ Fire \/ PushRecorded \/ BeginWatch \/ Poll
  PROVE  IInv'
<1>1. Flat /\ DocsInv /\ Fresh /\ Turns
  BY TypeFlat DEF IInv
<1>2. UNCHANGED <<server, replica, link, wires, edits, breaks, given>>
  BY DEF Written, Fire, PushRecorded, BeginWatch, Poll, history
<1>3. DocsInv'
  BY <1>1, <1>2, DocsSame
<1>4. CASE Written
  <2>1. TextOf(replica) \in Texts
    BY <1>1, TextOfType DEF DocsInv, SoundReplica, Numbered
  <2>2. \A p \in Pieces : p > edits => TextOf(replica)[p] = 0
    BY <1>1, TextOfFresh DEF DocsInv, SoundReplica, Fresh
  <2>3. Flat'
    BY <1>1, <1>4, <2>1 DEF Flat, Written, Watching, server, wires, history
  <2>4. Fresh'
    BY <1>1, <1>4, <2>2 DEF Fresh, Written, server, history
  <2>5. Turns'
    BY <1>1, <1>4 DEF Turns, Written
  <2>. QED
    BY <1>3, <2>3, <2>4, <2>5, NextIsInv
<1>5. CASE Fire
  <2>3. queued' \in BOOLEAN /\ timer' \in BOOLEAN
    BY <1>5 DEF Fire
  <2>1. Flat'
    BY <1>1, <1>5, <2>3 DEF Flat, Fire, server, wires, history
  <2>2. Fresh' /\ Turns'
    BY <1>1, <1>5 DEF Fresh, Turns, Fire, server, history
  <2>. QED
    BY <1>3, <2>1, <2>2, NextIsInv
<1>6. CASE PushRecorded
  <2>1. Flat'
    BY <1>1, <1>6 DEF Flat, PushRecorded, server, wires, history
  <2>2. Fresh' /\ Turns'
    BY <1>1, <1>6 DEF Fresh, Turns, PushRecorded, server, history
  <2>. QED
    BY <1>3, <2>1, <2>2, NextIsInv
<1>7. CASE BeginWatch
  <2>1. Flat'
    BY <1>1, <1>7 DEF Flat, BeginWatch, Unaware, local, server, wires
  <2>2. Fresh' /\ Turns'
    BY <1>1, <1>7 DEF Fresh, Turns, BeginWatch, local, server
  <2>. QED
    BY <1>3, <2>1, <2>2, NextIsInv
<1>8. CASE Poll
  <2>1. cycle' = [at |-> "read", text |-> Blank]
    BY <1>8 DEF Poll, Idle
  <2>2. Flat'
    BY <1>1, <1>8, <2>1, BlankText DEF Flat, Poll, local, server, wires, history
  <2>3. Fresh' /\ Turns'
    BY <1>1, <1>8, <2>1, BlankText DEF Fresh, Turns, Poll, Watching, local, server, history
  <2>. QED
    BY <1>3, <2>2, <2>3, NextIsInv
<1>. QED
  BY <1>4, <1>5, <1>6, <1>7, <1>8

\* The user saves or removes the file; a piece that is put in has the number
\* of its edit.
LEMMA UserStep ==
  ASSUME IInv, Heard', UserSave \/ UserRemove
  PROVE  IInv'
<1>1. Flat /\ DocsInv /\ Fresh /\ Turns
  BY TypeFlat DEF IInv
<1>2. /\ UNCHANGED <<entry, program, server, replica, link, wires, breaks, unaware>>
      /\ edits' = edits + 1 /\ MayHappen
  BY DEF UserSave, UserRemove, Saved
<1>3. edits' \in 0..MaxEvents /\ edits' \in Pieces /\ edits \in Nat
  BY <1>1, <1>2, DocSyncAssumption DEF MayHappen, Flat, Pieces
<1>4. DocsInv'
  BY <1>1, <1>2, DocsSame
<1>5. file' \in Texts \cup {Absent} /\ timer' \in BOOLEAN /\ given' \subseteq Pieces
  <2>1. CASE UserRemove
    BY <1>1, <2>1 DEF UserRemove, Flat
  <2>2. CASE UserSave
    <3>1. file \in Texts
      BY <1>1, <2>2 DEF UserSave, Flat
    <3>2. \A p \in Pieces : /\ [file EXCEPT ![p] = 0] \in Texts
                            /\ [file EXCEPT ![p] = 1] \in Texts
      BY <3>1 DEF Texts
    <3>. QED
      BY <1>1, <1>3, <2>2, <3>2 DEF UserSave, Saved, Flat, Watching
  <2>. QED
    BY <2>1, <2>2
<1>6. file' # Absent => \A p \in Pieces : p > edits' => file'[p] = 0
  <2>1. CASE UserRemove
    BY <2>1 DEF UserRemove
  <2>2. CASE UserSave
    <3>1. file \in [Pieces -> Nat]
      BY <1>1, <2>2 DEF UserSave, Flat, Texts
    <3>2. \A p \in Pieces : p > edits' => file[p] = 0 /\ p # edits'
      BY <1>1, <1>2, <1>3, <2>2 DEF Fresh, UserSave, Pieces
    <3>. QED
      BY <2>2, <3>1, <3>2 DEF UserSave, Saved
  <2>. QED
    BY <2>1, <2>2
<1>7. Flat'
  BY <1>1, <1>2, <1>3, <1>5 DEF Flat, program, server, wires
<1>8. Fresh'
  <2>1. \A p \in Pieces : p > edits' => p > edits
    BY <1>2, <1>3 DEF Pieces
  <2>. QED
    BY <1>1, <1>2, <1>6, <2>1 DEF Fresh, program, server
<1>9. Turns'
  BY <1>1, <1>2 DEF Turns, program
<1>. QED
  BY <1>4, <1>7, <1>8, <1>9, NextIsInv

\* The document takes in an update and tells what it gained.
LEMMA CloudTakesSound ==
  ASSUME NEW count, NEW update \in Docs,
         SoundDoc(cloud, count), SoundDown(cloud, down), down \in Seq(Messages),
         Numbered(update, count), update.gone \subseteq cloud.has \cup update.has,
         CloudTakes(update)
  PROVE  /\ cloud' = Merge(cloud, update)
         /\ SoundDoc(cloud', count)
         /\ cloud'.has = cloud.has \cup update.has
         /\ cloud'.gone = cloud.gone \cup update.gone
         /\ down' \in Seq(Messages) /\ SoundDown(cloud', down')
<1>. DEFINE gained == Gained(cloud, update)
<1>1. /\ cloud' = Merge(cloud, update)
      /\ down' = Append(down, Message("update", gained)) \/ down' = down
  BY DEF CloudTakes
<1>2. cloud'.has = cloud.has \cup update.has /\ cloud'.gone = cloud.gone \cup update.gone
  BY <1>1 DEF Merge
<1>3. cloud' \in Docs /\ Numbered(cloud', count)
  BY <1>1, MergeNumbered DEF SoundDoc
<1>4. SoundDoc(cloud', count)
  BY <1>2, <1>3 DEF SoundDoc
<1>5. SoundDown(cloud', down)
  BY <1>2, DownGrows
<1>6. /\ gained \in Docs
      /\ gained.has \subseteq update.has /\ gained.gone \subseteq update.gone
  BY GainedDoc DEF SoundDoc
<1>. HIDE DEF gained
<1>7. /\ Message("update", gained) \in Messages
      /\ Message("update", gained).doc = gained
  BY <1>6, MessageType
<1>8. /\ SoundDown(cloud', Append(down, Message("update", gained)))
      /\ Append(down, Message("update", gained)) \in Seq(Messages)
  BY <1>2, <1>5, <1>6, <1>7, DownAppend
<1>. QED
  BY <1>1, <1>2, <1>4, <1>5, <1>8

\* The server takes the next message.
LEMMA ServerStep ==
  ASSUME IInv, Heard', ServerReceives
  PROVE  IInv'
<1>1. Flat /\ DocsInv /\ Fresh /\ Turns
  BY TypeFlat DEF IInv
<1>. DEFINE doc == Head(up).doc
<1>2. /\ up # <<>> /\ up' = Tail(up)
      /\ UNCHANGED <<local, program, copies, replica, link, history>>
  BY DEF ServerReceives
<1>3. up \in Seq(Messages) /\ down \in Seq(Messages) /\ cloud \in Docs
  BY <1>1 DEF Flat, DocsInv, SoundDoc
<1>4. /\ Head(up) \in Messages /\ up' \in Seq(Messages)
      /\ Head(up).kind = "step1" => doc = NoDoc
      /\ Numbered(doc, copies)
      /\ doc.gone \subseteq cloud.has \cup doc.has
      /\ SoundUp(Merge(cloud, doc), copies, up')
      /\ Has(up) = doc.has \cup Has(up') /\ Gone(up) = doc.gone \cup Gone(up')
  BY <1>1, <1>2, <1>3, UpTail DEF DocsInv
<1>5. doc \in Docs
  BY <1>4 DEF Messages
<1>6. /\ cloud' = Merge(cloud, doc) /\ SoundDoc(cloud', copies)
      /\ down' \in Seq(Messages) /\ SoundDown(cloud', down')
  <2>1. CASE Head(up).kind = "step1"
    <3>1. down' = Append(down, Message("step2", cloud)) /\ cloud' = cloud
      BY <2>1 DEF ServerReceives
    <3>2. Message("step2", cloud) \in Messages /\ Message("step2", cloud).doc = cloud
      BY <1>3, MessageType
    <3>3. SoundDown(cloud, down') /\ down' \in Seq(Messages)
      BY <1>1, <1>3, <3>1, <3>2, DownAppend DEF DocsInv
    <3>4. Merge(cloud, NoDoc) = cloud
      BY <1>3 DEF Merge, NoDoc, Docs
    <3>. QED
      BY <1>1, <1>4, <2>1, <3>1, <3>3, <3>4 DEF DocsInv
  <2>2. CASE Head(up).kind # "step1"
    <3>1. CloudTakes(doc)
      BY <2>2 DEF ServerReceives
    <3>. QED
      BY <1>1, <1>3, <1>4, <1>5, <3>1, CloudTakesSound DEF DocsInv
  <2>. QED
    BY <2>1, <2>2
<1>. HIDE DEF doc
<1>7. cloud'.has = cloud.has \cup doc.has /\ cloud'.gone = cloud.gone \cup doc.gone
  BY <1>6 DEF Merge
<1>8. SoundReplica(replica, cloud', copies)
  BY <1>1, <1>7 DEF DocsInv, SoundReplica
<1>9. HasTold(link) => Told(replica, cloud', up')
  BY <1>1, <1>4, <1>7 DEF DocsInv, Told
<1>10. DocsInv'
  BY <1>2, <1>4, <1>6, <1>8, <1>9 DEF DocsInv
<1>11. Flat'
  BY <1>1, <1>2, <1>4, <1>6 DEF Flat, local, program, history
<1>12. Fresh' /\ Turns'
  BY <1>1, <1>2 DEF Fresh, Turns, local, program, history
<1>. QED
  BY <1>10, <1>11, <1>12, NextIsInv

\* The document gets an update that no message brought, with copies that were
\* just counted: what is on the way stays sound.
LEMMA CloudGains ==
  ASSUME Flat, DocsInv, NEW update \in Docs, CloudTakes(update),
         copies' \in [Pieces -> Nat], \A p \in Pieces : copies[p] <= copies'[p],
         Numbered(update, copies'), update.gone \subseteq cloud.has \cup update.has,
         UNCHANGED <<replica, link, up>>
  PROVE  DocsInv' /\ down' \in Seq(Messages)
<1>1. /\ cloud \in Docs /\ replica \in Docs /\ copies \in [Pieces -> Nat]
      /\ up \in Seq(Messages) /\ down \in Seq(Messages)
  BY DEF Flat, DocsInv, SoundDoc, SoundReplica
<1>2. SoundDoc(cloud, copies')
  BY <1>1, NumberedGrows DEF DocsInv, SoundDoc
<1>3. /\ SoundDoc(cloud', copies')
      /\ cloud'.has = cloud.has \cup update.has
      /\ cloud'.gone = cloud.gone \cup update.gone
      /\ down' \in Seq(Messages) /\ SoundDown(cloud', down')
  BY <1>1, <1>2, CloudTakesSound DEF DocsInv
<1>4. Numbered(replica, copies')
  BY <1>1, NumberedGrows DEF DocsInv, SoundReplica
<1>5. SoundReplica(replica, cloud', copies')
  BY <1>3, <1>4 DEF DocsInv, SoundReplica
<1>6. cloud' \in Docs
  BY <1>3 DEF SoundDoc
<1>7. SoundUp(cloud', copies', up)
  BY <1>1, <1>3, <1>6, UpGrows DEF DocsInv
<1>8. HasTold(link) => Told(replica, cloud', up)
  BY <1>3 DEF DocsInv, Told
<1>. QED
  BY <1>3, <1>5, <1>7, <1>8 DEF DocsInv

\* A web user's edit: the piece it puts in is the first of its number.
LEMMA WebEditStep ==
  ASSUME IInv, Heard', WebEdit
  PROVE  IInv'
<1>1. Flat /\ DocsInv /\ Fresh /\ Turns
  BY TypeFlat DEF IInv
<1>2. /\ MayHappen /\ edits' = edits + 1
      /\ UNCHANGED <<local, program, replica, link, up, breaks, unaware>>
  BY DEF WebEdit
<1>3. edits' \in 0..MaxEvents /\ edits' \in Pieces /\ edits \in Nat
  BY <1>1, <1>2, DocSyncAssumption DEF MayHappen, Flat, Pieces
<1>4. cloud \in Docs /\ copies \in [Pieces -> Nat] /\ \A p \in Pieces : copies[p] \in Nat
  BY <1>1 DEF Flat, DocsInv, SoundDoc
<1>5. /\ DocsInv' /\ down' \in Seq(Messages)
      /\ copies' \in [Pieces -> Nat]
      /\ \A p \in Pieces : p > edits' => copies'[p] = copies[p]
      /\ given' \subseteq Pieces
  <2>1. CASE /\ CloudTakes([has |-> {<<edits', 1>>}, gone |-> {}])
             /\ copies' = [copies EXCEPT ![edits'] = 1]
             /\ given' = IF Watching THEN given \cup {edits'} ELSE given
    <3>. DEFINE update == [has |-> {<<edits', 1>>}, gone |-> {}]
    <3>1. update \in Docs
      BY <1>3 DEF Docs, Elements
    <3>2. copies[edits'] = 0
      BY <1>1, <1>2, <1>3 DEF Fresh, Pieces
    <3>3. copies' \in [Pieces -> Nat] /\ \A p \in Pieces : copies[p] <= copies'[p]
      <4>1. \A p \in Pieces : copies'[p] = IF p = edits' THEN 1 ELSE copies[p]
        BY <1>4, <2>1
      <4>2. copies' \in [Pieces -> Nat]
        BY <1>4, <2>1
      <4>. QED
        BY <1>4, <3>2, <4>1, <4>2
    <3>4. \A p \in Pieces : p > edits' => copies'[p] = copies[p]
      BY <1>3, <1>4, <2>1 DEF Pieces
    <3>5. copies'[edits'] = 1
      BY <1>3, <1>4, <2>1
    <3>6. Numbered(update, copies')
      <4>1. IsFiniteSet(update.has)
        BY FS_Singleton
      <4>2. \A e \in update.has : e[1] = edits' /\ e[2] = 1
        OBVIOUS
      <4>3. \A e \in update.has : e[2] <= copies'[e[1]]
        BY <3>5, <4>2
      <4>. QED
        BY <4>1, <4>3 DEF Numbered
    <3>7. update.gone \subseteq cloud.has \cup update.has
      OBVIOUS
    <3>8. CloudTakes(update)
      BY <2>1
    <3>. HIDE DEF update
    <3>9. DocsInv' /\ down' \in Seq(Messages)
      BY <1>1, <1>2, <3>1, <3>3, <3>6, <3>7, <3>8, CloudGains
    <3>10. given' \subseteq Pieces
      BY <1>1, <1>3, <2>1 DEF Flat
    <3>. QED
      BY <3>3, <3>4, <3>9, <3>10
  <2>2. ASSUME NEW p \in Pieces,
               CloudTakes([has |-> {}, gone |-> {e \in Live(cloud) : e[1] = p}]),
               given' = given \ {p}, copies' = copies
        PROVE  DocsInv' /\ down' \in Seq(Messages) /\ given' \subseteq Pieces
    <3>. DEFINE update == [has |-> {}, gone |-> {e \in Live(cloud) : e[1] = p}]
    <3>1. update \in Docs /\ update.gone \subseteq cloud.has \cup update.has
      BY <1>4 DEF Docs, Live
    <3>2. Numbered(update, copies')
      BY FS_EmptySet DEF Numbered
    <3>3. \A q \in Pieces : copies[q] <= copies'[q]
      BY <1>4, <2>2
    <3>4. CloudTakes(update) /\ copies' \in [Pieces -> Nat]
      BY <1>4, <2>2
    <3>. HIDE DEF update
    <3>5. DocsInv' /\ down' \in Seq(Messages)
      BY <1>1, <1>2, <3>1, <3>2, <3>3, <3>4, CloudGains
    <3>. QED
      BY <1>1, <2>2, <3>5 DEF Flat
  <2>. QED
    BY <1>4, <2>1, <2>2 DEF WebEdit
<1>6. Flat'
  BY <1>1, <1>2, <1>3, <1>5 DEF Flat, local, program
<1>7. Fresh'
  <2>1. \A p \in Pieces : p > edits' => p > edits
    BY <1>2, <1>3 DEF Pieces
  <2>. QED
    BY <1>1, <1>2, <1>5, <2>1 DEF Fresh, local, program
<1>8. Turns'
  BY <1>1, <1>2 DEF Turns, program
<1>. QED
  BY <1>5, <1>6, <1>7, <1>8, NextIsInv

\* A cycle's transfer, which may fail: a diff of what was heard of the document.
LEMMA TransferStep ==
  ASSUME IInv, Heard', Transfer
  PROVE  IInv'
<1>1. Flat /\ DocsInv /\ Fresh /\ Turns
  BY TypeFlat DEF IInv
<1>2. /\ cycle.at \in {"write", "update", "send"} /\ cycle' = [cycle EXCEPT !.at = "record"]
      /\ UNCHANGED <<local, main, queued, sent, writing, replica, link, up, edits,
                     given, unaware>>
  BY DEF Transfer
<1>3. cycle.text \in Texts /\ cloud \in Docs /\ copies \in [Pieces -> Nat]
  BY <1>1 DEF Flat, DocsInv, SoundDoc
<1>4. /\ DocsInv' /\ down' \in Seq(Messages) /\ copies' \in [Pieces -> Nat]
      /\ \A p \in Pieces : cycle.text[p] = 0 => copies'[p] = copies[p]
      /\ breaks' \in 0..MaxEvents
  <2>. DEFINE update == Diff(heard, cycle.text)
  <2>1. CASE CloudTakes(update) /\ copies' = Counted(update) /\ breaks' = breaks
    <3>1. heard \in Docs /\ IsFiniteSet(heard.has) /\ heard.has \subseteq cloud.has
      <4>1. IsFiniteSet(cloud.has)
        BY <1>1 DEF DocsInv, SoundDoc, Numbered
      <4>. QED
        BY <4>1, FS_Subset DEF IInv, Heard
    <3>2. /\ update \in Docs /\ Numbered(update, copies') /\ update.gone \subseteq heard.has
          /\ copies' \in [Pieces -> Nat]
          /\ \A p \in Pieces : /\ copies[p] <= copies'[p]
                               /\ cycle.text[p] = 0 => copies'[p] = copies[p]
      BY <1>3, <2>1, <3>1, DiffProperties
    <3>. HIDE DEF update
    <3>3. update.gone \subseteq cloud.has \cup update.has
      BY <3>1, <3>2
    <3>4. DocsInv' /\ down' \in Seq(Messages)
      BY <1>1, <1>2, <2>1, <3>2, <3>3, CloudGains
    <3>. QED
      BY <1>1, <2>1, <3>2, <3>4 DEF Flat
  <2>2. CASE /\ UNCHANGED <<cloud, copies, down>>
             /\ breaks' = breaks \/ (MayHappen /\ breaks' = breaks + 1)
    <3>1. DocsInv'
      BY <1>1, <1>2, <2>2 DEF DocsInv
    <3>2. breaks' \in 0..MaxEvents
      BY <1>1, <2>2, DocSyncAssumption DEF MayHappen, Flat
    <3>. QED
      BY <1>1, <2>2, <3>1, <3>2 DEF Flat
  <2>. QED
    BY <2>1, <2>2 DEF Transfer
<1>5. cycle' \in [at : {"record"}, text : Texts] /\ cycle'.text = cycle.text
  BY <1>1, <1>2 DEF Flat
<1>6. Flat'
  BY <1>1, <1>2, <1>4, <1>5 DEF Flat, local
<1>7. Fresh'
  BY <1>1, <1>2, <1>4, <1>5 DEF Fresh, local
<1>8. Turns'
  BY <1>1, <1>2 DEF Turns
<1>. QED
  BY <1>4, <1>6, <1>7, <1>8, NextIsInv

\* The connection is opened.
LEMMA ConnectStep ==
  ASSUME IInv, Heard', Connect
  PROVE  IInv'
<1>1. Flat /\ DocsInv /\ Fresh /\ Turns
  BY TypeFlat DEF IInv
<1>2. /\ link.at = "down" /\ link' = [link EXCEPT !.at = "shake", !.wire = TRUE, !.got = {}]
      /\ up' = <<Message("step1", NoDoc)>> /\ down' = <<Message("step1", NoDoc)>>
      /\ UNCHANGED <<local, program, server, replica, history>>
  BY DEF Connect
<1>3. ~link.connected
  BY <1>1, <1>2 DEF Turns
<1>4. /\ link' \in [at : {"off", "down", "shake", "up"}, connected : BOOLEAN,
                    wire : BOOLEAN, got : SUBSET {"step1", "step2"}]
      /\ link'.at = "shake" /\ link'.got = {} /\ ~link'.connected
  BY <1>1, <1>2, <1>3 DEF Flat
<1>5. /\ SoundUp(cloud, copies, up') /\ SoundDown(cloud, down')
      /\ up' \in Seq(Messages) /\ down' \in Seq(Messages)
  BY <1>2, FirstMessage
<1>6. ~HasTold(link')
  BY <1>4 DEF HasTold
<1>7. DocsInv'
  BY <1>1, <1>2, <1>5, <1>6 DEF DocsInv, server
<1>8. Flat'
  BY <1>1, <1>2, <1>4, <1>5 DEF Flat, local, program, server, history
<1>9. Fresh'
  BY <1>1, <1>2 DEF Fresh, local, program, server, history
<1>10. Turns'
  BY <1>1, <1>2, <1>4 DEF Turns, program
<1>. QED
  BY <1>7, <1>8, <1>9, <1>10, NextIsInv

\* The replica takes in what the server told: that needs telling nobody.
LEMMA ReplicaTakes ==
  ASSUME DocsInv, NEW doc \in Docs, copies \in [Pieces -> Nat], up \in Seq(Messages),
         doc.has \subseteq cloud.has, doc.gone \subseteq cloud.gone
  PROVE  /\ SoundReplica(Merge(replica, doc), cloud, copies)
         /\ \A s : Told(replica, cloud, s) => Told(Merge(replica, doc), cloud, s)
<1>. DEFINE next == Merge(replica, doc)
<1>1. next.has = replica.has \cup doc.has /\ next.gone = replica.gone \cup doc.gone
  BY DEF Merge
<1>2. IsFiniteSet(doc.has)
  BY FS_Subset DEF DocsInv, SoundDoc, Numbered
<1>3. Numbered(doc, copies)
  BY <1>2 DEF DocsInv, SoundDoc, Numbered
<1>4. next \in Docs /\ Numbered(next, copies)
  BY <1>3, MergeNumbered DEF DocsInv, SoundReplica
<1>5. next.gone \subseteq cloud.has \cup next.has
  BY <1>1 DEF DocsInv, SoundReplica, SoundDoc
<1>. HIDE DEF next
<1>6. \A s : Told(replica, cloud, s) => Told(next, cloud, s)
  BY <1>1 DEF Told
<1>. QED
  BY <1>4, <1>5, <1>6 DEF next, SoundReplica

\* The handshake: the summary of the server is answered with the whole replica.
LEMMA ShakeStep ==
  ASSUME IInv, Heard', Shake
  PROVE  IInv'
<1>1. Flat /\ DocsInv /\ Fresh /\ Turns
  BY TypeFlat DEF IInv
<1>. DEFINE message == Head(down)
            got     == link.got \cup ({message.kind} \ {"update"})
            done    == got = {"step1", "step2"}
<1>2. /\ link.at = "shake" /\ down # <<>> /\ down' = Tail(down)
      /\ up' = IF message.kind = "step1" THEN Append(up, Message("step2", replica)) ELSE up
      /\ replica' = IF message.kind = "step1" THEN replica ELSE Merge(replica, message.doc)
      /\ link' = IF done THEN [link EXCEPT !.at = "up", !.connected = TRUE]
                 ELSE [link EXCEPT !.got = got]
      /\ UNCHANGED <<local, program, server, edits, breaks, given>>
      /\ unaware' \in BOOLEAN
  BY <1>1 DEF Shake, Unaware, Flat
<1>3. /\ up \in Seq(Messages) /\ down \in Seq(Messages) /\ cloud \in Docs /\ replica \in Docs
      /\ copies \in [Pieces -> Nat]
  BY <1>1 DEF Flat, DocsInv, SoundDoc, SoundReplica
<1>4. /\ message \in Messages /\ down' \in Seq(Messages) /\ SoundDown(cloud, down')
      /\ message.doc.has \subseteq cloud.has /\ message.doc.gone \subseteq cloud.gone
  BY <1>1, <1>2, <1>3, DownTail DEF DocsInv
<1>5. message.doc \in Docs /\ message.kind \in {"step1", "step2", "update"}
  BY <1>4 DEF Messages
<1>. HIDE DEF message
<1>6. ~link.connected /\ link.got \subseteq {"step1", "step2"}
  BY <1>1, <1>2 DEF Turns, Flat
<1>7. got \subseteq {"step1", "step2"}
  BY <1>5, <1>6
<1>8. /\ link' \in [at : {"off", "down", "shake", "up"}, connected : BOOLEAN,
                    wire : BOOLEAN, got : SUBSET {"step1", "step2"}]
      /\ link'.at \in {"shake", "up"} /\ link'.wire = link.wire
      /\ link'.connected => link'.at = "up"
  BY <1>1, <1>2, <1>6, <1>7 DEF Flat
<1>9. HasTold(link') => link.wire /\ "step1" \in got
  BY <1>1, <1>2, <1>6 DEF HasTold, Flat
<1>10. CASE message.kind = "step1"
  <2>. DEFINE answer == Message("step2", replica)
  <2>1. replica' = replica /\ up' = Append(up, answer)
    BY <1>2, <1>10
  <2>2. answer \in Messages /\ answer.kind = "step2" /\ answer.doc = replica
    BY <1>3, MessageType
  <2>. HIDE DEF answer
  <2>3. Numbered(answer.doc, copies) /\ answer.doc.gone \subseteq cloud.has \cup Has(up) \cup answer.doc.has
    BY <1>1, <2>2 DEF DocsInv, SoundReplica
  <2>4. SoundUp(cloud, copies, up')
    BY <1>1, <1>3, <2>1, <2>2, <2>3, UpAppend DEF DocsInv
  <2>5. /\ up' \in Seq(Messages) /\ Has(up') = Has(up) \cup replica.has
        /\ Gone(up') = Gone(up) \cup replica.gone
    BY <1>3, <2>1, <2>2, HasAppend
  <2>6. Told(replica', cloud, up')
    BY <2>1, <2>5 DEF Told
  <2>7. DocsInv'
    BY <1>1, <1>2, <1>4, <2>1, <2>4, <2>6 DEF DocsInv, server
  <2>8. Flat'
    BY <1>1, <1>2, <1>4, <1>8, <2>5 DEF Flat, local, program, server
  <2>9. Fresh'
    BY <1>1, <1>2 DEF Fresh, local, program, server
  <2>10. Turns'
    BY <1>1, <1>2, <1>8 DEF Turns, program
  <2>. QED
    BY <2>7, <2>8, <2>9, <2>10, NextIsInv
<1>11. CASE message.kind # "step1"
  <2>1. replica' = Merge(replica, message.doc) /\ up' = up
    BY <1>2, <1>11
  <2>2. /\ SoundReplica(replica', cloud, copies)
        /\ Told(replica, cloud, up) => Told(replica', cloud, up)
    BY <1>1, <1>3, <1>4, <1>5, <2>1, ReplicaTakes
  <2>3. HasTold(link') => HasTold(link)
    BY <1>5, <1>9, <1>11 DEF HasTold
  <2>4. DocsInv'
    BY <1>1, <1>2, <1>4, <2>1, <2>2, <2>3 DEF DocsInv, server
  <2>5. Flat'
    BY <1>1, <1>2, <1>4, <1>8, <2>1 DEF Flat, local, program, server
  <2>6. Fresh'
    BY <1>1, <1>2 DEF Fresh, local, program, server
  <2>7. Turns'
    BY <1>1, <1>2, <1>8 DEF Turns, program
  <2>. QED
    BY <2>4, <2>5, <2>6, <2>7, NextIsInv
<1>. QED
  BY <1>10, <1>11

\* An announced update is taken in.
LEMMA ListenStep ==
  ASSUME IInv, Heard', Listen
  PROVE  IInv'
<1>1. Flat /\ DocsInv /\ Fresh /\ Turns
  BY TypeFlat DEF IInv
<1>. DEFINE doc == Head(down).doc
<1>2. /\ down # <<>> /\ down' = Tail(down) /\ replica' = Merge(replica, doc)
      /\ writing' \in BOOLEAN
      /\ UNCHANGED <<local, main, cycle, queued, sent, server, link, up, history>>
  BY DEF Listen
<1>3. /\ Head(down) \in Messages /\ down' \in Seq(Messages) /\ SoundDown(cloud, down')
      /\ doc.has \subseteq cloud.has /\ doc.gone \subseteq cloud.gone
  BY <1>1, <1>2, DownTail DEF DocsInv, Flat
<1>4. doc \in Docs
  BY <1>3 DEF Messages
<1>. HIDE DEF doc
<1>5. /\ SoundReplica(replica', cloud, copies)
      /\ Told(replica, cloud, up) => Told(replica', cloud, up)
  BY <1>1, <1>2, <1>3, <1>4, ReplicaTakes DEF Flat
<1>6. DocsInv'
  BY <1>1, <1>2, <1>3, <1>5 DEF DocsInv, server
<1>7. Flat'
  BY <1>1, <1>2, <1>3 DEF Flat, local, server, history
<1>8. Fresh' /\ Turns'
  BY <1>1, <1>2 DEF Fresh, Turns, local, server, history
<1>. QED
  BY <1>6, <1>7, <1>8, NextIsInv

\* The connection goes, or what was on the way.
LEMMA LostStep ==
  ASSUME IInv, Heard', Break \/ Notice \/ Stop
  PROVE  IInv'
<1>1. Flat /\ DocsInv /\ Fresh /\ Turns
  BY TypeFlat DEF IInv
<1>2. UNCHANGED <<local, server, replica>> \/ (Stop /\ UNCHANGED <<file, entry, server, replica>>)
  BY DEF Break, Notice, Stop
<1>3. /\ link' \in [at : {"off", "down", "shake", "up"}, connected : BOOLEAN,
                    wire : BOOLEAN, got : SUBSET {"step1", "step2"}]
      /\ ~link'.wire /\ (link'.connected => link'.at = "up")
      /\ main' = "initial" => link'.at = "off"
  <2>1. CASE Break
    BY <1>1, <2>1 DEF Break, Flat, Turns, program
  <2>2. CASE Notice
    BY <1>1, <2>2 DEF Notice, Closed, Flat, Turns, program
  <2>3. CASE Stop
    BY <2>3 DEF Stop, Closed
  <2>. QED
    BY <2>1, <2>2, <2>3
<1>4. up' \in {up, <<>>} /\ down' \in {down, <<>>}
  BY DEF Break, Notice, Stop, wires
<1>5. /\ SoundUp(cloud, copies, up') /\ SoundDown(cloud, down')
      /\ up' \in Seq(Messages) /\ down' \in Seq(Messages)
  <2>1. SoundUp(cloud, copies, <<>>) /\ SoundDown(cloud, <<>>) /\ <<>> \in Seq(Messages)
    BY NoMessages
  <2>2. /\ SoundUp(cloud, copies, up) /\ SoundDown(cloud, down)
        /\ up \in Seq(Messages) /\ down \in Seq(Messages)
    BY <1>1 DEF DocsInv, Flat
  <2>3. up' = up \/ up' = <<>>
    BY <1>4
  <2>4. down' = down \/ down' = <<>>
    BY <1>4
  <2>. QED
    BY <2>1, <2>2, <2>3, <2>4
<1>6. DocsInv'
  BY <1>1, <1>2, <1>3, <1>5 DEF DocsInv, HasTold, server
<1>7. CASE Break \/ Notice
  <2>1. breaks' \in 0..MaxEvents
    BY <1>1, <1>7, DocSyncAssumption DEF Break, Notice, MayHappen, Flat, history
  <2>2. UNCHANGED <<local, program, server, edits, given, unaware>>
    BY <1>7 DEF Break, Notice, history
  <2>3. Flat'
    BY <1>1, <1>3, <1>5, <2>1, <2>2 DEF Flat, local, program, server
  <2>4. Fresh'
    BY <1>1, <2>2 DEF Fresh, local, program, server
  <2>5. Turns'
    BY <1>1, <1>3, <2>2 DEF Turns, program
  <2>. QED
    BY <1>6, <2>3, <2>4, <2>5, NextIsInv
<1>8. CASE Stop
  <2>1. cycle' = [at |-> "read", text |-> Blank]
    BY <1>8 DEF Stop, Idle
  <2>2. /\ main' = "final" /\ timer' = FALSE /\ queued' = FALSE
        /\ UNCHANGED <<file, entry, sent, writing, server, history>>
    BY <1>8 DEF Stop
  <2>3. Flat'
    BY <1>1, <1>3, <1>5, <2>1, <2>2, BlankText DEF Flat, server, history
  <2>4. Fresh'
    BY <1>1, <2>1, <2>2, BlankText DEF Fresh, server, history
  <2>5. Turns'
    BY <1>3, <2>2 DEF Turns
  <2>. QED
    BY <1>6, <2>3, <2>4, <2>5, NextIsInv
<1>. QED
  BY <1>7, <1>8

\* The file is pushed: what the replica gets is in a message as well, unless
\* the connection is broken.
LEMMA PushLocalStep ==
  ASSUME IInv, Heard', PushLocal
  PROVE  IInv'
<1>1. Flat /\ DocsInv /\ Fresh /\ Turns
  BY TypeFlat DEF IInv
<1>2. queued' = FALSE /\ UNCHANGED <<local, main, cycle, writing, cloud, down, history>>
  BY DEF PushLocal
<1>3. CASE ~Pushable
  <2>1. UNCHANGED <<sent, replica, copies, up, link>>
    BY <1>3 DEF PushLocal
  <2>2. DocsInv'
    BY <1>1, <1>2, <2>1, DocsSame DEF server, wires
  <2>3. /\ UNCHANGED <<file, entry, timer, main, cycle, sent, writing, copies, link, up, down>>
        /\ UNCHANGED <<edits, breaks, given, unaware>>
    BY <1>2, <2>1 DEF local, history
  <2>4. Flat'
    BY <1>1, <1>2, <2>3 DEF Flat
  <2>5. Fresh' /\ Turns'
    BY <1>1, <2>3 DEF Fresh, Turns
  <2>. QED
    BY <2>2, <2>4, <2>5, NextIsInv
<1>4. CASE Pushable
  <2>. DEFINE update == Diff(replica, file)
              message == Message("update", update)
  <2>1. /\ replica' = Merge(replica, update) /\ copies' = Counted(update)
        /\ \/ /\ sent' = file /\ link' = link
              /\ up' = IF link.wire THEN Append(up, message) ELSE up
           \/ /\ ~link.wire /\ link' = [link EXCEPT !.connected = FALSE]
              /\ sent' = sent /\ up' = up
    BY <1>4 DEF PushLocal
  <2>2. file # Absent /\ file \in Texts
    BY <1>1, <1>4 DEF Pushable, Flat
  <2>3. /\ cloud \in Docs /\ replica \in Docs /\ copies \in [Pieces -> Nat]
        /\ up \in Seq(Messages) /\ IsFiniteSet(replica.has) /\ Numbered(replica, copies)
    BY <1>1 DEF Flat, DocsInv, SoundDoc, SoundReplica, Numbered
  <2>4. /\ update \in Docs /\ Numbered(update, copies') /\ update.gone \subseteq replica.has
        /\ copies' \in [Pieces -> Nat]
        /\ \A p \in Pieces : /\ copies[p] <= copies'[p]
                             /\ file[p] = 0 => copies'[p] = copies[p]
    BY <2>1, <2>2, <2>3, DiffProperties
  <2>. HIDE DEF update
  <2>5. message \in Messages /\ message.kind = "update" /\ message.doc = update
    BY <2>4, MessageType
  <2>. HIDE DEF message
  <2>6. Numbered(replica, copies')
    BY <2>3, <2>4, NumberedGrows
  <2>7. replica' \in Docs /\ Numbered(replica', copies')
    BY <2>1, <2>3, <2>4, <2>6, MergeNumbered
  <2>8. replica'.has = replica.has \cup update.has /\ replica'.gone = replica.gone \cup update.gone
    BY <2>1 DEF Merge
  <2>9. SoundReplica(replica', cloud, copies')
    BY <1>1, <2>4, <2>7, <2>8 DEF DocsInv, SoundReplica
  <2>10. SoundDoc(cloud, copies')
    BY <1>1, <2>3, <2>4, NumberedGrows DEF DocsInv, SoundDoc
  <2>11. SoundUp(cloud, copies', up)
    BY <1>1, <2>3, <2>4, UpGrows DEF DocsInv
  <2>12. /\ SoundUp(cloud, copies', up') /\ up' \in Seq(Messages)
         /\ HasTold(link') => Told(replica', cloud, up')
    <3>1. CASE link.wire
      <4>1. link' = link /\ up' = Append(up, message)
        BY <2>1, <3>1
      <4>2. HasTold(link)
        BY <1>4, <3>1 DEF Pushable, HasTold
      <4>3. Told(replica, cloud, up)
        BY <1>1, <4>2 DEF DocsInv
      <4>4. message.doc.gone \subseteq cloud.has \cup Has(up) \cup message.doc.has
        BY <2>4, <2>5, <4>3 DEF Told
      <4>5. SoundUp(cloud, copies', up')
        BY <2>3, <2>4, <2>5, <2>11, <4>1, <4>4, UpAppend
      <4>6. /\ up' \in Seq(Messages) /\ Has(up') = Has(up) \cup update.has
            /\ Gone(up') = Gone(up) \cup update.gone
        BY <2>3, <2>5, <4>1, HasAppend
      <4>7. Told(replica', cloud, up')
        BY <2>8, <4>3, <4>6 DEF Told
      <4>. QED
        BY <4>5, <4>6, <4>7
    <3>2. CASE ~link.wire
      <4>1. ~link'.wire /\ up' = up
        BY <1>1, <2>1, <3>2 DEF Flat
      <4>. QED
        BY <2>3, <2>11, <4>1 DEF HasTold
    <3>. QED
      BY <3>1, <3>2
  <2>13. DocsInv'
    BY <1>1, <1>2, <2>9, <2>10, <2>12 DEF DocsInv
  <2>14. /\ link' \in [at : {"off", "down", "shake", "up"}, connected : BOOLEAN,
                       wire : BOOLEAN, got : SUBSET {"step1", "step2"}]
         /\ link'.at = link.at /\ (link'.connected => link.connected)
         /\ sent' \in Texts \cup {None}
    BY <1>1, <2>1, <2>2 DEF Flat
  <2>15. Flat'
    BY <1>1, <1>2, <2>4, <2>12, <2>14 DEF Flat, local, history
  <2>16. Fresh'
    BY <1>1, <1>2, <2>2, <2>4 DEF Fresh, local, history
  <2>17. Turns'
    BY <1>1, <1>2, <2>14 DEF Turns
  <2>. QED
    BY <2>13, <2>15, <2>16, <2>17, NextIsInv
<1>. QED
  BY <1>3, <1>4

-----------------------------------------------------------------------------
(* The theorems.                                                           *)

LEMMA InitInv == Init => IInv
<1>. SUFFICES ASSUME Init PROVE IInv
  OBVIOUS
<1>1. 0 \in Pieces /\ 0 \in 0..MaxEvents
  BY DocSyncAssumption DEF Pieces
<1>2. NoDoc \in Docs /\ IsFiniteSet(NoDoc.has) /\ NoDoc.has = {} /\ NoDoc.gone = {}
  BY FS_EmptySet DEF NoDoc, Docs
<1>3. Base \in Docs /\ IsFiniteSet(Base.has) /\ Base.has = {<<0, 1>>} /\ Base.gone = {}
  BY <1>1, FS_Singleton DEF Base, Docs, Elements
<1>4. \A p \in Pieces : {e \in Base.has : e[1] = p} = IF p = 0 THEN Base.has ELSE {}
  BY <1>3
<1>5. \A p \in Pieces : Cardinality({e \in Base.has : e[1] = p}) = IF p = 0 THEN 1 ELSE 0
  <2>1. Cardinality(Base.has) = 1
    BY <1>3, FS_Singleton
  <2>2. Cardinality({}) = 0
    BY FS_EmptySet
  <2>3. ASSUME NEW p \in Pieces
        PROVE  Cardinality({e \in Base.has : e[1] = p}) = IF p = 0 THEN 1 ELSE 0
    <3>1. CASE p = 0
      <4>1. {e \in Base.has : e[1] = p} = Base.has
        BY <1>4, <3>1
      <4>. QED
        BY <2>1, <3>1, <4>1
    <3>2. CASE p # 0
      <4>1. {e \in Base.has : e[1] = p} = {}
        BY <1>4, <3>2
      <4>. QED
        BY <2>2, <3>2, <4>1
    <3>. QED
      BY <3>1, <3>2
  <2>. QED
    BY <2>3
<1>6. \A p \in Pieces : Cardinality({e \in NoDoc.has : e[1] = p}) = 0
  <2>1. \A p \in Pieces : {e \in NoDoc.has : e[1] = p} = {}
    BY <1>2
  <2>. QED
    BY <2>1, FS_EmptySet
<1>7. /\ copies \in [Pieces -> Nat]
      /\ \A p \in Pieces : /\ p # 0 => copies[p] = 0
                           /\ p = 0 /\ cloud = Base => copies[p] = 1
  BY <1>5, <1>6 DEF Init
<1>8. SoundDoc(cloud, copies)
  <2>1. CASE cloud = NoDoc
    BY <2>1, NoDocSound
  <2>2. CASE cloud = Base
    BY <1>1, <1>3, <1>7, <2>2 DEF SoundDoc, Numbered
  <2>. QED
    BY <2>1, <2>2 DEF Init
<1>9. /\ SoundUp(cloud, copies, up) /\ SoundDown(cloud, down)
      /\ up \in Seq(Messages) /\ down \in Seq(Messages)
  BY NoMessages DEF Init
<1>10. SoundReplica(replica, cloud, copies)
  BY NoDocSound DEF Init, SoundReplica, SoundDoc, NoDoc
<1>11. DocsInv
  BY <1>8, <1>9, <1>10 DEF Init, DocsInv, HasTold, Closed
<1>12. TextOf(Base) \in Texts
  BY <1>3, TextOfType
<1>13. \A p \in Pieces : p # 0 => TextOf(Base)[p] = 0
  <2>1. ASSUME NEW p \in Pieces, p # 0
        PROVE  {e \in Live(Base) : e[1] = p} = {}
    BY <1>3, <2>1 DEF Live
  <2>. QED
    BY <2>1, FS_EmptySet DEF TextOf
<1>14. cycle = [at |-> "read", text |-> Blank] /\ edits = 0 /\ breaks = 0
  BY DEF Init, Idle
<1>15. Flat
  <2>1. /\ file \in Texts \cup {Absent} /\ entry \in Texts \cup {None}
        /\ sent \in Texts \cup {None}
    BY <1>12 DEF Init
  <2>2. cycle \in [at : {"off", "read", "decide", "write", "update", "send", "record"}, text : Texts]
    BY <1>14, BlankText
  <2>3. link \in [at : {"off", "down", "shake", "up"}, connected : BOOLEAN,
                  wire : BOOLEAN, got : SUBSET {"step1", "step2"}]
    BY DEF Init, Closed
  <2>4. /\ timer = FALSE /\ main = "initial" /\ queued = FALSE /\ writing = FALSE
        /\ given = {} /\ unaware = FALSE
    BY DEF Init
  <2>. QED
    BY <1>1, <1>7, <1>9, <1>14, <2>1, <2>2, <2>3, <2>4 DEF Flat
<1>16. Fresh
  <2>1. \A p \in Pieces : p > 0 => p # 0
    OBVIOUS
  <2>. QED
    BY <1>7, <1>13, <1>14, <2>1, BlankText DEF Init, Fresh
<1>17. Turns
  BY DEF Init, Turns, Closed
<1>18. Heard
  BY <1>2 DEF Init, Heard
<1>19. TypeOK
  BY <1>11, <1>15, <1>18 DEF Flat, DocsInv, TypeOK, SoundDoc, SoundReplica, Numbered, Heard
<1>. QED
  BY <1>11, <1>16, <1>17, <1>18, <1>19 DEF IInv

\* No step takes from the document what it had or took out.
LEMMA HeardKept == IInv /\ [Next]_vars => Heard'
<1>. SUFFICES ASSUME IInv, [Next]_vars PROVE Heard'
  OBVIOUS
<1>1. Heard /\ cloud \in Docs /\ NoDoc \in Docs /\ NoDoc.has = {} /\ NoDoc.gone = {}
  BY DEF IInv, TypeOK, NoDoc, Docs
<1>2. ASSUME cloud' = cloud \/ \E update : CloudTakes(update), heard' \in {heard, NoDoc, cloud},
             heard' \in Docs
      PROVE  Heard'
  BY <1>1, <1>2 DEF Heard, CloudTakes, Merge
<1>3. CASE Cycle
  <2>1. CASE CycleRead \/ PushFirst \/ PushUpdate
    BY <1>1, <1>2, <2>1 DEF CycleRead, PushFirst, PushUpdate, Transfers, server, Heard
  <2>2. CASE Pull \/ Adopt \/ Leave \/ Record
    BY <1>1, <1>2, <2>2 DEF Pull, Adopt, Leave, Record, server, Heard
  <2>3. CASE Handshake
    BY <1>1, <1>2, <2>3 DEF Handshake, server
  <2>4. CASE Transfer
    BY <1>1, <1>2, <2>4 DEF Transfer
  <2>. QED
    BY <1>3, <2>1, <2>2, <2>3, <2>4 DEF Cycle
<1>4. CASE Connection
  BY <1>1, <1>2, <1>4 DEF Connection, Connect, Shake, Listen, Written, Notice, program, server, Heard
<1>5. CASE ServerReceives
  BY <1>1, <1>2, <1>5 DEF ServerReceives, program, Heard
<1>6. CASE Pushing
  BY <1>1, <1>2, <1>6 DEF Pushing, Fire, PushLocal, PushRecorded, server, Heard
<1>7. CASE BeginWatch \/ Poll \/ Stop
  BY <1>1, <1>2, <1>7 DEF BeginWatch, Poll, Stop, server, Heard
<1>8. CASE Users \/ Break
  <2>1. CASE WebEdit
    BY <1>1, <1>2, <2>1 DEF WebEdit, program, Heard
  <2>2. CASE UserSave \/ UserRemove \/ Break
    BY <1>1, <1>2, <2>2 DEF UserSave, UserRemove, Saved, Break, program, server, Heard
  <2>. QED
    BY <1>8, <2>1, <2>2 DEF Users
<1>9. CASE UNCHANGED vars
  BY <1>1, <1>2, <1>9 DEF vars, program, server, Heard
<1>. QED
  BY <1>3, <1>4, <1>5, <1>6, <1>7, <1>8, <1>9 DEF Next

LEMMA StepInv == IInv /\ [Next]_vars => IInv'
<1>. SUFFICES ASSUME IInv, [Next]_vars, Heard' PROVE IInv'
  BY HeardKept
<1>1. CASE Cycle
  BY <1>1, CycleReadStep, TransfersStep, CycleEndStep, HandshakeStep, TransferStep DEF Cycle
<1>2. CASE Connection
  BY <1>2, ConnectStep, ShakeStep, ListenStep, LocalStep, LostStep DEF Connection
<1>3. CASE ServerReceives
  BY <1>3, ServerStep
<1>4. CASE Pushing
  BY <1>4, LocalStep, PushLocalStep DEF Pushing
<1>5. CASE BeginWatch \/ Poll
  BY <1>5, LocalStep
<1>6. CASE Stop \/ Break
  BY <1>6, LostStep
<1>7. CASE Users
  BY <1>7, WebEditStep, UserStep DEF Users
<1>8. CASE UNCHANGED vars
  <2>1. UNCHANGED <<local, program, server, replica, link, wires, history>>
    BY <1>8 DEF vars
  <2>2. Flat /\ DocsInv /\ Fresh /\ Turns
    BY TypeFlat DEF IInv
  <2>3. DocsInv'
    BY <2>1, <2>2, DocsSame
  <2>4. Flat'
    BY <2>1, <2>2 DEF Flat, local, program, server, wires, history
  <2>5. Fresh' /\ Turns'
    BY <2>1, <2>2 DEF Fresh, Turns, local, program, server, history
  <2>. QED
    BY <2>3, <2>4, <2>5, NextIsInv
<1>. QED
  BY <1>1, <1>2, <1>3, <1>4, <1>5, <1>6, <1>7, <1>8 DEF Next

\* Types; no copy has a number above what was counted, so none is counted
\* twice, and the document never took out a copy it did not have: also not
\* when the messages of a broken connection are lost (persistent_sync.py:93-121).
THEOREM TypesHold == Spec => []TypeOK
<1>1. IInv => TypeOK
  BY DEF IInv
<1>. QED
  BY <1>1, InitInv, StepInv, PTL DEF Spec

\* While the connection is up, whatever the replica has, the document has or
\* will have from the messages on the way, after any number of pushes that failed
\* and connections that broke (persistent_sync.py:111-121, 187-191).
THEOREM NothingStrandedHolds == Spec => []NothingStranded
<1>1. IInv => NothingStranded
  <2>. SUFFICES ASSUME IInv, InRoom, link.connected
                PROVE  /\ replica.has \subseteq Merge(cloud, OnTheWay).has
                       /\ replica.gone \subseteq Merge(cloud, OnTheWay).gone
    BY DEF NothingStranded
  <2>1. Told(replica, cloud, up)
    BY DEF IInv, DocsInv, InRoom, HasTold
  <2>2. /\ Merge(cloud, OnTheWay).has = cloud.has \cup Has(up)
        /\ Merge(cloud, OnTheWay).gone = cloud.gone \cup Gone(up)
    BY DEF Merge, OnTheWay, Has, Gone
  <2>. QED
    BY <2>1, <2>2 DEF Told
<1>. QED
  BY <1>1, InitInv, StepInv, PTL DEF Spec

====
