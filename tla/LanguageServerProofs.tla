------------------------ MODULE LanguageServerProofs ------------------------
(***************************************************************************)
(* Proofs about the language server, for every project, every number of    *)
(* files and edits, and pipes of any length.                               *)
(***************************************************************************)
EXTENDS LanguageServer, SequenceTheorems, FiniteSetTheorems, TLAPS

Document == {Closed} \cup [text : Contents, version : Versions]

OnDocument == {"open", "change", "close"}   \* what says how a document stands

Message ==
  [method : {"open", "change"}, file : Files, text : Contents, version : Versions]
    \cup [method : {"save", "close"}, file : Files, text : Contents, version : 0..MaxVersion]
    \cup [method : {"watched", "foreign", "shutdown"}]

Notification ==
  [file : Files, text : Contents, version : Versions \cup {NoVersion}, faulty : BOOLEAN]

LSTypeOK ==
  /\ disk \in [Files -> Contents]
  /\ unwatched \subseteq Files
  /\ buffers \in [Files -> Document]
  /\ version \in [Files -> 0..MaxVersion]
  /\ announced \in BOOLEAN /\ running \in BOOLEAN
  /\ toServer \in Seq(Message)
  /\ toEditor \in Seq(Notification)
  /\ documents \in [Files -> Document]
  /\ published \subseteq Files
  /\ shown \in [Files -> Notification]
  /\ \A f \in Files : shown[f].file = f

-----------------------------------------------------------------------------
(***************************************************************************)
(* The server's documents run behind the editor's by exactly the messages  *)
(* in the pipe, and no change is sent of a document that is not open.      *)
(***************************************************************************)
Tells(q, i, f) == i \in DOMAIN q /\ q[i].method \in OnDocument /\ q[i].file = f

\* The i-th message is the last one before the k-th that tells of f.
TellsLast(q, i, f, k) ==
  Tells(q, i, f) /\ i < k /\ \A j \in DOMAIN q : i < j /\ j < k => ~Tells(q, j, f)

Untold(q, f, k) == \A j \in DOMAIN q : j < k => ~Tells(q, j, f)

Standing(m) ==
  IF m.method = "close" THEN Closed ELSE [text |-> m.text, version |-> m.version]

Mirrors(q, docs, bufs) ==
  \A f \in Files :
    /\ Untold(q, f, Len(q) + 1) => docs[f] = bufs[f]
    /\ \A i \in DOMAIN q : TellsLast(q, i, f, Len(q) + 1) => Standing(q[i]) = bufs[f]

ChangesApply(q, docs) ==
  \A k \in DOMAIN q : q[k].method = "change" =>
    LET f == q[k].file
    IN  /\ Untold(q, f, k) => docs[f] # Closed
        /\ \A i \in DOMAIN q : TellsLast(q, i, f, k) => q[i].method # "close"

MirrorInv == Mirrors(toServer, documents, buffers) /\ ChangesApply(toServer, documents)

-----------------------------------------------------------------------------
(***************************************************************************)
(* A version belongs to one text: whatever carries the version of the      *)
(* editor's document, on its way or arrived, is about its text.            *)
(***************************************************************************)
SameText(f, v, text) ==
  /\ v <= version[f]
  /\ buffers[f].version = v => buffers[f].text = text

Honest(n) == n.version # NoVersion => SameText(n.file, n.version, n.text)

VersionInv ==
  /\ \A f \in Files : IsOpen(buffers, f) => buffers[f].version = version[f]
  /\ \A f \in Files : IsOpen(documents, f) =>
       SameText(f, documents[f].version, documents[f].text)
  /\ \A i \in DOMAIN toServer : toServer[i].method \in {"open", "change"} =>
       SameText(toServer[i].file, toServer[i].version, toServer[i].text)
  /\ \A i \in DOMAIN toEditor : Honest(toEditor[i])
  /\ \A f \in Files : Honest(shown[f])

-----------------------------------------------------------------------------
(***************************************************************************)
(* As long as nothing was done since the last save or file event, either   *)
(* the message that makes the server publish is the last in the pipe, or   *)
(* what the editor will have been told is what is wrong.                   *)
(***************************************************************************)
MakesPublish(m) ==
  m.method = "watched" \/ (m.method = "save" /\ IsOpen(buffers, m.file))

ToldInv ==
  announced =>
    IF toServer = <<>>
    THEN \A f \in Files : LastWord(f).faulty <=> f \in Diagnosed(documents)
    ELSE MakesPublish(toServer[Len(toServer)])

ServerInv == LSTypeOK /\ MirrorInv /\ VersionInv /\ NoOrphanDiagnostics /\ ToldInv

-----------------------------------------------------------------------------
(***************************************************************************)
(* The last word of a queue of notifications: where it is, and what more   *)
(* notifications at the end or one less at the front make of it.           *)
(***************************************************************************)
WordIn(q, view, f) ==
  LET about == {i \in DOMAIN q : q[i].file = f}
  IN  IF about = {} THEN view[f] ELSE q[Max(about)]

LEMMA GreatestIndex ==
  ASSUME NEW n \in Nat, NEW T \in SUBSET (1..n), T # {}
  PROVE  Max(T) \in T /\ \A y \in T : y <= Max(T)
<1> DEFINE Gaps == {n - y : y \in T}
<1>1. Gaps \in SUBSET Nat /\ Gaps # {}
  OBVIOUS
<1>2. PICK g \in Gaps : \A h \in Gaps : ~(<<h, g>> \in OpToRel(<, Nat))
  BY <1>1, NatLessThanWellFounded, WFMin
<1>3. \A h \in Gaps : ~(h < g)
  BY <1>1, <1>2 DEF OpToRel
<1>4. PICK x \in T : g = n - x
  OBVIOUS
<1>5. \A y \in T : x >= y
  <2> TAKE y \in T
  <2>1. n - y \in Gaps
    OBVIOUS
  <2>2. ~(n - y < n - x)
    BY <1>3, <1>4, <2>1
  <2>3. x \in 1..n /\ y \in 1..n
    OBVIOUS
  <2> HIDE DEF Gaps
  <2> QED
    BY <2>2, <2>3
<1> HIDE DEF Gaps
<1>6. Max(T) \in T /\ \A y \in T : Max(T) >= y
  BY <1>5 DEF Max
<1> QED
  BY <1>6

IsLast(q, i, f) ==
  i \in DOMAIN q /\ q[i].file = f /\ \A j \in DOMAIN q : i < j => q[j].file # f

IsAbsent(q, f) == \A j \in DOMAIN q : q[j].file # f

LEMMA WordOfLast ==
  ASSUME NEW S, NEW q \in Seq(S), NEW view, NEW f, NEW i, IsLast(q, i, f)
  PROVE  WordIn(q, view, f) = q[i]
<1> DEFINE about == {k \in DOMAIN q : q[k].file = f}
<1>1. DOMAIN q = 1..Len(q) /\ Len(q) \in Nat
  BY LenProperties
<1>2. about \in SUBSET (1..Len(q)) /\ i \in about
  BY <1>1 DEF IsLast
<1>3. Max(about) \in about /\ i <= Max(about)
  BY <1>1, <1>2, GreatestIndex
<1>4. Max(about) = i
  BY <1>1, <1>3 DEF IsLast
<1> QED
  BY <1>2, <1>4 DEF WordIn

LEMMA WordOfAbsent ==
  ASSUME NEW q, NEW view, NEW f, IsAbsent(q, f)
  PROVE  WordIn(q, view, f) = view[f]
BY DEF WordIn, IsAbsent

LEMMA LastOrAbsent ==
  ASSUME NEW S, NEW q \in Seq(S), NEW f
  PROVE  IsAbsent(q, f) \/ \E i \in DOMAIN q : IsLast(q, i, f)
<1> DEFINE about == {j \in DOMAIN q : q[j].file = f}
<1> SUFFICES ASSUME ~IsAbsent(q, f)
             PROVE  \E i \in DOMAIN q : IsLast(q, i, f)
  OBVIOUS
<1>1. DOMAIN q = 1..Len(q) /\ Len(q) \in Nat
  BY LenProperties
<1>2. about \in SUBSET (1..Len(q)) /\ about # {}
  BY <1>1 DEF IsAbsent
<1>3. PICK i \in about : \A y \in about : y <= i
  BY <1>1, <1>2, GreatestIndex
<1>4. ASSUME NEW j \in DOMAIN q, i < j
      PROVE  q[j].file # f
  <2>1. i \in Nat /\ j \in Nat /\ ~(j <= i)
    BY <1>1, <1>4
  <2> QED
    BY <1>3, <2>1
<1> QED
  BY <1>4 DEF IsLast

LEMMA WordAfterMore ==
  ASSUME NEW S, NEW q \in Seq(S), NEW t \in Seq(S), NEW view, NEW f
  PROVE  WordIn(q \o t, view, f) =
           IF IsAbsent(t, f) THEN WordIn(q, view, f) ELSE WordIn(t, view, f)
<1> DEFINE more == q \o t
<1>1. /\ more \in Seq(S)
      /\ DOMAIN more = 1..(Len(q) + Len(t))
      /\ \A i \in 1..(Len(q) + Len(t)) :
           more[i] = IF i <= Len(q) THEN q[i] ELSE t[i - Len(q)]
  BY ConcatProperties, LenProperties
<1>2. /\ DOMAIN q = 1..Len(q) /\ Len(q) \in Nat
      /\ DOMAIN t = 1..Len(t) /\ Len(t) \in Nat
  BY LenProperties
<1> HIDE DEF more
<1>3. ASSUME NEW i \in DOMAIN t, IsLast(t, i, f)
      PROVE  WordIn(more, view, f) = WordIn(t, view, f)
  <2>1. Len(q) + i \in DOMAIN more /\ more[Len(q) + i] = t[i]
    BY <1>1, <1>2
  <2>2. ASSUME NEW j \in DOMAIN more, Len(q) + i < j
        PROVE  more[j].file # f
    <3>1. j - Len(q) \in DOMAIN t /\ i < j - Len(q) /\ more[j] = t[j - Len(q)]
      BY <1>1, <1>2, <2>2
    <3> QED
      BY <1>3, <3>1 DEF IsLast
  <2>3. IsLast(more, Len(q) + i, f)
    BY <1>3, <2>1, <2>2 DEF IsLast
  <2> QED
    BY <1>1, <1>3, <2>1, <2>3, WordOfLast
<1>4. ASSUME IsAbsent(t, f)
      PROVE  \A j \in DOMAIN more : Len(q) < j => more[j].file # f
  <2> SUFFICES ASSUME NEW j \in DOMAIN more, Len(q) < j
               PROVE  more[j].file # f
    OBVIOUS
  <2>1. j - Len(q) \in DOMAIN t /\ more[j] = t[j - Len(q)]
    BY <1>1, <1>2
  <2> QED
    BY <1>4, <2>1 DEF IsAbsent
<1>5. \A j \in DOMAIN q : j \in DOMAIN more /\ more[j] = q[j]
  BY <1>1, <1>2
<1>6. \A j \in DOMAIN more : j \in DOMAIN q \/ Len(q) < j
  BY <1>1, <1>2
<1>7. ASSUME IsAbsent(t, f), NEW i \in DOMAIN q, IsLast(q, i, f)
      PROVE  WordIn(more, view, f) = WordIn(q, view, f)
  <2>1. IsLast(more, i, f)
    BY <1>4, <1>5, <1>6, <1>7 DEF IsLast
  <2> QED
    BY <1>1, <1>5, <1>7, <2>1, WordOfLast
<1>8. ASSUME IsAbsent(t, f), IsAbsent(q, f)
      PROVE  WordIn(more, view, f) = WordIn(q, view, f)
  <2>1. IsAbsent(more, f)
    BY <1>4, <1>5, <1>6, <1>8 DEF IsAbsent
  <2> QED
    BY <1>8, <2>1, WordOfAbsent
<1>9. IsAbsent(t, f) => WordIn(more, view, f) = WordIn(q, view, f)
  BY <1>7, <1>8, LastOrAbsent
<1>10. ~IsAbsent(t, f) => WordIn(more, view, f) = WordIn(t, view, f)
  BY <1>3, LastOrAbsent
<1> QED
  BY <1>9, <1>10 DEF more

LEMMA WordAfterReading ==
  ASSUME NEW S, NEW q \in Seq(S), q # <<>>,
         NEW view, NEW f \in DOMAIN view,
         NEW shows, shows = [view EXCEPT ![Head(q).file] = Head(q)]
  PROVE  WordIn(Tail(q), shows, f) = WordIn(q, view, f)
<1> DEFINE rest == Tail(q)
<1>1. /\ DOMAIN q = 1..Len(q) /\ Len(q) \in Nat \ {0} /\ Head(q) = q[1]
      /\ rest \in Seq(S) /\ DOMAIN rest = 1..(Len(q) - 1)
      /\ \A i \in 1..(Len(q) - 1) : rest[i] = q[i + 1]
  BY LenProperties, HeadTailProperties, EmptySeq
<1>2. shows[f] = IF q[1].file = f THEN q[1] ELSE view[f]
  BY <1>1
<1> HIDE DEF rest
<1>3. ASSUME NEW j \in DOMAIN q, 1 < j
      PROVE  j - 1 \in DOMAIN rest /\ rest[j - 1] = q[j]
  BY <1>1, <1>3
<1>4. ASSUME NEW i \in DOMAIN rest, IsLast(rest, i, f)
      PROVE  WordIn(rest, shows, f) = WordIn(q, view, f)
  <2>1. i + 1 \in DOMAIN q /\ q[i + 1] = rest[i]
    BY <1>1
  <2>2. ASSUME NEW j \in DOMAIN q, i + 1 < j
        PROVE  q[j].file # f
    <3>1. 1 < j /\ i < j - 1
      BY <1>1, <2>2
    <3> QED
      BY <1>3, <1>4, <3>1 DEF IsLast
  <2>3. IsLast(q, i + 1, f)
    BY <1>4, <2>1, <2>2 DEF IsLast
  <2> QED
    BY <1>1, <1>4, <2>1, <2>3, WordOfLast
<1>5. ASSUME IsAbsent(rest, f)
      PROVE  WordIn(rest, shows, f) = WordIn(q, view, f)
  <2>1. WordIn(rest, shows, f) = shows[f]
    BY <1>5, WordOfAbsent
  <2>2. \A j \in DOMAIN q : 1 < j => q[j].file # f
    BY <1>3, <1>5 DEF IsAbsent
  <2>3. 1 \in DOMAIN q /\ \A j \in DOMAIN q : j = 1 \/ 1 < j
    BY <1>1
  <2>4. CASE q[1].file = f
    <3>1. IsLast(q, 1, f)
      BY <2>2, <2>3, <2>4 DEF IsLast
    <3>2. WordIn(q, view, f) = q[1]
      BY <3>1, WordOfLast
    <3> QED
      BY <1>2, <2>1, <2>4, <3>2
  <2>5. CASE q[1].file # f
    <3>1. IsAbsent(q, f)
      BY <2>2, <2>3, <2>5 DEF IsAbsent
    <3>2. WordIn(q, view, f) = view[f]
      BY <3>1, WordOfAbsent
    <3> QED
      BY <1>2, <2>1, <2>5, <3>2
  <2> QED
    BY <2>4, <2>5
<1>6. WordIn(rest, shows, f) = WordIn(q, view, f)
  BY <1>1, <1>4, <1>5, LastOrAbsent
<1> QED
  BY <1>6 DEF rest

(***************************************************************************)
(* A set put in a sequence: the sequence holds all of it and nothing else. *)
(***************************************************************************)
LEMMA SetAsSequence ==
  ASSUME NEW S, IsFiniteSet(S)
  PROVE  /\ SetToSeq(S) \in Seq(S)
         /\ \A x \in S : \E i \in DOMAIN SetToSeq(S) : SetToSeq(S)[i] = x
<1> DEFINE n == Cardinality(S)
           s == SetToSeq(S)
<1>1. n \in Nat /\ ExistsBijection(1..n, S)
  BY FS_CardinalityType
<1>2. PICK b \in Bijection(1..n, S) : TRUE
  BY <1>1 DEF ExistsBijection
<1>3. b \in [1..n -> S] /\ IsInjective(b)
  BY <1>2 DEF Bijection, Injection
<1>4. s \in [1..n -> S] /\ IsInjective(s)
  BY <1>3 DEF SetToSeq
<1>5. s \in Injection(1..n, S)
  BY <1>4 DEF Injection
<1>6. Cardinality(1..n) = n
  BY <1>1, FS_Interval
<1>7. s \in Surjection(1..n, S)
  BY <1>5, <1>6, FS_Injection
<1>8. s \in Seq(S)
  BY <1>1, <1>4, SeqDef
<1>9. \A x \in S : \E i \in 1..n : s[i] = x
  BY <1>7 DEF Surjection
<1>10. DOMAIN s = 1..n
  BY <1>4
<1> QED
  BY <1>8, <1>9, <1>10

LEMMA OneWordEach ==
  ASSUME NEW T, IsFiniteSet(T), \A x \in T, y \in T : x.file = y.file => x = y
  PROVE  /\ SetToSeq(T) \in Seq(T)
         /\ \A view : \A x \in T : /\ ~IsAbsent(SetToSeq(T), x.file)
                                   /\ WordIn(SetToSeq(T), view, x.file) = x
         /\ \A f : (\A x \in T : x.file # f) => IsAbsent(SetToSeq(T), f)
<1>1. PICK t : t = SetToSeq(T)
  OBVIOUS
<1>2. t \in Seq(T) /\ \A x \in T : \E i \in DOMAIN t : t[i] = x
  BY <1>1, SetAsSequence
<1>3. \A i \in DOMAIN t : t[i] \in T
  BY <1>2, ElementOfSeq, LenProperties
<1>4. ASSUME NEW view, NEW x \in T
      PROVE  ~IsAbsent(t, x.file) /\ WordIn(t, view, x.file) = x
  <2>1. ~IsAbsent(t, x.file)
    BY <1>2 DEF IsAbsent
  <2>2. PICK i \in DOMAIN t : IsLast(t, i, x.file)
    BY <1>2, <2>1, LastOrAbsent
  <2>3. WordIn(t, view, x.file) = t[i]
    BY <1>2, <2>2, WordOfLast
  <2>4. t[i] = x
    BY <1>3, <2>2 DEF IsLast
  <2> QED
    BY <2>1, <2>3, <2>4
<1>5. \A f : (\A x \in T : x.file # f) => IsAbsent(t, f)
  BY <1>3 DEF IsAbsent
<1> QED
  BY <1>1, <1>2, <1>4, <1>5

-----------------------------------------------------------------------------
(***************************************************************************)
(* What a check reports and what is published of it.                       *)
(***************************************************************************)
LEMMA ClosedDocument ==
  /\ Closed \in Document
  /\ \A text \in Contents, v \in Versions :
       /\ [text |-> text, version |-> v] \in Document
       /\ [text |-> text, version |-> v] # Closed
  /\ \A d \in Document : /\ d.text \in Contents /\ d.version \in Versions \cup {NoVersion}
                         /\ d # Closed => d.version \in Versions
                         /\ d = Closed => d.version = NoVersion
BY ProjectAssumption DEF Document, Closed, Contents

LEMMA FaultsReported ==
  ASSUME NEW docs
  PROVE  Diagnosed(docs) \subseteq Files
<1>1. Roots(docs) \subseteq Sources
  BY ProjectAssumption DEF Roots
<1>2. \A text, r : CompileErrors(text, r) \subseteq Sources
  BY DEF CompileErrors
<1>3. CheckedLayouts(docs) \subseteq Layouts
  BY <1>1, ProjectAssumption DEF CheckedLayouts, Compiled
<1>4. OpenFiles(docs) \subseteq Files
  BY DEF OpenFiles
<1>5. UNION {CompileErrors(Current(docs), r) : r \in Compiled(docs)} \subseteq Sources
  BY <1>2
<1>6. Sources \subseteq Files /\ Layouts \subseteq Files /\ Assemblies \subseteq Files
  BY DEF Files, Documents
<1> QED
  BY <1>1, <1>3, <1>4, <1>5, <1>6 DEF Diagnosed

LEMMA PublicationType ==
  ASSUME NEW docs \in [Files -> Document]
  PROVE  /\ Publications(docs) \subseteq Files
         /\ \A f \in Files : /\ Publication(docs, f) \in Notification
                             /\ Publication(docs, f).file = f
                             /\ Clearing(f) \in Notification
                             /\ Clearing(f).file = f
<1>1. Publications(docs) \subseteq Files
  BY FaultsReported DEF Publications, OpenFiles
<1>2. ASSUME NEW f \in Files
      PROVE  /\ Publication(docs, f) \in Notification
             /\ Publication(docs, f).file = f
             /\ Clearing(f) \in Notification
             /\ Clearing(f).file = f
  <2>1. docs[f].version \in Versions \cup {NoVersion} /\ docs[f].text \in Contents
    BY ClosedDocument
  <2>2. Closed.version = NoVersion /\ Closed.text \in Contents
    BY ClosedDocument
  <2> QED
    BY <2>1, <2>2 DEF Publication, Clearing, Notification
<1> QED
  BY <1>1, <1>2

LEMMA LastWordIn ==
  ASSUME NEW f
  PROVE  /\ LastWord(f) = WordIn(toEditor, shown, f)
         /\ LastWord(f)' = WordIn(toEditor', shown', f)
BY DEF LastWord, WordIn

(***************************************************************************)
(* A publication puts two sequences in the pipe: a clearing of each file   *)
(* that is withdrawn, then a publication of each that is not.              *)
(***************************************************************************)
LEMMA PublicationQueued ==
  ASSUME LSTypeOK, Publish(documents)
  PROVE  \E w, t :
    /\ toEditor' = (toEditor \o w) \o t
    /\ w \in Seq({Clearing(g) : g \in Withdrawn(documents)})
    /\ t \in Seq({Publication(documents, g) : g \in Publications(documents)})
    /\ \A view, f : f \in Withdrawn(documents) =>
         ~IsAbsent(w, f) /\ WordIn(w, view, f) = Clearing(f)
    /\ \A f : f \notin Withdrawn(documents) => IsAbsent(w, f)
    /\ \A view, f : f \in Publications(documents) =>
         ~IsAbsent(t, f) /\ WordIn(t, view, f) = Publication(documents, f)
    /\ \A f : f \notin Publications(documents) => IsAbsent(t, f)
<1> DEFINE P == Publications(documents)
           W == Withdrawn(documents)
           new == [g \in P |-> Publication(documents, g)]
           old == [g \in W |-> Clearing(g)]
           news == {Publication(documents, g) : g \in P}
           olds == {Clearing(g) : g \in W}
<1>1. documents \in [Files -> Document] /\ published \subseteq Files
  BY DEF LSTypeOK
<1>2. P \subseteq Files /\ W \subseteq Files
  BY <1>1, PublicationType DEF Withdrawn
<1>3. IsFiniteSet(P) /\ IsFiniteSet(W)
  BY <1>2, ProjectAssumption, FS_Subset
<1>4. new \in Surjection(P, news) /\ old \in Surjection(W, olds)
  BY DEF Surjection
<1>5. IsFiniteSet(news) /\ IsFiniteSet(olds)
  BY <1>3, <1>4, FS_Surjection
<1>6. /\ \A g \in P : Publication(documents, g).file = g /\ Publication(documents, g) \in news
      /\ \A x \in news : x.file \in P /\ x = Publication(documents, x.file)
  BY <1>1, <1>2, PublicationType
<1>7. /\ \A g \in W : Clearing(g).file = g /\ Clearing(g) \in olds
      /\ \A x \in olds : x.file \in W /\ x = Clearing(x.file)
  BY <1>1, <1>2, PublicationType
<1>8. PICK w, t : w = SetToSeq(olds) /\ t = SetToSeq(news)
  OBVIOUS
<1>9. toEditor' = (toEditor \o w) \o t
  BY <1>8 DEF Publish
<1> HIDE DEF news, olds, P, W
<1>10. /\ t \in Seq(news)
       /\ \A view : \A x \in news : ~IsAbsent(t, x.file) /\ WordIn(t, view, x.file) = x
       /\ \A f : (\A x \in news : x.file # f) => IsAbsent(t, f)
  <2>1. \A x \in news, y \in news : x.file = y.file => x = y
    BY <1>6
  <2> QED
    BY <1>5, <1>8, <2>1, OneWordEach
<1>11. /\ w \in Seq(olds)
       /\ \A view : \A x \in olds : ~IsAbsent(w, x.file) /\ WordIn(w, view, x.file) = x
       /\ \A f : (\A x \in olds : x.file # f) => IsAbsent(w, f)
  <2>1. \A x \in olds, y \in olds : x.file = y.file => x = y
    BY <1>7
  <2> QED
    BY <1>5, <1>8, <2>1, OneWordEach
<1>12. ASSUME NEW view, NEW f
       PROVE  /\ f \in W => ~IsAbsent(w, f) /\ WordIn(w, view, f) = Clearing(f)
              /\ f \notin W => IsAbsent(w, f)
  BY <1>7, <1>11
<1>13. ASSUME NEW view, NEW f
       PROVE  /\ f \in P => ~IsAbsent(t, f) /\ WordIn(t, view, f) = Publication(documents, f)
              /\ f \notin P => IsAbsent(t, f)
  BY <1>6, <1>10
<1> QED
  BY <1>9, <1>10, <1>11, <1>12, <1>13 DEF news, olds, P, W

LEMMA PublishedKinds ==
  ASSUME LSTypeOK, Publish(documents), NEW S, toEditor \in Seq(S),
         \A g \in Withdrawn(documents) : Clearing(g) \in S,
         \A g \in Publications(documents) : Publication(documents, g) \in S
  PROVE  toEditor' \in Seq(S)
<1>1. PICK w, t :
        /\ toEditor' = (toEditor \o w) \o t
        /\ w \in Seq({Clearing(g) : g \in Withdrawn(documents)})
        /\ t \in Seq({Publication(documents, g) : g \in Publications(documents)})
  BY PublicationQueued
<1>2. w \in Seq(S)
  <2>1. {Clearing(g) : g \in Withdrawn(documents)} \subseteq S
    OBVIOUS
  <2> QED
    BY <1>1, <2>1, SeqMonotonic
<1>3. t \in Seq(S)
  <2>1. {Publication(documents, g) : g \in Publications(documents)} \subseteq S
    OBVIOUS
  <2> QED
    BY <1>1, <2>1, SeqMonotonic
<1> QED
  BY <1>1, <1>2, <1>3, ConcatProperties

LEMMA PublishedType ==
  ASSUME LSTypeOK, Publish(documents)
  PROVE  toEditor' \in Seq(Notification) /\ published' \subseteq Files
<1>1. documents \in [Files -> Document] /\ published \subseteq Files /\ toEditor \in Seq(Notification)
  BY DEF LSTypeOK
<1>2. Publications(documents) \subseteq Files /\ Withdrawn(documents) \subseteq Files
  BY <1>1, PublicationType DEF Withdrawn
<1>3. toEditor' \in Seq(Notification)
  BY <1>1, <1>2, PublicationType, PublishedKinds
<1> QED
  BY <1>2, <1>3 DEF Publish

(***************************************************************************)
(* After a publication the editor's last word of a file is the new one,    *)
(* the withdrawal, or what it was.                                         *)
(***************************************************************************)
LEMMA PublishedWord ==
  ASSUME LSTypeOK, Publish(documents), shown' = shown, NEW f
  PROVE  LastWord(f)' =
           IF f \in Publications(documents) THEN Publication(documents, f)
           ELSE IF f \in Withdrawn(documents) THEN Clearing(f)
           ELSE LastWord(f)
<1> DEFINE P == Publications(documents)
           W == Withdrawn(documents)
<1>1. PICK w, t :
        /\ toEditor' = (toEditor \o w) \o t
        /\ w \in Seq({Clearing(g) : g \in W})
        /\ t \in Seq({Publication(documents, g) : g \in P})
        /\ \A view, h : h \in W => ~IsAbsent(w, h) /\ WordIn(w, view, h) = Clearing(h)
        /\ \A h : h \notin W => IsAbsent(w, h)
        /\ \A view, h : h \in P => ~IsAbsent(t, h) /\ WordIn(t, view, h) = Publication(documents, h)
        /\ \A h : h \notin P => IsAbsent(t, h)
  BY PublicationQueued
<1>2. W \cap P = {}
  BY DEF Withdrawn
<1>3. /\ toEditor \in Seq(Notification) /\ documents \in [Files -> Document]
      /\ P \subseteq Files /\ W \subseteq Files
  BY PublicationType DEF LSTypeOK, Withdrawn
<1> HIDE DEF P, W
<1>4. /\ {Clearing(g) : g \in W} \subseteq Notification
      /\ {Publication(documents, g) : g \in P} \subseteq Notification
  BY <1>3, PublicationType
<1>5. w \in Seq(Notification) /\ t \in Seq(Notification)
  BY <1>1, <1>4, SeqMonotonic
<1>6. PICK told : told = toEditor \o w
  OBVIOUS
<1>7. told \in Seq(Notification)
  BY <1>3, <1>5, <1>6, ConcatProperties
<1>8. WordIn(told, shown, f) =
        IF IsAbsent(w, f) THEN WordIn(toEditor, shown, f) ELSE WordIn(w, shown, f)
  BY <1>3, <1>5, <1>6, WordAfterMore
<1>9. WordIn(toEditor', shown, f) =
        IF IsAbsent(t, f) THEN WordIn(told, shown, f) ELSE WordIn(t, shown, f)
  <2> toEditor' = told \o t
    BY <1>1, <1>6
  <2> QED
    BY <1>5, <1>7, WordAfterMore
<1>10. LastWord(f) = WordIn(toEditor, shown, f) /\ LastWord(f)' = WordIn(toEditor', shown, f)
  BY LastWordIn
<1> QED
  <2>1. f \in P => LastWord(f)' = Publication(documents, f)
    BY <1>1, <1>9, <1>10
  <2>2. f \in W => LastWord(f)' = Clearing(f)
    BY <1>1, <1>2, <1>8, <1>9, <1>10
  <2>3. f \notin P /\ f \notin W => LastWord(f)' = LastWord(f)
    BY <1>1, <1>8, <1>9, <1>10
  <2> QED
    BY <2>1, <2>2, <2>3 DEF P, W

-----------------------------------------------------------------------------
(***************************************************************************)
(* Sending a message and handling one keep the documents in step.          *)
(***************************************************************************)
LEMMA MessageType ==
  /\ \A m \in Message : m.method \in OnDocument \cup {"save"} =>
       m.file \in Files /\ m.text \in Contents
  /\ \A m \in Message : m.method \in {"open", "change"} => m.version \in Versions
  /\ \A m \in Message : m.method \in OnDocument => Standing(m) \in Document
  /\ \A f \in Files, text \in Contents, v \in Versions :
       Named("open", f, text, v) \in Message /\ Named("change", f, text, v) \in Message
  /\ \A f \in Files, text \in Contents, v \in 0..MaxVersion :
       Named("save", f, text, v) \in Message /\ Named("close", f, text, v) \in Message
  /\ \A k \in {"watched", "foreign", "shutdown"} : [method |-> k] \in Message
<1>1. \A m \in Message : m.method \in {"open", "change"} =>
        m.file \in Files /\ m.text \in Contents /\ m.version \in Versions
  BY DEF Message
<1>2. \A m \in Message : m.method \in {"save", "close"} =>
        m.file \in Files /\ m.text \in Contents
  BY DEF Message
<1>3. \A m \in Message : m.method \in OnDocument => Standing(m) \in Document
  BY <1>1, ClosedDocument DEF OnDocument, Standing
<1>4. /\ \A f \in Files, text \in Contents, v \in Versions :
           Named("open", f, text, v) \in Message /\ Named("change", f, text, v) \in Message
      /\ \A f \in Files, text \in Contents, v \in 0..MaxVersion :
           Named("save", f, text, v) \in Message /\ Named("close", f, text, v) \in Message
      /\ \A k \in {"watched", "foreign", "shutdown"} : [method |-> k] \in Message
  BY DEF Message, Named
<1> QED
  BY <1>1, <1>2, <1>3, <1>4 DEF OnDocument

LEMMA TellsShape ==
  ASSUME NEW q, NEW i, NEW f
  PROVE  Tells(q, i, f) => i \in DOMAIN q /\ q[i].file = f /\ q[i].method \in OnDocument
BY DEF Tells

LEMMA MirrorHandled ==
  ASSUME NEW q \in Seq(Message), q # <<>>,
         NEW docs \in [Files -> Document], NEW bufs \in [Files -> Document],
         Mirrors(q, docs, bufs), ChangesApply(q, docs),
         NEW after \in [Files -> Document],
         \A f \in Files : after[f] = IF Tells(q, 1, f) THEN Standing(Head(q)) ELSE docs[f]
  PROVE  Mirrors(Tail(q), after, bufs) /\ ChangesApply(Tail(q), after)
<1> DEFINE rest == Tail(q)
<1>1. /\ DOMAIN q = 1..Len(q) /\ Len(q) \in Nat \ {0} /\ Head(q) = q[1]
      /\ rest \in Seq(Message) /\ DOMAIN rest = 1..(Len(q) - 1) /\ Len(rest) = Len(q) - 1
      /\ \A i \in 1..(Len(q) - 1) : rest[i] = q[i + 1]
  BY LenProperties, HeadTailProperties, EmptySeq
<1> HIDE DEF rest
<1>2. ASSUME NEW i \in Int, NEW f
      PROVE  /\ i \in DOMAIN rest => i + 1 \in DOMAIN q /\ rest[i] = q[i + 1]
             /\ i \in DOMAIN q => i = 1 \/ (i - 1 \in DOMAIN rest /\ rest[i - 1] = q[i])
             /\ Tells(rest, i, f) <=> i # 0 /\ Tells(q, i + 1, f)
  BY <1>1 DEF Tells
<1>3. ASSUME NEW f, NEW k \in 1..Len(q)
      PROVE  /\ Untold(rest, f, k) => Untold(q, f, k + 1) \/ TellsLast(q, 1, f, k + 1)
             /\ \A i \in DOMAIN rest : TellsLast(rest, i, f, k) => TellsLast(q, i + 1, f, k + 1)
  <2>1. k \in Int /\ 1 \in DOMAIN q /\ 1 < k + 1
    BY <1>1
  <2>2. ASSUME Untold(rest, f, k), NEW j \in DOMAIN q, 1 < j, j < k + 1
        PROVE  ~Tells(q, j, f)
    <3>1. j - 1 \in DOMAIN rest /\ j - 1 < k /\ j - 1 # 0 /\ (j - 1) + 1 = j /\ j - 1 \in Int
      BY <1>1, <2>1, <2>2
    <3>2. ~Tells(rest, j - 1, f)
      BY <2>2, <3>1 DEF Untold
    <3> QED
      BY <1>2, <3>1, <3>2
  <2>3. Untold(rest, f, k) => Untold(q, f, k + 1) \/ TellsLast(q, 1, f, k + 1)
    <3> SUFFICES ASSUME Untold(rest, f, k)
                 PROVE  Untold(q, f, k + 1) \/ TellsLast(q, 1, f, k + 1)
      OBVIOUS
    <3>1. \A j \in DOMAIN q : j = 1 \/ 1 < j
      BY <1>1
    <3> QED
      BY <2>1, <2>2, <3>1 DEF Untold, TellsLast
  <2>4. ASSUME NEW i \in DOMAIN rest, TellsLast(rest, i, f, k)
        PROVE  TellsLast(q, i + 1, f, k + 1)
    <3>1. i \in Int /\ i + 1 \in DOMAIN q /\ i + 1 < k + 1 /\ Tells(q, i + 1, f)
      BY <1>1, <1>2, <2>1, <2>4 DEF TellsLast
    <3>2. ASSUME NEW j \in DOMAIN q, i + 1 < j, j < k + 1
          PROVE  ~Tells(q, j, f)
      <4>1. j - 1 \in DOMAIN rest /\ i < j - 1 /\ j - 1 < k
            /\ j - 1 # 0 /\ (j - 1) + 1 = j /\ j - 1 \in Int
        BY <1>1, <2>1, <3>1, <3>2
      <4>2. ~Tells(rest, j - 1, f)
        BY <2>4, <4>1 DEF TellsLast
      <4> QED
        BY <1>2, <4>1, <4>2
    <3> QED
      BY <3>1, <3>2 DEF TellsLast
  <2> QED
    BY <2>3, <2>4
<1>4. ASSUME NEW f \in Files
      PROVE  /\ Untold(rest, f, Len(rest) + 1) => after[f] = bufs[f]
             /\ \A i \in DOMAIN rest :
                  TellsLast(rest, i, f, Len(rest) + 1) => Standing(rest[i]) = bufs[f]
  <2>1. Len(rest) + 1 = Len(q) /\ Len(q) \in 1..Len(q) /\ 1 \in DOMAIN q
    BY <1>1
  <2>2. ASSUME Untold(rest, f, Len(rest) + 1)
        PROVE  after[f] = bufs[f]
    <3>1. CASE Untold(q, f, Len(q) + 1)
      <4>1. ~Tells(q, 1, f)
        BY <2>1, <3>1 DEF Untold
      <4> QED
        BY <3>1, <4>1 DEF Mirrors
    <3>2. CASE TellsLast(q, 1, f, Len(q) + 1)
      <4>1. Tells(q, 1, f) /\ Standing(q[1]) = bufs[f]
        BY <2>1, <3>2 DEF Mirrors, TellsLast
      <4> QED
        BY <1>1, <4>1
    <3> QED
      BY <1>3, <2>1, <2>2, <3>1, <3>2
  <2>3. ASSUME NEW i \in DOMAIN rest, TellsLast(rest, i, f, Len(rest) + 1)
        PROVE  Standing(rest[i]) = bufs[f]
    <3>1. TellsLast(rest, i, f, Len(q))
      BY <2>1, <2>3
    <3>2. TellsLast(q, i + 1, f, Len(q) + 1)
      BY <1>3, <2>1, <3>1
    <3>3. i + 1 \in DOMAIN q /\ rest[i] = q[i + 1]
      BY <1>1
    <3> QED
      BY <3>2, <3>3 DEF Mirrors
  <2> QED
    BY <2>2, <2>3
<1>5. ASSUME NEW k \in DOMAIN rest, rest[k].method = "change", NEW f, f = rest[k].file
      PROVE  /\ Untold(rest, f, k) => after[f] # Closed
             /\ \A i \in DOMAIN rest : TellsLast(rest, i, f, k) => rest[i].method # "close"
  <2>1. k \in Int /\ k + 1 \in DOMAIN q /\ rest[k] = q[k + 1] /\ k \in 1..Len(q)
    BY <1>1
  <2>2. /\ Untold(q, f, k + 1) => docs[f] # Closed
        /\ \A i \in DOMAIN q : TellsLast(q, i, f, k + 1) => q[i].method # "close"
    BY <1>5, <2>1 DEF ChangesApply
  <2>3. f \in Files
    <3>1. rest[k] \in Message
      BY <1>1
    <3> QED
      BY <1>5, <3>1, MessageType DEF OnDocument
  <2>4. ASSUME Untold(rest, f, k)
        PROVE  after[f] # Closed
    <3>1. CASE Untold(q, f, k + 1)
      <4>1. ~Tells(q, 1, f)
        BY <1>1, <2>1, <3>1 DEF Untold
      <4> QED
        BY <2>2, <2>3, <3>1, <4>1
    <3>2. CASE TellsLast(q, 1, f, k + 1)
      <4>1. Tells(q, 1, f) /\ q[1].method # "close" /\ q[1] \in Message
        BY <1>1, <2>2, <3>2 DEF TellsLast
      <4>2. q[1].method \in {"open", "change"}
        BY <4>1 DEF Tells, OnDocument
      <4>3. Standing(q[1]) # Closed
        BY <4>1, <4>2, MessageType, ClosedDocument DEF Standing, OnDocument
      <4> QED
        BY <1>1, <2>3, <4>1, <4>3
    <3> QED
      BY <1>3, <2>1, <2>4, <3>1, <3>2
  <2>5. ASSUME NEW i \in DOMAIN rest, TellsLast(rest, i, f, k)
        PROVE  rest[i].method # "close"
    <3>1. TellsLast(q, i + 1, f, k + 1)
      BY <1>3, <2>1, <2>5
    <3>2. i + 1 \in DOMAIN q /\ rest[i] = q[i + 1]
      BY <1>1
    <3> QED
      BY <2>2, <3>1, <3>2
  <2> QED
    BY <2>4, <2>5
<1>6. Mirrors(rest, after, bufs)
  BY <1>4 DEF Mirrors
<1>7. ChangesApply(rest, after)
  BY <1>5 DEF ChangesApply
<1> QED
  BY <1>6, <1>7 DEF rest

LEMMA MirrorSent ==
  ASSUME NEW q \in Seq(Message), NEW m \in Message,
         NEW docs \in [Files -> Document], NEW bufs \in [Files -> Document],
         Mirrors(q, docs, bufs), ChangesApply(q, docs),
         m.method = "change" => bufs[m.file] # Closed,
         NEW after \in [Files -> Document],
         \A f \in Files : after[f] = IF m.method \in OnDocument /\ m.file = f
                                     THEN Standing(m) ELSE bufs[f]
  PROVE  Mirrors(Append(q, m), docs, after) /\ ChangesApply(Append(q, m), docs)
<1> DEFINE all == Append(q, m)
           n == Len(q)
<1>1. /\ DOMAIN q = 1..n /\ n \in Nat /\ all \in Seq(Message)
      /\ DOMAIN all = 1..(n + 1) /\ Len(all) = n + 1
      /\ all[n + 1] = m /\ \A i \in 1..n : all[i] = q[i]
  BY LenProperties, AppendProperties
<1> HIDE DEF all, n
<1>2. ASSUME NEW f
      PROVE  /\ \A i \in DOMAIN q : Tells(all, i, f) <=> Tells(q, i, f)
             /\ Tells(all, n + 1, f) <=> m.method \in OnDocument /\ m.file = f
  BY <1>1 DEF Tells
<1>3. ASSUME NEW f, NEW k \in 1..(n + 1)
      PROVE  /\ Untold(all, f, k) => Untold(q, f, k)
             /\ \A i \in DOMAIN all : TellsLast(all, i, f, k) => i \in DOMAIN q /\ TellsLast(q, i, f, k)
  <2>1. \A j \in DOMAIN q : j \in DOMAIN all
    BY <1>1
  <2>2. \A j \in DOMAIN all : j < k => j \in DOMAIN q
    BY <1>1
  <2>3. Untold(all, f, k) => Untold(q, f, k)
    BY <1>2, <2>1 DEF Untold
  <2>4. ASSUME NEW i \in DOMAIN all, TellsLast(all, i, f, k)
        PROVE  i \in DOMAIN q /\ TellsLast(q, i, f, k)
    BY <1>2, <2>1, <2>2, <2>4 DEF TellsLast
  <2> QED
    BY <2>3, <2>4
<1>4. ASSUME NEW f \in Files
      PROVE  /\ Untold(all, f, Len(all) + 1) => docs[f] = after[f]
             /\ \A i \in DOMAIN all :
                  TellsLast(all, i, f, Len(all) + 1) => Standing(all[i]) = after[f]
  <2>1. /\ n + 1 \in DOMAIN all /\ n + 1 < Len(all) + 1 /\ n + 1 \in 1..(n + 1)
        /\ \A i \in DOMAIN all : i = n + 1 \/ (i \in DOMAIN q /\ i < n + 1)
        /\ \A i \in DOMAIN q : i \in DOMAIN all /\ i < Len(all) + 1 /\ i < n + 1
    BY <1>1
  <2>2. CASE Tells(all, n + 1, f)
    <3>1. ~Untold(all, f, Len(all) + 1)
      BY <2>1, <2>2 DEF Untold
    <3>2. \A i \in DOMAIN all : TellsLast(all, i, f, Len(all) + 1) => i = n + 1
      BY <2>1, <2>2 DEF TellsLast
    <3>3. after[f] = Standing(all[n + 1])
      BY <1>1, <1>2, <2>2
    <3> QED
      BY <3>1, <3>2, <3>3
  <2>3. CASE ~Tells(all, n + 1, f)
    <3>1. after[f] = bufs[f]
      BY <1>2, <2>3
    <3>2. Untold(all, f, Len(all) + 1) => Untold(q, f, n + 1)
      BY <1>2, <2>1 DEF Untold
    <3>3. ASSUME NEW i \in DOMAIN all, TellsLast(all, i, f, Len(all) + 1)
          PROVE  i \in DOMAIN q /\ TellsLast(q, i, f, n + 1)
      BY <1>2, <2>1, <2>3, <3>3 DEF TellsLast
    <3>4. \A i \in DOMAIN q : all[i] = q[i]
      BY <1>1
    <3> QED
      BY <3>1, <3>2, <3>3, <3>4 DEF Mirrors, n
  <2> QED
    BY <2>2, <2>3
<1>5. ASSUME NEW k \in DOMAIN all, all[k].method = "change", NEW f, f = all[k].file
      PROVE  /\ Untold(all, f, k) => docs[f] # Closed
             /\ \A i \in DOMAIN all : TellsLast(all, i, f, k) => all[i].method # "close"
  <2>1. k \in 1..(n + 1) /\ \A i \in DOMAIN q : all[i] = q[i]
    BY <1>1
  <2>2. CASE k \in DOMAIN q
    <3>1. /\ Untold(q, f, k) => docs[f] # Closed
          /\ \A i \in DOMAIN q : TellsLast(q, i, f, k) => q[i].method # "close"
      BY <1>5, <2>1, <2>2 DEF ChangesApply
    <3> QED
      BY <1>3, <2>1, <3>1
  <2>3. CASE k = n + 1
    <3>1. all[k] = m /\ m.method = "change" /\ f = m.file /\ f \in Files /\ bufs[f] # Closed
      BY <1>1, <1>5, <2>3, MessageType DEF OnDocument
    <3>2. /\ Untold(q, f, k) => docs[f] = bufs[f]
          /\ \A i \in DOMAIN q : TellsLast(q, i, f, k) => Standing(q[i]) = bufs[f]
      BY <2>3, <3>1 DEF Mirrors, n
    <3>3. \A i \in DOMAIN q : TellsLast(q, i, f, k) => q[i].method # "close"
      BY <3>1, <3>2 DEF Standing
    <3> QED
      BY <1>3, <2>1, <3>1, <3>2, <3>3
  <2> QED
    BY <1>1, <2>2, <2>3
<1>6. Mirrors(all, docs, after)
  BY <1>4 DEF Mirrors
<1>7. ChangesApply(all, docs)
  BY <1>5 DEF ChangesApply
<1> QED
  BY <1>6, <1>7 DEF all

LEMMA WordAfterAppend ==
  ASSUME NEW S, NEW q \in Seq(S), NEW n \in S, NEW view, NEW f
  PROVE  WordIn(Append(q, n), view, f) = IF n.file = f THEN n ELSE WordIn(q, view, f)
<1> DEFINE t == <<n>>
<1>1. t \in Seq(S) /\ DOMAIN t = {1} /\ t[1] = n
  OBVIOUS
<1>2. Append(q, n) = q \o t
  BY AppendIsConcat
<1> HIDE DEF t
<1>3. n.file = f => IsLast(t, 1, f)
  BY <1>1 DEF IsLast
<1>4. IsAbsent(t, f) <=> n.file # f
  BY <1>1 DEF IsAbsent
<1>5. n.file = f => WordIn(t, view, f) = n
  BY <1>1, <1>3, WordOfLast
<1>6. WordIn(q \o t, view, f) = IF IsAbsent(t, f) THEN WordIn(q, view, f) ELSE WordIn(t, view, f)
  BY <1>1, WordAfterMore
<1> QED
  BY <1>2, <1>4, <1>5, <1>6

-----------------------------------------------------------------------------
(***************************************************************************)
(* Every step, seen from what it does to the pipes.                        *)
(***************************************************************************)
EditorSays(m) ==
  /\ toServer' = Append(toServer, m)
  /\ m.method \in OnDocument => buffers' = [buffers EXCEPT ![m.file] = Standing(m)]
  /\ m.method \notin OnDocument => buffers' = buffers
  /\ m.method \in {"open", "change"} => version' = [version EXCEPT ![m.file] = m.version]
  /\ announced' => MakesPublish(m)
  /\ UNCHANGED <<toEditor, serverVars, shown>>

LEMMA MessageHandled ==
  ASSUME LSTypeOK, MirrorInv, HandleMessage
  PROVE  /\ toServer # <<>> /\ toServer' = Tail(toServer) /\ Head(toServer) \in Message
         /\ UNCHANGED <<editorVars, shown>>
         /\ documents' \in [Files -> Document]
         /\ \A f \in Files : documents'[f] =
              IF Tells(toServer, 1, f) THEN Standing(Head(toServer)) ELSE documents[f]
<1> DEFINE m == Head(toServer)
<1>1. /\ toServer # <<>> /\ toServer' = Tail(toServer) /\ UNCHANGED <<editorVars, shown>>
      /\ DidOpen(m) \/ DidChange(m) \/ DidSave(m) \/ DidClose(m)
           \/ DidChangeWatchedFiles(m) \/ DidOpenForeign(m) \/ Shutdown(m)
  BY DEF HandleMessage
<1>2. m \in Message /\ 1 \in DOMAIN toServer /\ toServer[1] = m
  BY <1>1, LenProperties, HeadTailProperties, EmptySeq DEF LSTypeOK
<1>3. documents \in [Files -> Document]
  BY DEF LSTypeOK
<1> HIDE DEF m
<1>4. \A f : Tells(toServer, 1, f) <=> m.method \in OnDocument /\ m.file = f
  BY <1>2 DEF Tells
<1>5. CASE m.method \in OnDocument
  <2>1. m.file \in Files /\ Standing(m) \in Document
    BY <1>2, <1>5, MessageType
  <2>2. m.method = "change" => IsOpen(documents, m.file)
    <3> SUFFICES ASSUME m.method = "change"
                 PROVE  documents[m.file] # Closed
      BY DEF IsOpen
    <3>1. Untold(toServer, m.file, 1)
      BY <1>2, LenProperties DEF LSTypeOK, Untold
    <3> QED
      BY <1>2, <3>1 DEF MirrorInv, ChangesApply
  <2>3. documents' = [documents EXCEPT ![m.file] = Standing(m)]
    BY <1>1, <1>5, <2>2 DEF DidOpen, DidChange, DidSave, DidClose, DidChangeWatchedFiles,
       DidOpenForeign, Shutdown, Standing, OnDocument
  <2> QED
    BY <1>1, <1>2, <1>3, <1>4, <1>5, <2>1, <2>3 DEF m
<1>6. CASE m.method \notin OnDocument
  <2>1. documents' = documents
    BY <1>1, <1>6 DEF DidOpen, DidChange, DidSave, DidClose, DidChangeWatchedFiles,
       DidOpenForeign, Shutdown, OnDocument
  <2> QED
    BY <1>1, <1>2, <1>3, <1>4, <1>6, <2>1 DEF m
<1> QED
  BY <1>5, <1>6

\* What the handling of a message says to the editor.
LEMMA MessageAnswered ==
  ASSUME LSTypeOK, HandleMessage, NEW m, m = Head(toServer)
  PROVE  \/ Publish(documents) /\ documents' = documents
            /\ (m.method = "watched" \/ (m.method = "save" /\ IsOpen(documents, m.file)))
         \/ DidClose(m) /\ m.file \in Files
         \/ KeepQuiet /\ m.method # "watched"
            /\ (m.method = "save" => ~IsOpen(documents, m.file))
<1>1. DidOpen(m) \/ DidChange(m) \/ DidSave(m) \/ DidClose(m)
        \/ DidChangeWatchedFiles(m) \/ DidOpenForeign(m) \/ Shutdown(m)
  BY DEF HandleMessage
<1>2. m \in Message
  BY HeadTailProperties DEF LSTypeOK, HandleMessage
<1>3. DidClose(m) => m.file \in Files
  BY <1>2, MessageType DEF DidClose, OnDocument
<1> QED
  BY <1>1, <1>3 DEF DidOpen, DidChange, DidSave, DidChangeWatchedFiles, DidOpenForeign, Shutdown

LEMMA EditorSpoke ==
  ASSUME LSTypeOK, EditorNext
  PROVE  \/ \E m \in Message : EditorSays(m) /\ (m.method = "change" => IsOpen(buffers, m.file))
         \/ UNCHANGED <<toServer, buffers, toEditor, serverVars, shown>> /\ announced' = FALSE
<1> Documents \subseteq Files /\ \A f \in Files : Texts[f] \subseteq Contents
  BY ProjectAssumption DEF Files
<1>1. ASSUME NEW f \in Files, EditorOpen(f)
      PROVE  \E m \in Message : EditorSays(m) /\ m.method # "change"
  <2> DEFINE m == Named("open", f, disk[f], version[f] + 1)
  <2>1. disk[f] \in Contents /\ version[f] + 1 \in Versions
    BY <1>1, ProjectAssumption DEF LSTypeOK, EditorOpen, Versions
  <2>2. m \in Message /\ m.method = "open" /\ m.file = f /\ m.version = version[f] + 1
        /\ Standing(m) = [text |-> disk[f], version |-> version[f] + 1]
    BY <2>1, MessageType DEF Named, Standing
  <2>3. EditorSays(m)
    BY <1>1, <2>2 DEF EditorSays, EditorOpen, Send, Do, OnDocument
  <2> QED
    BY <2>2, <2>3
<1>2. ASSUME NEW f \in Files, NEW text \in Contents, EditorChange(f, text)
      PROVE  \E m \in Message : EditorSays(m) /\ IsOpen(buffers, m.file)
  <2> DEFINE m == Named("change", f, text, version[f] + 1)
  <2>1. version[f] + 1 \in Versions
    BY <1>2, ProjectAssumption DEF LSTypeOK, EditorChange, Versions
  <2>2. m \in Message /\ m.method = "change" /\ m.file = f /\ m.version = version[f] + 1
        /\ Standing(m) = [text |-> text, version |-> version[f] + 1]
    BY <2>1, MessageType DEF Named, Standing
  <2>3. EditorSays(m) /\ IsOpen(buffers, m.file)
    BY <1>2, <2>2 DEF EditorSays, EditorChange, Send, Do, OnDocument
  <2> QED
    BY <2>2, <2>3
<1>3. ASSUME NEW f \in Files, EditorSave(f)
      PROVE  \E m \in Message : EditorSays(m) /\ m.method # "change"
  <2> DEFINE m == Named("save", f, buffers[f].text, version[f])
  <2>1. m \in Message /\ m.method = "save" /\ m.file = f
    BY MessageType, ClosedDocument DEF LSTypeOK, Named
  <2>2. EditorSays(m)
    BY <1>3, <2>1 DEF EditorSays, EditorSave, Send, Do, OnDocument, MakesPublish
  <2> QED
    BY <2>1, <2>2
<1>4. ASSUME NEW f \in Files, EditorClose(f)
      PROVE  \E m \in Message : EditorSays(m) /\ m.method # "change"
  <2> DEFINE m == Named("close", f, buffers[f].text, version[f])
  <2>1. m \in Message /\ m.method = "close" /\ m.file = f /\ Standing(m) = Closed
    BY MessageType, ClosedDocument DEF LSTypeOK, Named, Standing
  <2>2. EditorSays(m)
    BY <1>4, <2>1 DEF EditorSays, EditorClose, Send, Do, OnDocument
  <2> QED
    BY <2>1, <2>2
<1>5. ASSUME EditorWatched \/ EditorOpenForeign \/ EditorShutdown
      PROVE  \E m \in Message : EditorSays(m) /\ m.method # "change"
  <2>1. \A k \in {"watched", "foreign", "shutdown"} :
          [method |-> k] \in Message /\ [method |-> k].method = k
    BY MessageType
  <2>2. PICK k \in {"watched", "foreign", "shutdown"} : EditorSays([method |-> k])
    BY <1>5, <2>1 DEF EditorSays, EditorWatched, EditorOpenForeign, EditorShutdown, Send, Do,
       OnDocument, serverVars, MakesPublish
  <2> QED
    BY <2>1, <2>2
<1>6. ASSUME NEW f \in Files, NEW text \in Contents, WriteFile(f, text)
      PROVE  UNCHANGED <<toServer, buffers, toEditor, serverVars, shown>> /\ announced' = FALSE
  BY <1>6 DEF WriteFile, Do
<1> QED
  BY <1>1, <1>2, <1>3, <1>4, <1>5, <1>6 DEF EditorNext

-----------------------------------------------------------------------------
(***************************************************************************)
(* The invariant, one part at a time.                                      *)
(***************************************************************************)
LEMMA ServerInvInit == Init => ServerInv
<1> SUFFICES ASSUME Init
             PROVE  ServerInv
  OBVIOUS
<1>1. LSTypeOK
  <2>1. <<>> \in Seq(Message) /\ <<>> \in Seq(Notification)
    BY EmptySeq
  <2>2. \A f \in Files : Clearing(f) \in Notification /\ Clearing(f).file = f
    BY ClosedDocument DEF Clearing, Notification
  <2>3. 0 \in 0..MaxVersion /\ disk \in [Files -> Contents]
    BY ProjectAssumption DEF Init
  <2> QED
    BY <2>1, <2>2, <2>3, ClosedDocument DEF Init, LSTypeOK
<1>2. MirrorInv
  <2>1. toServer = <<>> /\ DOMAIN toServer = {} /\ \A f \in Files : documents[f] = buffers[f]
    BY DEF Init
  <2> QED
    BY <2>1 DEF MirrorInv, Mirrors, ChangesApply
<1>3. VersionInv
  <2>1. DOMAIN toServer = {} /\ DOMAIN toEditor = {}
    BY DEF Init
  <2>2. \A f \in Files : ~IsOpen(buffers, f) /\ ~IsOpen(documents, f) /\ shown[f] = Clearing(f)
    BY DEF Init, IsOpen
  <2>3. \A f \in Files : shown[f].version = NoVersion
    <3>1. \A f : Clearing(f).version = NoVersion
      BY DEF Clearing, Closed
    <3> QED
      BY <2>2, <3>1
  <2>4. \A f \in Files : Honest(shown[f])
    BY <2>3 DEF Honest
  <2> QED
    BY <2>1, <2>2, <2>4 DEF VersionInv
<1>4. NoOrphanDiagnostics
  <2>1. ASSUME NEW f \in Files
        PROVE  ~LastWord(f).faulty
    <3>1. IsAbsent(toEditor, f)
      BY DEF Init, IsAbsent
    <3>2. LastWord(f) = shown[f]
      BY <3>1, WordOfAbsent, LastWordIn
    <3> QED
      BY <3>2 DEF Init, Clearing
  <2> QED
    BY <2>1 DEF NoOrphanDiagnostics
<1>5. ToldInv
  BY DEF Init, ToldInv
<1> QED
  BY <1>1, <1>2, <1>3, <1>4, <1>5 DEF ServerInv

LEMMA TypeNext == LSTypeOK /\ MirrorInv /\ [Next]_vars => LSTypeOK'
<1> SUFFICES ASSUME LSTypeOK, MirrorInv, [Next]_vars
             PROVE  LSTypeOK'
  OBVIOUS
<1>1. CASE EditorNext
  <2> DEFINE FilesOK == /\ disk \in [Files -> Contents] /\ unwatched \subseteq Files
                        /\ version \in [Files -> 0..MaxVersion] /\ announced \in BOOLEAN
  <2>1. FilesOK'
    <3> Documents \subseteq Files /\ \A f \in Files : Texts[f] \subseteq Contents
      BY ProjectAssumption DEF Files
    <3>1. ASSUME NEW f \in Files, EditorOpen(f) PROVE FilesOK'
      <4>1. version[f] + 1 \in 0..MaxVersion
        BY <3>1, ProjectAssumption DEF LSTypeOK, EditorOpen
      <4> QED
        BY <3>1, <4>1 DEF LSTypeOK, EditorOpen, Do
    <3>2. ASSUME NEW f \in Files, NEW text \in Contents, EditorChange(f, text) PROVE FilesOK'
      <4>1. version[f] + 1 \in 0..MaxVersion
        BY <3>2, ProjectAssumption DEF LSTypeOK, EditorChange
      <4> QED
        BY <3>2, <4>1 DEF LSTypeOK, EditorChange, Do
    <3>3. ASSUME NEW f \in Files, EditorSave(f) PROVE FilesOK'
      <4>1. buffers[f].text \in Contents
        BY ClosedDocument DEF LSTypeOK
      <4> QED
        BY <3>3, <4>1 DEF LSTypeOK, EditorSave, Do
    <3>4. ASSUME NEW f \in Files, EditorClose(f) PROVE FilesOK'
      BY <3>4 DEF LSTypeOK, EditorClose, Do
    <3>5. ASSUME NEW f \in Files, NEW text \in Contents, WriteFile(f, text) PROVE FilesOK'
      BY <3>5 DEF LSTypeOK, WriteFile, Do
    <3>6. ASSUME EditorWatched \/ EditorOpenForeign \/ EditorShutdown PROVE FilesOK'
      BY <3>6 DEF LSTypeOK, EditorWatched, EditorOpenForeign, EditorShutdown, Do
    <3> QED
      BY <1>1, <3>1, <3>2, <3>3, <3>4, <3>5, <3>6 DEF EditorNext
  <2>2. ASSUME NEW m \in Message, EditorSays(m)
        PROVE  toServer' \in Seq(Message) /\ buffers' \in [Files -> Document]
    <3>1. toServer' \in Seq(Message)
      BY <2>2, AppendProperties DEF LSTypeOK, EditorSays
    <3>2. buffers' \in [Files -> Document]
      BY <2>2, MessageType DEF LSTypeOK, EditorSays, OnDocument
    <3> QED
      BY <3>1, <3>2
  <2>3. toServer' \in Seq(Message) /\ buffers' \in [Files -> Document]
    BY <1>1, <2>2, EditorSpoke DEF LSTypeOK
  <2>4. UNCHANGED <<toEditor, serverVars, shown>>
    BY <1>1, EditorSpoke DEF EditorSays
  <2> QED
    BY <2>1, <2>3, <2>4 DEF LSTypeOK, serverVars
<1>2. CASE HandleMessage
  <2> DEFINE m == Head(toServer)
  <2>1. /\ UNCHANGED <<editorVars, shown>> /\ documents' \in [Files -> Document]
        /\ toServer' = Tail(toServer) /\ toServer # <<>>
    BY <1>2, MessageHandled
  <2>2. toServer' \in Seq(Message)
    BY <2>1, HeadTailProperties DEF LSTypeOK
  <2>3. running' \in BOOLEAN
    BY <1>2 DEF LSTypeOK, HandleMessage, DidOpen, DidChange, DidSave, DidClose,
       DidChangeWatchedFiles, DidOpenForeign, Shutdown
  <2> HIDE DEF m
  <2>4. toEditor' \in Seq(Notification) /\ published' \subseteq Files
    <3>1. CASE Publish(documents)
      BY <3>1, PublishedType
    <3>2. CASE DidClose(m) /\ m.file \in Files
      <4>1. Clearing(m.file) \in Notification
        BY <3>2, ClosedDocument DEF Clearing, Notification
      <4> QED
        BY <3>2, <4>1, AppendProperties DEF LSTypeOK, DidClose
    <3>3. CASE KeepQuiet
      BY <3>3 DEF LSTypeOK, KeepQuiet
    <3> QED
      BY <1>2, <3>1, <3>2, <3>3, MessageAnswered DEF m
  <2> QED
    BY <2>1, <2>2, <2>3, <2>4 DEF LSTypeOK, editorVars
<1>3. CASE ShowDiagnostics
  <2>1. Head(toEditor) \in Notification /\ toEditor' \in Seq(Notification)
    BY <1>3, HeadTailProperties DEF LSTypeOK, ShowDiagnostics
  <2>2. Head(toEditor).file \in Files
    BY <2>1 DEF Notification
  <2> QED
    BY <1>3, <2>1, <2>2 DEF LSTypeOK, ShowDiagnostics, editorVars, serverVars
<1>4. CASE UNCHANGED vars
  BY <1>4 DEF LSTypeOK, vars, editorVars, serverVars
<1> QED
  BY <1>1, <1>2, <1>3, <1>4 DEF Next

LEMMA MirrorNext == LSTypeOK /\ LSTypeOK' /\ MirrorInv /\ [Next]_vars => MirrorInv'
<1> SUFFICES ASSUME LSTypeOK, LSTypeOK', MirrorInv, [Next]_vars
             PROVE  MirrorInv'
  OBVIOUS
<1>1. /\ toServer \in Seq(Message) /\ documents \in [Files -> Document]
      /\ buffers \in [Files -> Document] /\ buffers' \in [Files -> Document]
      /\ Mirrors(toServer, documents, buffers) /\ ChangesApply(toServer, documents)
  BY DEF LSTypeOK, MirrorInv
<1>2. CASE EditorNext
  <2>1. ASSUME NEW m \in Message, EditorSays(m), m.method = "change" => IsOpen(buffers, m.file)
        PROVE  MirrorInv'
    <3>1. toServer' = Append(toServer, m) /\ documents' = documents
      BY <2>1 DEF EditorSays, serverVars
    <3>2. m.method \in OnDocument => m.file \in Files
      BY MessageType
    <3>3. \A f \in Files : buffers'[f] = IF m.method \in OnDocument /\ m.file = f
                                         THEN Standing(m) ELSE buffers[f]
      BY <1>1, <2>1, <3>2 DEF EditorSays
    <3>4. m.method = "change" => buffers[m.file] # Closed
      BY <2>1 DEF IsOpen
    <3>5. /\ Mirrors(Append(toServer, m), documents, buffers')
          /\ ChangesApply(Append(toServer, m), documents)
      BY <1>1, <3>3, <3>4, MirrorSent
    <3> QED
      BY <3>1, <3>5 DEF MirrorInv
  <2>2. CASE UNCHANGED <<toServer, buffers, toEditor, serverVars, shown>>
    BY <1>1, <2>2 DEF MirrorInv, serverVars
  <2> QED
    BY <1>2, <2>1, <2>2, EditorSpoke
<1>3. CASE HandleMessage
  <2>1. /\ toServer # <<>> /\ toServer' = Tail(toServer) /\ buffers' = buffers
        /\ documents' \in [Files -> Document]
        /\ \A f \in Files : documents'[f] =
             IF Tells(toServer, 1, f) THEN Standing(Head(toServer)) ELSE documents[f]
    BY <1>3, MessageHandled DEF editorVars
  <2>2. /\ Mirrors(Tail(toServer), documents', buffers)
        /\ ChangesApply(Tail(toServer), documents')
    BY <1>1, <2>1, MirrorHandled
  <2> QED
    BY <2>1, <2>2 DEF MirrorInv
<1>4. CASE ShowDiagnostics \/ UNCHANGED vars
  BY <1>1, <1>4 DEF MirrorInv, ShowDiagnostics, vars, editorVars, serverVars
<1> QED
  BY <1>2, <1>3, <1>4 DEF Next

\* A new version takes nothing from what older versions say.
LEMMA SameTextKept ==
  ASSUME LSTypeOK, NEW g \in Files, NEW v \in Versions, NEW text, SameText(g, v, text),
         \/ version'[g] = version[g] /\ (buffers'[g] = buffers[g] \/ buffers'[g] = Closed)
         \/ version'[g] = version[g] + 1 /\ buffers'[g].version = version[g] + 1
  PROVE  SameText(g, v, text)'
<1>1. v \in Nat /\ version[g] \in Nat /\ v # Closed.version /\ v <= version[g]
  BY ProjectAssumption, ClosedDocument DEF LSTypeOK, Versions, SameText
<1>2. CASE version'[g] = version[g] /\ (buffers'[g] = buffers[g] \/ buffers'[g] = Closed)
  BY <1>1, <1>2 DEF SameText
<1>3. CASE version'[g] = version[g] + 1 /\ buffers'[g].version = version[g] + 1
  BY <1>1, <1>3 DEF SameText
<1> QED
  BY <1>2, <1>3

LEMMA VersionStep ==
  ASSUME LSTypeOK, VersionInv, EditorNext
  PROVE  /\ \A g \in Files :
              \/ version'[g] = version[g] /\ (buffers'[g] = buffers[g] \/ buffers'[g] = Closed)
              \/ version'[g] = version[g] + 1 /\ buffers'[g].version = version[g] + 1
         /\ \A g \in Files : IsOpen(buffers, g)' => buffers'[g].version = version'[g]
<1> DEFINE Steps ==
      /\ \A g \in Files :
           \/ version'[g] = version[g] /\ (buffers'[g] = buffers[g] \/ buffers'[g] = Closed)
           \/ version'[g] = version[g] + 1 /\ buffers'[g].version = version[g] + 1
      /\ \A g \in Files : buffers'[g] # Closed => buffers'[g].version = version'[g]
<1>1. /\ version \in [Files -> 0..MaxVersion] /\ buffers \in [Files -> Document]
      /\ \A g \in Files : buffers[g] # Closed => buffers[g].version = version[g]
  BY DEF LSTypeOK, VersionInv, IsOpen
<1>2. ASSUME NEW f \in Files, NEW text,
             buffers' = [buffers EXCEPT ![f] = [text |-> text, version |-> version[f] + 1]],
             version' = [version EXCEPT ![f] = @ + 1]
      PROVE  Steps
  BY <1>1, <1>2
<1>3. ASSUME NEW f \in Files, EditorClose(f)
      PROVE  Steps
  BY <1>1, <1>3 DEF EditorClose
<1>4. ASSUME version' = version, buffers' = buffers
      PROVE  Steps
  BY <1>1, <1>4
<1>5. ASSUME NEW f \in Files, EditorOpen(f) \/ \E text : EditorChange(f, text)
      PROVE  Steps
  BY <1>2, <1>5 DEF EditorOpen, EditorChange
<1>6. ASSUME NEW f, EditorSave(f) \/ \E text : WriteFile(f, text)
      PROVE  Steps
  BY <1>4, <1>6 DEF EditorSave, WriteFile
<1>7. ASSUME EditorWatched \/ EditorOpenForeign \/ EditorShutdown
      PROVE  Steps
  BY <1>4, <1>7 DEF EditorWatched, EditorOpenForeign, EditorShutdown
<1>8. Documents \subseteq Files
  BY DEF Files
<1> HIDE DEF Steps
<1>9. Steps
  BY <1>3, <1>5, <1>6, <1>7, <1>8 DEF EditorNext
<1> QED
  BY <1>9 DEF IsOpen, Steps

LEMMA VersionNext == LSTypeOK /\ LSTypeOK' /\ MirrorInv /\ VersionInv /\ [Next]_vars => VersionInv'
<1> SUFFICES ASSUME LSTypeOK, LSTypeOK', MirrorInv, VersionInv, [Next]_vars
             PROVE  VersionInv'
  OBVIOUS
<1>1. /\ toServer \in Seq(Message) /\ toEditor \in Seq(Notification)
      /\ documents \in [Files -> Document] /\ shown \in [Files -> Notification]
      /\ DOMAIN toServer = 1..Len(toServer) /\ DOMAIN toEditor = 1..Len(toEditor)
      /\ Len(toServer) \in Nat /\ Len(toEditor) \in Nat
  BY LenProperties DEF LSTypeOK
<1>2. /\ \A i \in DOMAIN toServer : toServer[i] \in Message
      /\ \A i \in DOMAIN toEditor : toEditor[i] \in Notification
  BY <1>1, ElementOfSeq
<1>3. CASE EditorNext
  <2>1. ASSUME NEW g \in Files, NEW v \in Versions, NEW text, SameText(g, v, text)
        PROVE  SameText(g, v, text)'
    BY <1>3, <2>1, VersionStep, SameTextKept
  <2>2. \A g \in Files : IsOpen(buffers, g)' => buffers'[g].version = version'[g]
    BY <1>3, VersionStep
  <2>3. ASSUME NEW n \in Notification, Honest(n)
        PROVE  Honest(n)'
    <3> SUFFICES ASSUME n.version # NoVersion
                 PROVE  SameText(n.file, n.version, n.text)'
      BY DEF Honest
    <3>1. n.file \in Files /\ n.version \in Versions
      BY DEF Notification
    <3> QED
      BY <2>1, <2>3, <3>1 DEF Honest
  <2>4. UNCHANGED <<toEditor, serverVars, shown>>
    BY <1>3, EditorSpoke DEF EditorSays
  <2>5. ASSUME NEW i \in DOMAIN toEditor'
        PROVE  Honest(toEditor[i])'
    BY <1>2, <2>3, <2>4, <2>5 DEF VersionInv
  <2>6. ASSUME NEW f \in Files
        PROVE  Honest(shown[f])'
    BY <1>1, <2>3, <2>4 DEF VersionInv
  <2>7. ASSUME NEW f \in Files, IsOpen(documents, f)
        PROVE  SameText(f, documents[f].version, documents[f].text)'
    <3>1. documents[f].version \in Versions /\ documents' = documents
      BY <1>1, <2>4, <2>7, ClosedDocument DEF IsOpen, serverVars
    <3>2. SameText(f, documents[f].version, documents[f].text)
      BY <2>7 DEF VersionInv
    <3> QED
      BY <2>1, <3>1, <3>2
  <2>8. ASSUME NEW f \in Files, IsOpen(documents, f)'
        PROVE  SameText(f, documents[f].version, documents[f].text)'
    BY <2>4, <2>7, <2>8 DEF IsOpen, serverVars
  <2>9. ASSUME NEW i \in DOMAIN toServer, toServer[i].method \in {"open", "change"}
        PROVE  SameText(toServer[i].file, toServer[i].version, toServer[i].text)
               /\ toServer[i].file \in Files /\ toServer[i].version \in Versions
    BY <1>2, <2>9, MessageType DEF VersionInv, OnDocument
  <2>10. ASSUME NEW k \in Message, k.method \in {"open", "change"},
                k.file \in Files, k.version \in Versions, SameText(k.file, k.version, k.text)
         PROVE  SameText(k.file, k.version, k.text)'
    BY <2>1, <2>10
  <2>11. ASSUME NEW m \in Message, EditorSays(m), m.method \in {"open", "change"}
         PROVE  SameText(m.file, m.version, m.text)'
    <3>1. m.file \in Files /\ m.version \in Versions /\ m.version \in Nat
      BY <2>11, MessageType, ProjectAssumption DEF OnDocument, Versions
    <3>2. version'[m.file] = m.version
      BY <2>11, <3>1 DEF EditorSays, LSTypeOK
    <3>3. buffers'[m.file] = Standing(m) /\ Standing(m).text = m.text
      BY <2>11, <3>1 DEF EditorSays, LSTypeOK, OnDocument, Standing
    <3> QED
      BY <3>1, <3>2, <3>3 DEF SameText
  <2>12. ASSUME NEW i \in DOMAIN toServer', toServer'[i].method \in {"open", "change"}
         PROVE  SameText(toServer[i].file, toServer[i].version, toServer[i].text)'
    <3>1. CASE toServer' = toServer
      BY <1>2, <2>9, <2>10, <2>12, <3>1
    <3>2. ASSUME NEW m \in Message, EditorSays(m)
          PROVE  SameText(toServer[i].file, toServer[i].version, toServer[i].text)'
      <4>1. /\ DOMAIN toServer' = 1..(Len(toServer) + 1)
            /\ toServer'[Len(toServer) + 1] = m
            /\ \A j \in DOMAIN toServer : toServer'[j] = toServer[j]
        BY <1>1, <3>2, AppendProperties, LenProperties DEF EditorSays
      <4>2. CASE i \in DOMAIN toServer
        BY <1>2, <2>9, <2>10, <2>12, <4>1, <4>2
      <4>3. CASE i = Len(toServer) + 1
        BY <2>11, <2>12, <3>2, <4>1, <4>3
      <4> QED
        BY <1>1, <4>1, <4>2, <4>3
    <3> QED
      BY <1>3, <3>1, <3>2, EditorSpoke
  <2> QED
    BY <2>2, <2>5, <2>6, <2>8, <2>12 DEF VersionInv
<1>4. CASE HandleMessage
  <2> DEFINE m == Head(toServer)
  <2>1. /\ toServer # <<>> /\ toServer' = Tail(toServer)
        /\ version' = version /\ buffers' = buffers /\ shown' = shown
        /\ \A f \in Files : documents'[f] =
             IF Tells(toServer, 1, f) THEN Standing(m) ELSE documents[f]
    BY <1>4, MessageHandled DEF editorVars
  <2>2. /\ Len(toServer) \in Nat \ {0} /\ m = toServer[1] /\ 1 \in DOMAIN toServer
        /\ DOMAIN toServer' = 1..(Len(toServer) - 1)
        /\ \A i \in DOMAIN toServer' : i + 1 \in DOMAIN toServer /\ toServer'[i] = toServer[i + 1]
    BY <1>1, <2>1, HeadTailProperties, EmptySeq, LenProperties
  <2>3. \A g, v, text : SameText(g, v, text)' <=> SameText(g, v, text)
    BY <2>1 DEF SameText
  <2>4. \A n : Honest(n)' <=> Honest(n)
    BY <2>1 DEF Honest, SameText
  <2> HIDE DEF m
  <2>5. ASSUME NEW f \in Files, documents'[f] # Closed
        PROVE  SameText(f, documents'[f].version, documents'[f].text)
    <3>1. CASE Tells(toServer, 1, f)
      <4>1. documents'[f] = Standing(m) /\ m.file = f /\ m.method \in OnDocument
        BY <2>1, <2>2, <3>1 DEF Tells
      <4>2. m.method \in {"open", "change"}
        BY <2>5, <4>1 DEF Standing, OnDocument
      <4>3. documents'[f] = [text |-> m.text, version |-> m.version]
        BY <4>1, <4>2 DEF Standing
      <4>4. SameText(f, m.version, m.text)
        BY <2>2, <4>1, <4>2 DEF VersionInv
      <4> QED
        BY <4>3, <4>4
    <3>2. CASE ~Tells(toServer, 1, f)
      BY <2>1, <2>5, <3>2 DEF VersionInv, IsOpen
    <3> QED
      BY <3>1, <3>2
  <2>6. ASSUME NEW i \in DOMAIN toServer', toServer'[i].method \in {"open", "change"}
        PROVE  SameText(toServer'[i].file, toServer'[i].version, toServer'[i].text)
    BY <2>2, <2>6 DEF VersionInv
  <2>7. ASSUME NEW i \in DOMAIN toEditor'
        PROVE  Honest(toEditor'[i])
    <3> DEFINE Truths == {n \in Notification : Honest(n)}
    <3>1. toEditor \in Seq(Truths)
      <4>1. \A j \in 1..Len(toEditor) : toEditor[j] \in Truths
        BY <1>1, <1>2 DEF VersionInv
      <4>2. toEditor \in [1..Len(toEditor) -> Truths]
        BY <1>1, <4>1, LenProperties
      <4> QED
        BY <1>1, <4>2, SeqDef
    <3>2. \A f \in Files : Clearing(f) \in Truths
      <4>1. \A f : Clearing(f).version = NoVersion
        BY DEF Clearing, Closed
      <4> QED
        BY <1>1, <4>1, PublicationType DEF Honest
    <3>3. toEditor' \in Seq(Truths)
      <4>1. CASE Publish(documents)
        <5>1. ASSUME NEW g \in Publications(documents)
              PROVE  Publication(documents, g) \in Truths
          <6>1. g \in Files /\ Publication(documents, g) \in Notification
            BY <1>1, PublicationType
          <6>2. ASSUME documents[g].version # NoVersion
                PROVE  SameText(g, documents[g].version, documents[g].text)
            <7>1. documents[g] # Closed
              BY <1>1, <6>1, <6>2, ClosedDocument
            <7> QED
              BY <6>1, <7>1 DEF IsOpen, VersionInv
          <6>3. Honest(Publication(documents, g))
            BY <6>2 DEF Honest, Publication
          <6> QED
            BY <6>1, <6>3
        <5>2. \A g \in Withdrawn(documents) : Clearing(g) \in Truths
          BY <3>2 DEF Withdrawn, LSTypeOK
        <5> QED
          BY <3>1, <4>1, <5>1, <5>2, PublishedKinds
      <4>2. CASE DidClose(m) /\ m.file \in Files
        BY <3>1, <3>2, <4>2, AppendProperties DEF DidClose
      <4>3. CASE KeepQuiet
        BY <3>1, <4>3 DEF KeepQuiet
      <4> QED
        BY <1>4, <4>1, <4>2, <4>3, MessageAnswered DEF m
    <3>4. toEditor'[i] \in Truths
      BY <3>3, <2>7, ElementOfSeq, LenProperties
    <3> QED
      BY <3>4
  <2> QED
    BY <2>1, <2>3, <2>4, <2>5, <2>6, <2>7 DEF VersionInv, IsOpen
<1>5. CASE ShowDiagnostics
  <2>1. /\ toEditor # <<>> /\ toEditor' = Tail(toEditor)
        /\ shown' = [shown EXCEPT ![Head(toEditor).file] = Head(toEditor)]
        /\ UNCHANGED <<version, buffers, toServer, documents>>
    BY <1>5 DEF ShowDiagnostics, editorVars, serverVars
  <2>2. /\ Head(toEditor) = toEditor[1] /\ 1 \in DOMAIN toEditor
        /\ \A i \in DOMAIN toEditor' : i + 1 \in DOMAIN toEditor /\ toEditor'[i] = toEditor[i + 1]
    BY <1>1, <2>1, HeadTailProperties, EmptySeq, LenProperties
  <2>3. \A g, v, text : SameText(g, v, text)' <=> SameText(g, v, text)
    BY <2>1 DEF SameText
  <2>4. \A n : Honest(n)' <=> Honest(n)
    BY <2>1 DEF Honest, SameText
  <2>5. \A i \in DOMAIN toEditor' : Honest(toEditor'[i])
    BY <2>2 DEF VersionInv
  <2>6. \A f \in Files : Honest(shown'[f])
    BY <1>1, <2>1, <2>2 DEF VersionInv
  <2> QED
    BY <2>1, <2>3, <2>4, <2>5, <2>6 DEF VersionInv, IsOpen
<1>6. CASE UNCHANGED vars
  <2>1. UNCHANGED <<version, buffers, toServer, documents, toEditor, shown>>
    BY <1>6 DEF vars, editorVars, serverVars
  <2>2. \A g, v, text : SameText(g, v, text)' <=> SameText(g, v, text)
    BY <2>1 DEF SameText
  <2>3. \A n : Honest(n)' <=> Honest(n)
    BY <2>1 DEF Honest, SameText
  <2> QED
    BY <2>1, <2>2, <2>3 DEF VersionInv, IsOpen
<1> QED
  BY <1>3, <1>4, <1>5, <1>6 DEF Next

\* Reading a notification leaves the last words as they are.
LEMMA WordKept ==
  ASSUME LSTypeOK, NEW f \in Files, ShowDiagnostics \/ UNCHANGED <<toEditor, shown>>
  PROVE  LastWord(f)' = LastWord(f)
<1>1. LastWord(f) = WordIn(toEditor, shown, f) /\ LastWord(f)' = WordIn(toEditor', shown', f)
  BY LastWordIn
<1>2. CASE ShowDiagnostics
  <2>1. /\ toEditor \in Seq(Notification) /\ toEditor # <<>> /\ toEditor' = Tail(toEditor)
        /\ f \in DOMAIN shown
        /\ shown' = [shown EXCEPT ![Head(toEditor).file] = Head(toEditor)]
    BY <1>2 DEF LSTypeOK, ShowDiagnostics
  <2>2. WordIn(Tail(toEditor), shown', f) = WordIn(toEditor, shown, f)
    BY <2>1, WordAfterReading
  <2> QED
    BY <1>1, <2>1, <2>2
<1>3. CASE UNCHANGED <<toEditor, shown>>
  BY <1>1, <1>3
<1> QED
  BY <1>2, <1>3

LEMMA OrphanNext ==
  LSTypeOK /\ NoOrphanDiagnostics /\ [Next]_vars => NoOrphanDiagnostics'
<1> SUFFICES ASSUME LSTypeOK, NoOrphanDiagnostics, [Next]_vars, NEW f \in Files,
                    LastWord(f)'.faulty
             PROVE  f \in published'
  BY DEF NoOrphanDiagnostics
<1>1. LastWord(f).faulty => f \in published
  BY DEF NoOrphanDiagnostics
<1>2. CASE EditorNext \/ ShowDiagnostics \/ UNCHANGED vars
  <2>1. ShowDiagnostics \/ UNCHANGED <<toEditor, shown>>
    BY <1>2, EditorSpoke DEF EditorSays, vars, editorVars, serverVars
  <2>2. published' = published
    BY <1>2, EditorSpoke DEF EditorSays, ShowDiagnostics, vars, editorVars, serverVars
  <2> QED
    BY <1>1, <2>1, <2>2, WordKept
<1>3. CASE HandleMessage
  <2>1. shown' = shown
    BY <1>3 DEF HandleMessage
  <2>2. CASE Publish(documents)
    <3>1. published' = Publications(documents)
      BY <2>2 DEF Publish
    <3>2. CASE f \in Publications(documents)
      BY <3>1, <3>2
    <3>3. CASE f \in Withdrawn(documents)
      <4>1. f \notin Publications(documents) /\ LastWord(f)' = Clearing(f)
        BY <2>1, <2>2, <3>3, PublishedWord DEF Withdrawn
      <4> QED
        BY <4>1 DEF Clearing
    <3>4. CASE f \notin Publications(documents) /\ f \notin Withdrawn(documents)
      <4>1. LastWord(f)' = LastWord(f) /\ f \notin published
        BY <2>1, <2>2, <3>4, PublishedWord DEF Withdrawn
      <4> QED
        BY <1>1, <4>1
    <3> QED
      BY <3>2, <3>3, <3>4
  <2>3. ASSUME NEW m, DidClose(m), m.file \in Files
        PROVE  f \in published'
    <3>1. published' = published \ {m.file}
      BY <2>3 DEF DidClose
    <3>2. CASE m.file \in published
      <4>1. toEditor' = Append(toEditor, Clearing(m.file)) /\ toEditor \in Seq(Notification)
        BY <2>3, <3>2 DEF DidClose, LSTypeOK
      <4>2. Clearing(m.file) \in Notification /\ Clearing(m.file).file = m.file
            /\ Clearing(m.file).faulty = FALSE
        BY <2>3, ClosedDocument DEF Clearing, Notification
      <4>3. LastWord(f)' = IF m.file = f THEN Clearing(m.file) ELSE LastWord(f)
        <5>1. WordIn(Append(toEditor, Clearing(m.file)), shown, f) =
                IF Clearing(m.file).file = f THEN Clearing(m.file) ELSE WordIn(toEditor, shown, f)
          BY <4>1, <4>2, WordAfterAppend
        <5>2. LastWord(f) = WordIn(toEditor, shown, f) /\ LastWord(f)' = WordIn(toEditor', shown', f)
          BY LastWordIn
        <5> QED
          BY <2>1, <4>1, <4>2, <5>1, <5>2
      <4> QED
        BY <1>1, <3>1, <4>2, <4>3
    <3>3. CASE m.file \notin published
      <4>1. UNCHANGED <<toEditor, shown>>
        BY <2>1, <2>3, <3>3 DEF DidClose
      <4>2. f \in published
        BY <1>1, <4>1, WordKept
      <4> QED
        BY <3>1, <3>3, <4>2
    <3> QED
      BY <3>2, <3>3
  <2>4. CASE KeepQuiet
    <3>1. UNCHANGED <<toEditor, shown>> /\ published' = published
      BY <2>1, <2>4 DEF KeepQuiet
    <3> QED
      BY <1>1, <3>1, WordKept
  <2> QED
    BY <1>3, <2>2, <2>3, <2>4, MessageAnswered
<1> QED
  BY <1>2, <1>3 DEF Next

\* What is wrong depends on the files and the documents alone.
LEMMA SameFaults ==
  ASSUME disk' = disk, documents' = documents
  PROVE  Diagnosed(documents)' = Diagnosed(documents)
<1>1. Current(documents)' = Current(documents) /\ OpenFiles(documents)' = OpenFiles(documents)
      /\ \A f : Source(documents, f)' = Source(documents, f)
  BY DEF Current, Source, OpenFiles, IsOpen
<1>2. Configured(documents)' = Configured(documents)
  BY <1>1 DEF Configured
<1>3. Roots(documents)' = Roots(documents)
  BY <1>2 DEF Roots
<1>4. Compiled(documents)' = Compiled(documents)
  BY <1>1, <1>3 DEF Compiled
<1>5. CheckedLayouts(documents)' = CheckedLayouts(documents)
  BY <1>2, <1>4 DEF CheckedLayouts
<1> QED
  BY <1>1, <1>2, <1>3, <1>4, <1>5 DEF Diagnosed

LEMMA ToldNext ==
  LSTypeOK /\ MirrorInv /\ NoOrphanDiagnostics /\ ToldInv /\ [Next]_vars => ToldInv'
<1> SUFFICES ASSUME LSTypeOK, MirrorInv, NoOrphanDiagnostics, ToldInv, [Next]_vars, announced'
             PROVE  IF toServer' = <<>>
                    THEN \A f \in Files : LastWord(f)'.faulty <=> f \in Diagnosed(documents)'
                    ELSE MakesPublish(toServer[Len(toServer)])'
  BY DEF ToldInv
<1>1. toServer \in Seq(Message)
  BY DEF LSTypeOK
<1>2. CASE EditorNext
  <2>1. PICK m \in Message : EditorSays(m)
    BY <1>2, EditorSpoke
  <2>2. toServer' = Append(toServer, m) /\ MakesPublish(m)
    BY <2>1 DEF EditorSays
  <2>3. toServer' # <<>> /\ toServer'[Len(toServer')] = m
    BY <1>1, <2>2, AppendProperties
  <2>4. MakesPublish(m)'
    <3>1. m.method \in {"watched", "save"} /\ buffers' = buffers
      BY <2>1, <2>2 DEF EditorSays, MakesPublish, OnDocument
    <3> QED
      BY <2>2, <3>1 DEF MakesPublish, IsOpen
  <2> QED
    BY <2>3, <2>4 DEF MakesPublish
<1>3. CASE HandleMessage
  <2> DEFINE m == Head(toServer)
  <2>1. /\ toServer # <<>> /\ toServer' = Tail(toServer)
        /\ shown' = shown /\ announced /\ disk' = disk /\ buffers' = buffers
    BY <1>3 DEF HandleMessage, editorVars
  <2>2. /\ Len(toServer) \in Nat \ {0} /\ m = toServer[1] /\ toServer' \in Seq(Message)
        /\ Len(toServer') = Len(toServer) - 1
        /\ \A i \in 1..(Len(toServer) - 1) : toServer'[i] = toServer[i + 1]
    BY <1>1, <2>1, HeadTailProperties, EmptySeq, LenProperties
  <2>3. MakesPublish(toServer[Len(toServer)])
    BY <2>1 DEF ToldInv
  <2> HIDE DEF m
  <2>4. CASE toServer' # <<>>
    <3>1. Len(toServer') \in 1..(Len(toServer) - 1) /\ Len(toServer') + 1 = Len(toServer)
      BY <2>2, <2>4, EmptySeq
    <3>2. toServer'[Len(toServer')] = toServer[Len(toServer)]
      BY <2>2, <3>1
    <3> QED
      BY <2>1, <2>3, <2>4, <3>2 DEF MakesPublish, IsOpen
  <2>5. CASE toServer' = <<>>
    <3>1. Len(toServer) = 1 /\ MakesPublish(m)
      <4>1. Len(toServer') = 0
        BY <2>5
      <4>2. Len(toServer) = 1
        BY <2>2, <4>1
      <4>3. toServer[Len(toServer)] = m
        BY <2>2, <4>2
      <4> QED
        BY <2>3, <4>2, <4>3
    <3>2. m.method = "save" => IsOpen(documents, m.file)
      <4> SUFFICES ASSUME m.method = "save"
                   PROVE  IsOpen(documents, m.file)
        OBVIOUS
      <4>1. m \in Message /\ m.file \in Files /\ IsOpen(buffers, m.file)
        BY <1>1, <2>2, <3>1, ElementOfSeq, MessageType DEF MakesPublish
      <4>2. Untold(toServer, m.file, Len(toServer) + 1)
        <5>1. DOMAIN toServer = {1}
          BY <1>1, <3>1, LenProperties
        <5> QED
          BY <2>2, <5>1 DEF Untold, Tells, OnDocument
      <4>3. documents[m.file] = buffers[m.file]
        BY <4>1, <4>2 DEF MirrorInv, Mirrors
      <4> QED
        BY <4>1, <4>3 DEF IsOpen
    <3>3. Publish(documents) /\ documents' = documents
      BY <1>3, <3>1, <3>2, MessageAnswered DEF m, MakesPublish, DidClose
    <3>4. ASSUME NEW f \in Files
          PROVE  LastWord(f)'.faulty <=> f \in Diagnosed(documents)
      <4>1. CASE f \in Publications(documents)
        <5>1. LastWord(f)' = Publication(documents, f)
          BY <2>1, <3>3, <4>1, PublishedWord
        <5>2. Publication(documents, f).faulty = (f \in Diagnosed(documents))
          BY DEF Publication
        <5> QED
          BY <5>1, <5>2
      <4>2. CASE f \in Withdrawn(documents)
        <5>1. f \notin Publications(documents) /\ LastWord(f)' = Clearing(f)
          BY <2>1, <3>3, <4>2, PublishedWord DEF Withdrawn
        <5> QED
          BY <5>1 DEF Clearing, Publications
      <4>3. CASE f \notin Publications(documents) /\ f \notin Withdrawn(documents)
        <5>1. LastWord(f)' = LastWord(f) /\ f \notin published
          BY <2>1, <3>3, <4>3, PublishedWord DEF Withdrawn
        <5> QED
          BY <4>3, <5>1 DEF NoOrphanDiagnostics, Publications
      <4> QED
        BY <4>1, <4>2, <4>3
    <3> QED
      BY <2>1, <2>5, <3>3, <3>4, SameFaults
  <2> QED
    BY <2>4, <2>5
<1>4. CASE ShowDiagnostics \/ UNCHANGED vars
  <2>1. UNCHANGED <<toServer, announced, disk, buffers, documents>>
    BY <1>4 DEF ShowDiagnostics, vars, editorVars, serverVars
  <2>2. ShowDiagnostics \/ UNCHANGED <<toEditor, shown>>
    BY <1>4 DEF vars
  <2>3. \A f \in Files : LastWord(f)' = LastWord(f)
    BY <2>2, WordKept
  <2>4. \A x : MakesPublish(x)' <=> MakesPublish(x)
    BY <2>1 DEF MakesPublish, IsOpen
  <2> QED
    BY <2>1, <2>3, <2>4, SameFaults DEF ToldInv
<1> QED
  BY <1>2, <1>3, <1>4 DEF Next

LEMMA ServerInvNext == ServerInv /\ [Next]_vars => ServerInv'
BY TypeNext, MirrorNext, VersionNext, OrphanNext, ToldNext DEF ServerInv

-----------------------------------------------------------------------------
(***************************************************************************)
(* The types of the editor, the pipes and the server.                      *)
(***************************************************************************)
THEOREM ServerTypeCorrect == Spec => []LSTypeOK
<1>1. ServerInv => LSTypeOK
  BY DEF ServerInv
<1> QED
  BY <1>1, ServerInvInit, ServerInvNext, PTL DEF Spec

(***************************************************************************)
(* No orphans, in any project: what the editor shows as faulty, or will    *)
(* show when it has read all, can still be taken back.                     *)
(***************************************************************************)
THEOREM NoOrphanCorrect == Spec => []NoOrphanDiagnostics
<1>1. ServerInv => NoOrphanDiagnostics
  BY DEF ServerInv
<1> QED
  BY <1>1, ServerInvInit, ServerInvNext, PTL DEF Spec

(***************************************************************************)
(* What is shown for the version of the editor's document was computed     *)
(* from its text, however long the pipes are.                              *)
(***************************************************************************)
THEOREM StampedCorrect == Spec => []StampedDiagnosticsAreCurrent
<1>1. ServerInv => StampedDiagnosticsAreCurrent
  <2> SUFFICES ASSUME ServerInv, NEW f \in Files, IsOpen(buffers, f),
                      shown[f].version = buffers[f].version
               PROVE  shown[f].text = buffers[f].text
    BY DEF StampedDiagnosticsAreCurrent
  <2>1. buffers[f] \in Document /\ shown[f].file = f /\ Honest(shown[f])
    BY DEF ServerInv, LSTypeOK, VersionInv
  <2>2. buffers[f].version # NoVersion
    BY <2>1, ClosedDocument, ProjectAssumption DEF IsOpen
  <2> QED
    BY <2>1, <2>2 DEF Honest, SameText
<1> QED
  BY <1>1, ServerInvInit, ServerInvNext, PTL DEF Spec

(***************************************************************************)
(* The settled view is true: the documents the server has are then those   *)
(* of the editor, and its last words are about them.                       *)
(***************************************************************************)
THEOREM SettledViewCorrect == Spec => []SettledViewIsTrue
<1>1. ServerInv => SettledViewIsTrue
  <2> SUFFICES ASSUME ServerInv, announced, toServer = <<>>, toEditor = <<>>
               PROVE  {f \in Files : shown[f].faulty} = Diagnosed(buffers)
    BY DEF SettledViewIsTrue, ViewIsTrue
  <2>1. documents = buffers
    <3>1. \A f \in Files : Untold(toServer, f, Len(toServer) + 1)
      BY DEF Untold
    <3>2. \A f \in Files : documents[f] = buffers[f]
      BY <3>1 DEF ServerInv, MirrorInv, Mirrors
    <3> QED
      BY <3>2 DEF ServerInv, LSTypeOK
  <2>2. \A f \in Files : LastWord(f) = shown[f]
    BY LastWordIn, WordOfAbsent DEF IsAbsent
  <2>3. \A f \in Files : shown[f].faulty <=> f \in Diagnosed(buffers)
    BY <2>1, <2>2 DEF ServerInv, ToldInv
  <2>4. Diagnosed(buffers) \subseteq Files
    BY FaultsReported
  <2> QED
    BY <2>3, <2>4
<1> QED
  BY <1>1, ServerInvInit, ServerInvNext, PTL DEF Spec
=============================================================================
