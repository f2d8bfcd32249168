---------------------------- MODULE CrawlerProofs ----------------------------
(***************************************************************************)
(* Theorems about Crawler and IndexQuery, for any workspace, any number of   *)
(* crawls, and any crashes, failures and edits.                              *)
(***************************************************************************)
EXTENDS IndexQuery, FoldProofs

-----------------------------------------------------------------------------
(***************************************************************************)
(* The queue of a document                                                  *)
(***************************************************************************)
Items == Positions \X Kinds

LEMMA TurnsAreNumbers == \A item \in Items : Turn(item) \in Nat
  <1> SUFFICES ASSUME NEW item \in Items PROVE Turn(item) \in Nat
    OBVIOUS
  <1>1. item[1] \in Nat /\ item[2] \in AllKinds
    BY CrawlDatabaseAssumption DEF Items
  <1>2. \A kind \in AllKinds : KindOrder[kind] \in Nat
    BY DEF AllKinds, KindOrder
  <1> QED BY <1>1, <1>2 DEF Turn

LEMMA ItemsAreFinite == \A items \in SUBSET Items : IsFiniteSet(items)
  <1>1. IsFiniteSet(AllKinds)
    <2>1. AllKinds = {"references"} \cup {"definition"} \cup {"declaration"}
                       \cup {"highlights"} \cup {"hover"}
      BY DEF AllKinds
    <2> QED BY <2>1, FS_Singleton, FS_Union
  <1>2. IsFiniteSet(Positions) /\ IsFiniteSet(Kinds)
    BY <1>1, CrawlDatabaseAssumption, FS_Subset
  <1>3. IsFiniteSet(Items)
    BY <1>2, FS_Product DEF Items
  <1> QED BY <1>3, FS_Subset

LEMMA NextAndLast ==
  ASSUME NEW items \in SUBSET Items, items # {}
  PROVE  NextOf(items) \in items /\ LastOf(items) \in items
  <1> DEFINE number == [item \in Items |-> Turn(item)]
             turns == {Turn(item) : item \in items}
  <1>1. number \in [Items -> Nat] /\ turns \in SUBSET Nat /\ turns # {}
    BY TurnsAreNumbers
  <1>2. \E x \in items : \A y \in items : number[y] <= number[x]
    <2> HIDE DEF number
    <2> QED BY <1>1, ItemsAreFinite, GreatestNumber
  <1>3. \E least \in turns : \A n \in turns : least <= n
    <2> HIDE DEF turns
    <2> QED BY <1>1, LeastElement
  <1>4. \E x \in items : \A y \in items : Turn(y) <= Turn(x)
    BY <1>2
  <1>5. \E x \in items : \A y \in items : Turn(x) <= Turn(y)
    BY <1>3
  <1> QED BY <1>4, <1>5 DEF NextOf, LastOf

\* PassOver is a recursive function of the sets of items, which exists.
Start(database) == [db |-> database, queue |-> {}]

Passes(d, database, items, over) ==
    over = [s \in SUBSET items |-> IF s = {} THEN Start(database)
                                   ELSE Pass(d, LastOf(s), over[s \ {LastOf(s)}])]

LEMMA PassesExist ==
  ASSUME NEW d, NEW database, NEW items \in SUBSET Items
  PROVE  \E over : Passes(d, database, items, over)
  <1> DEFINE Small(k) == {s \in SUBSET items : Cardinality(s) <= k}
             Defined(k) ==
               \E over : over = [s \in Small(k) |->
                   IF s = {} THEN Start(database)
                   ELSE Pass(d, LastOf(s), over[s \ {LastOf(s)}])]
             undefined == {k \in Nat : ~ Defined(k)}
  <1>1. \A s \in SUBSET items : IsFiniteSet(s) /\ Cardinality(s) \in Nat
    BY ItemsAreFinite, FS_CardinalityType
  <1>2. \A s \in SUBSET items : s # {} =>
          /\ LastOf(s) \in s
          /\ Cardinality(s \ {LastOf(s)}) = Cardinality(s) - 1
    BY <1>1, NextAndLast, FS_RemoveElement
  <1>3. Defined(0)
    <2>1. \A s \in Small(0) : s = {}
      BY <1>1, FS_EmptySet
    <2> DEFINE over == [s \in Small(0) |-> Start(database)]
    <2>2. over = [s \in Small(0) |->
                   IF s = {} THEN Start(database)
                   ELSE Pass(d, LastOf(s), over[s \ {LastOf(s)}])]
      <3> HIDE DEF Small
      <3> QED BY <2>1
    <2> QED BY <2>2
  <1>4. ASSUME NEW k \in Nat, Defined(k) PROVE Defined(k + 1)
    <2>1. PICK over : over = [s \in Small(k) |->
                   IF s = {} THEN Start(database)
                   ELSE Pass(d, LastOf(s), over[s \ {LastOf(s)}])]
      BY <1>4
    <2> DEFINE more == [s \in Small(k + 1) |->
                   IF s = {} THEN Start(database)
                   ELSE Pass(d, LastOf(s), over[s \ {LastOf(s)}])]
    <2>2. Small(k) \subseteq Small(k + 1)
      BY <1>1
    <2>3. \A s \in Small(k) : more[s] = over[s]
      <3> HIDE DEF Small
      <3> QED BY <2>1, <2>2
    <2>4. \A s \in Small(k + 1) : s # {} => s \ {LastOf(s)} \in Small(k)
      BY <1>1, <1>2
    <2>5. more = [s \in Small(k + 1) |->
                   IF s = {} THEN Start(database)
                   ELSE Pass(d, LastOf(s), more[s \ {LastOf(s)}])]
      <3> HIDE DEF Small
      <3> QED BY <2>3, <2>4
    <2> QED BY <2>5
  <1>5. undefined = {}
    <2> SUFFICES ASSUME undefined # {} PROVE FALSE
      OBVIOUS
    <2>1. PICK least \in undefined : \A k \in undefined : least <= k
      <3>1. undefined \in SUBSET Nat
        OBVIOUS
      <3> HIDE DEF undefined
      <3> QED BY <3>1, LeastElement
    <2>2. least \in Nat /\ ~ Defined(least)
      OBVIOUS
    <2> HIDE DEF Defined
    <2>3. least # 0
      BY <1>3, <2>2
    <2>4. least - 1 \in Nat /\ ~ (least <= least - 1)
      BY <2>2, <2>3
    <2>5. Defined(least - 1)
      BY <2>1, <2>4
    <2>6. Defined(least - 1 + 1)
      BY <1>4, <2>4, <2>5
    <2>7. least - 1 + 1 = least
      BY <2>2
    <2> QED BY <2>2, <2>6, <2>7
  <1>6. Cardinality(items) \in Nat /\ Defined(Cardinality(items))
    <2> HIDE DEF Defined
    <2> QED BY <1>1, <1>5
  <1>7. Small(Cardinality(items)) = SUBSET items
    BY ItemsAreFinite, FS_Subset, <1>1
  <1> HIDE DEF Small
  <1> QED BY <1>6, <1>7 DEF Passes

LEMMA PassOverPasses ==
  ASSUME NEW d, NEW database, NEW items \in SUBSET Items
  PROVE  \E over : /\ Passes(d, database, items, over)
                   /\ PassOver(d, database, items) = over[items]
  <1> DEFINE over == CHOOSE g : g = [s \in SUBSET items |->
                        IF s = {} THEN Start(database)
                        ELSE Pass(d, LastOf(s), g[s \ {LastOf(s)}])]
  <1>1. PassOver(d, database, items) = over[items]
    BY DEF PassOver, MapThenFoldSet, Start
  <1>2. \E g : g = [s \in SUBSET items |->
                        IF s = {} THEN Start(database)
                        ELSE Pass(d, LastOf(s), g[s \ {LastOf(s)}])]
    <2>1. PICK g : Passes(d, database, items, g)
      BY PassesExist
    <2> QED BY <2>1 DEF Passes
  <1>3. over = [s \in SUBSET items |->
                        IF s = {} THEN Start(database)
                        ELSE Pass(d, LastOf(s), over[s \ {LastOf(s)}])]
    BY <1>2
  <1> QED BY <1>1, <1>3 DEF Passes

\* What holds of nothing passed over, and goes on to hold when one more item is,
\* holds of all of them.
LEMMA PassOverInduction ==
  ASSUME NEW items \in SUBSET Items, NEW Good, {} \in Good,
         \A s \in SUBSET items : s # {} /\ s \ {LastOf(s)} \in Good => s \in Good
  PROVE  items \in Good
  <1> DEFINE choose == [s \in SUBSET items |-> LastOf(s)]
  <1>1. \A s \in SUBSET items : choose[s] = LastOf(s)
    OBVIOUS
  <1>2. Chooses(items, choose)
    BY NextAndLast DEF Chooses
  <1> HIDE DEF choose
  <1>3. Inductive(items, choose, Good)
    BY <1>1 DEF Inductive
  <1>4. IsFiniteSet(items)
    BY ItemsAreFinite
  <1>5. SUBSET items \subseteq Good
    BY <1>2, <1>3, <1>4, SubsetInduction
  <1> QED BY <1>5

-----------------------------------------------------------------------------
(***************************************************************************)
(* What is true of a workspace                                              *)
(***************************************************************************)
TrueOf(world, o, kind, answer) ==
    \/ answer = Truth(world, o, kind)
    \/ /\ o[1] \in RazorDocs /\ kind \in {"references", "highlights"}
       /\ answer = {}

AnswersSound(world, answers) ==
    \A o \in Occurrences, kind \in Kinds :
        answers[<<o, kind>>].status = "complete" =>
            TrueOf(world, o, kind, answers[<<o, kind>>].locations)

EdgesSound(world, edges) ==
    \A o \in Occurrences : edges[o] # NoSymbol => o \in Mentions(world, edges[o])

DefinitionsSound(world, edges, definitions) ==
    /\ \A s \in Symbols : definitions[s] \subseteq Definitions(world, s)
    /\ \A o \in Occurrences : edges[o] # NoSymbol =>
          definitions[edges[o]] = Definitions(world, edges[o])

Sound(b) ==
    /\ AnswersSound(b.documents, b.answers)
    /\ EdgesSound(b.documents, b.edges)
    /\ DefinitionsSound(b.documents, b.edges, b.definitions)

LEMMA TruthOfKinds ==
  ASSUME NEW world, NEW o
  PROVE  /\ o \notin Named(world) => \A kind : Truth(world, o, kind) = {}
         /\ o \in Named(world) =>
              LET s == TokenAt(world, o).symbol IN
              /\ Truth(world, o, "references") = Mentions(world, s)
              /\ Truth(world, o, "highlights") = Mentions(world, s) \cap Of({o[1]})
              /\ Truth(world, o, "definition") = Definitions(world, s)
              /\ Truth(world, o, "declaration") = Definitions(world, s)
              /\ Truth(world, o, "hover") = Definitions(world, s)
  BY DEF Truth

LEMMA Mentioned ==
  ASSUME NEW world, NEW s
  PROVE  /\ Mentions(world, s) \subseteq Named(world)
         /\ Definitions(world, s) \subseteq Mentions(world, s)
         /\ Named(world) \subseteq Occurrences
         /\ \A x \in Mentions(world, s) : TokenAt(world, x).symbol = s
         /\ \A x \in Named(world) : x \in Mentions(world, TokenAt(world, x).symbol)
  BY DEF Mentions, Definitions, Named

LEMMA TruthIsPlaces ==
  ASSUME NEW world, NEW o, NEW kind \in AllKinds
  PROVE  Truth(world, o, kind) \subseteq Occurrences
  <1>1. CASE o \notin Named(world)
    BY <1>1, TruthOfKinds
  <1>2. CASE o \in Named(world)
    <2> DEFINE s == TokenAt(world, o).symbol
    <2>1. Mentions(world, s) \subseteq Occurrences /\ Definitions(world, s) \subseteq Occurrences
      BY Mentioned
    <2> HIDE DEF s
    <2> QED BY <1>2, <2>1, TruthOfKinds DEF AllKinds, s
  <1> QED BY <1>1, <1>2

\* What names the same symbol has the same answers, highlights in the same document.
LEMMA SameTruth ==
  ASSUME NEW world, NEW o \in Named(world), NEW x \in Named(world),
         TokenAt(world, o).symbol = TokenAt(world, x).symbol,
         NEW kind \in AllKinds, kind = "highlights" => x[1] = o[1]
  PROVE  Truth(world, x, kind) = Truth(world, o, kind)
  <1> DEFINE s == TokenAt(world, o).symbol
  <1>1. /\ Truth(world, o, "references") = Mentions(world, s)
        /\ Truth(world, o, "highlights") = Mentions(world, s) \cap Of({o[1]})
        /\ \A k \in {"definition", "declaration", "hover"} :
              Truth(world, o, k) = Definitions(world, s)
    BY TruthOfKinds
  <1>2. /\ Truth(world, x, "references") = Mentions(world, s)
        /\ Truth(world, x, "highlights") = Mentions(world, s) \cap Of({x[1]})
        /\ \A k \in {"definition", "declaration", "hover"} :
              Truth(world, x, k) = Definitions(world, s)
    BY TruthOfKinds
  <1> HIDE DEF s
  <1> QED BY <1>1, <1>2 DEF AllKinds

-----------------------------------------------------------------------------
(***************************************************************************)
(* The operations of the database                                           *)
(***************************************************************************)
LEMMA SpreadsTruth ==
  ASSUME NEW b \in Databases, Sound(b), NEW o \in Occurrences, NEW kind \in Kinds,
         NEW locations, TrueOf(b.documents, o, kind, locations),
         NEW x \in SpreadsTo(b, o, kind, locations)
  PROVE  TrueOf(b.documents, x, kind, locations)
  <1> DEFINE w == b.documents
  <1>1. kind \in AllKinds
    BY CrawlDatabaseAssumption
  <1>2. x \in Occurrences
    BY <1>1 DEF SpreadsTo, SameSymbol, SameReferences, Databases, AllKinds
  <1>3. x \in SameSymbol(b, o) =>
          /\ o \in Named(w) /\ x \in Named(w)
          /\ TokenAt(w, o).symbol = TokenAt(w, x).symbol
    <2> SUFFICES ASSUME x \in SameSymbol(b, o)
                 PROVE  /\ o \in Named(w) /\ x \in Named(w)
                        /\ TokenAt(w, o).symbol = TokenAt(w, x).symbol
      OBVIOUS
    <2>1. o \in Mentions(w, b.edges[o]) /\ x \in Mentions(w, b.edges[o])
      BY <1>2 DEF SameSymbol, Sound, EdgesSound
    <2> QED BY <2>1, Mentioned
  <1>4. x \in SameReferences(b, o) =>
          /\ o \in Named(w) /\ x \in Named(w)
          /\ TokenAt(w, o).symbol = TokenAt(w, x).symbol
    <2> SUFFICES ASSUME x \in SameReferences(b, o)
                 PROVE  /\ o \in Named(w) /\ x \in Named(w)
                        /\ TokenAt(w, o).symbol = TokenAt(w, x).symbol
      OBVIOUS
    <2> DEFINE known == b.answers[<<o, "references">>]
    <2>1. /\ "references" \in Kinds /\ known.status = "complete"
          /\ known.locations # {} /\ b.answers[<<x, "references">>] = known
      BY DEF SameReferences, Complete
    <2>2. /\ known.locations = Truth(w, o, "references")
          /\ known.locations = Truth(w, x, "references")
      BY <1>2, <2>1 DEF Sound, AnswersSound, TrueOf
    <2>3. o \in Named(w) /\ x \in Named(w)
      BY <2>1, <2>2, TruthOfKinds
    <2>4. /\ Truth(w, o, "references") = Mentions(w, TokenAt(w, o).symbol)
          /\ Truth(w, x, "references") = Mentions(w, TokenAt(w, x).symbol)
      BY <2>3, TruthOfKinds
    <2>5. Mentions(w, TokenAt(w, o).symbol) = Mentions(w, TokenAt(w, x).symbol)
      BY <2>2, <2>4
    <2> QED BY <2>3, <2>5, Mentioned
  <1>5. CASE kind = "references"
    <2>1. x \in locations
      BY <1>5 DEF SpreadsTo
    <2>2. locations = Truth(w, o, kind) /\ o \in Named(w)
      BY <2>1, TruthOfKinds DEF TrueOf
    <2>3. x \in Mentions(w, TokenAt(w, o).symbol)
      BY <1>5, <2>1, <2>2, TruthOfKinds
    <2>4. Truth(w, x, kind) = Truth(w, o, kind)
      BY <1>1, <1>5, <2>2, <2>3, Mentioned, SameTruth
    <2> QED BY <2>2, <2>4 DEF TrueOf
  <1>6. CASE kind \in {"definition", "declaration"}
    <2>1. x \in SameSymbol(b, o) \/ x \in SameReferences(b, o)
      BY <1>6 DEF SpreadsTo
    <2>2. Truth(w, x, kind) = Truth(w, o, kind)
      BY <1>1, <1>3, <1>4, <1>6, <2>1, SameTruth
    <2> QED BY <1>6, <2>2 DEF TrueOf
  <1>7. CASE kind = "highlights"
    <2>1. x \in SameReferences(b, o) /\ x[1] = o[1]
      BY <1>7 DEF SpreadsTo, Of
    <2>2. Truth(w, x, kind) = Truth(w, o, kind)
      BY <1>1, <1>4, <1>7, <2>1, SameTruth
    <2> QED BY <2>1, <2>2 DEF TrueOf
  <1>8. kind # "hover"
    BY DEF SpreadsTo
  <1> QED BY <1>1, <1>5, <1>6, <1>7, <1>8 DEF AllKinds

LEMMA DatabaseShape ==
  ASSUME NEW b \in Databases
  PROVE  /\ b.documents \in [Docs -> Contents \cup {Absent}]
         /\ b.decoded \in SUBSET Docs
         /\ b.tokens \in [Docs -> Contents \cup {Absent}]
         /\ b.occurrences \in SUBSET Occurrences
         /\ b.answers \in [Occurrences \X Kinds -> Answers]
         /\ b.hasGraph \in BOOLEAN
         /\ b.edges \in [Occurrences -> Symbols \cup {NoSymbol}]
         /\ b.defining \in SUBSET Occurrences
         /\ b.definitions \in [Symbols -> SUBSET Occurrences]
  BY DEF Databases

\* Answers that are not touched, or are not complete, are still true.
LEMMA AnswersStaySound ==
  ASSUME NEW world, NEW answers, NEW others, AnswersSound(world, answers),
         \A a \in Occurrences \X Kinds :
            others[a] = answers[a] \/ others[a].status # "complete"
  PROVE  AnswersSound(world, others)
  <1> SUFFICES ASSUME NEW o \in Occurrences, NEW kind \in Kinds,
                      others[<<o, kind>>].status = "complete"
               PROVE  TrueOf(world, o, kind, others[<<o, kind>>].locations)
    BY DEF AnswersSound
  <1>1. <<o, kind>> \in Occurrences \X Kinds
    OBVIOUS
  <1>2. others[<<o, kind>>] = answers[<<o, kind>>]
    BY <1>1
  <1> QED BY <1>2 DEF AnswersSound

LEMMA DeletesAnswers ==
  ASSUME NEW b \in Databases, NEW occurrences, NEW kinds
  PROVE  LET c == DeleteAnswers(b, occurrences, kinds) IN
         /\ c \in Databases
         /\ c = [b EXCEPT !.answers = c.answers]
         /\ \A a \in Occurrences \X Kinds :
               c.answers[a] = IF a[1] \in occurrences /\ a[2] \in kinds THEN NoAnswer
                              ELSE b.answers[a]
  <1> DEFINE answers == [a \in DOMAIN b.answers |->
                           IF a[1] \in occurrences /\ a[2] \in kinds THEN NoAnswer
                           ELSE b.answers[a]]
             c == DeleteAnswers(b, occurrences, kinds)
  <1>1. c = [b EXCEPT !.answers = answers]
    BY DEF DeleteAnswers
  <1>2. NoAnswer \in Answers
    BY DEF NoAnswer, Answers
  <1>3. /\ answers \in [Occurrences \X Kinds -> Answers]
        /\ \A a \in Occurrences \X Kinds :
               answers[a] = IF a[1] \in occurrences /\ a[2] \in kinds THEN NoAnswer
                            ELSE b.answers[a]
    BY <1>2, DatabaseShape
  <1> HIDE DEF answers, c
  <1>4. c \in Databases /\ c.answers = answers
    BY <1>1, <1>3 DEF Databases
  <1> QED BY <1>1, <1>3, <1>4 DEF c

LEMMA DeletesEdges ==
  ASSUME NEW b \in Databases, NEW occurrences
  PROVE  LET c == DeleteEdges(b, occurrences) IN
         /\ c \in Databases
         /\ c = [b EXCEPT !.edges = c.edges, !.defining = c.defining,
                          !.definitions = c.definitions]
         /\ \A o \in Occurrences :
               c.edges[o] = IF o \in occurrences THEN NoSymbol ELSE b.edges[o]
         /\ \A s \in Symbols : c.definitions[s] =
               IF \E o \in Occurrences : c.edges[o] = s THEN b.definitions[s] ELSE {}
  <1> DEFINE edges == [o \in Occurrences |->
                         IF o \in occurrences THEN NoSymbol ELSE b.edges[o]]
             definitions == [s \in Symbols |->
                               IF \E o \in Occurrences : edges[o] = s
                                 THEN b.definitions[s] ELSE {}]
             defining == b.defining \ occurrences
             c == DeleteEdges(b, occurrences)
  <1>1. c = [b EXCEPT !.edges = edges, !.defining = defining, !.definitions = definitions]
    BY DEF DeleteEdges
  <1>2. /\ edges \in [Occurrences -> Symbols \cup {NoSymbol}]
        /\ definitions \in [Symbols -> SUBSET Occurrences]
        /\ defining \in SUBSET Occurrences
    BY DatabaseShape
  <1>3. \A o \in Occurrences :
          edges[o] = IF o \in occurrences THEN NoSymbol ELSE b.edges[o]
    OBVIOUS
  <1>4. \A s \in Symbols : definitions[s] =
               IF \E o \in Occurrences : edges[o] = s THEN b.definitions[s] ELSE {}
    OBVIOUS
  <1> HIDE DEF edges, definitions, defining, c
  <1>5. /\ c \in Databases /\ c.edges = edges /\ c.defining = defining
        /\ c.definitions = definitions
    BY <1>1, <1>2 DEF Databases
  <1> QED BY <1>1, <1>3, <1>4, <1>5 DEF c

LEMMA DeletesEdgesSoundly ==
  ASSUME NEW b \in Databases, Sound(b), NEW occurrences
  PROVE  Sound(DeleteEdges(b, occurrences))
  <1> DEFINE c == DeleteEdges(b, occurrences)
             w == b.documents
  <1>1. /\ c \in Databases
        /\ c = [b EXCEPT !.edges = c.edges, !.defining = c.defining,
                         !.definitions = c.definitions]
        /\ \A o \in Occurrences :
               c.edges[o] = IF o \in occurrences THEN NoSymbol ELSE b.edges[o]
        /\ \A s \in Symbols : c.definitions[s] =
               IF \E o \in Occurrences : c.edges[o] = s THEN b.definitions[s] ELSE {}
    BY DeletesEdges
  <1> HIDE DEF c
  <1>2. c.documents = w /\ c.answers = b.answers
    BY <1>1 DEF Databases
  <1>3. EdgesSound(w, c.edges)
    BY <1>1 DEF Sound, EdgesSound
  <1>4. \A s \in Symbols : c.definitions[s] \subseteq Definitions(w, s)
    BY <1>1 DEF Sound, DefinitionsSound
  <1>5. ASSUME NEW o \in Occurrences, c.edges[o] # NoSymbol
        PROVE  c.definitions[c.edges[o]] = Definitions(w, c.edges[o])
    <2>1. c.edges[o] = b.edges[o] /\ c.edges[o] \in Symbols
      BY <1>1, <1>5, DatabaseShape
    <2>2. c.definitions[c.edges[o]] = b.definitions[b.edges[o]]
      BY <1>1, <2>1
    <2> QED BY <1>5, <2>1, <2>2 DEF Sound, DefinitionsSound
  <1> QED BY <1>2, <1>3, <1>4, <1>5 DEF Sound, DefinitionsSound, c

LEMMA DeletesAnswersSoundly ==
  ASSUME NEW b \in Databases, Sound(b), NEW occurrences, NEW kinds
  PROVE  Sound(DeleteAnswers(b, occurrences, kinds))
  <1> DEFINE c == DeleteAnswers(b, occurrences, kinds)
  <1>1. /\ c \in Databases /\ c = [b EXCEPT !.answers = c.answers]
        /\ \A a \in Occurrences \X Kinds :
               c.answers[a] = IF a[1] \in occurrences /\ a[2] \in kinds THEN NoAnswer
                              ELSE b.answers[a]
    BY DeletesAnswers
  <1> HIDE DEF c
  <1>2. c.documents = b.documents /\ c.edges = b.edges /\ c.definitions = b.definitions
    BY <1>1 DEF Databases
  <1>3. \A a \in Occurrences \X Kinds :
           c.answers[a] = b.answers[a] \/ c.answers[a].status # "complete"
    BY <1>1 DEF NoAnswer
  <1>4. AnswersSound(b.documents, c.answers)
    BY <1>3, AnswersStaySound DEF Sound
  <1> QED BY <1>2, <1>4 DEF Sound, c

LEMMA SavesAnswer ==
  ASSUME NEW b \in Databases, NEW o, NEW kind, NEW locations \in SUBSET Occurrences
  PROVE  LET c == saveAnswer(b, o, kind, locations) IN
         /\ c \in Databases
         /\ c = [b EXCEPT !.answers = c.answers]
         /\ \A a \in Occurrences \X Kinds :
               c.answers[a] =
                  IF \/ a = <<o, kind>>
                     \/ /\ a[2] = kind
                        /\ a[1] \in SpreadsTo(b, o, kind, locations)
                        /\ b.answers[a] = NoAnswer
                    THEN Answer(locations)
                    ELSE b.answers[a]
  <1> DEFINE answers == [a \in DOMAIN b.answers |->
                  IF \/ a = <<o, kind>>
                     \/ /\ a[2] = kind
                        /\ a[1] \in SpreadsTo(b, o, kind, locations)
                        /\ b.answers[a] = NoAnswer
                    THEN Answer(locations)
                    ELSE b.answers[a]]
             c == saveAnswer(b, o, kind, locations)
  <1>1. c = [b EXCEPT !.answers = answers]
    BY DEF saveAnswer
  <1>2. Answer(locations) \in Answers
    BY DEF Answer, Answers
  <1>3. /\ answers \in [Occurrences \X Kinds -> Answers]
        /\ \A a \in Occurrences \X Kinds :
               answers[a] =
                  IF \/ a = <<o, kind>>
                     \/ /\ a[2] = kind
                        /\ a[1] \in SpreadsTo(b, o, kind, locations)
                        /\ b.answers[a] = NoAnswer
                    THEN Answer(locations)
                    ELSE b.answers[a]
    BY <1>2, DatabaseShape
  <1> HIDE DEF answers, c
  <1>4. c \in Databases /\ c.answers = answers
    BY <1>1, <1>3 DEF Databases
  <1> QED BY <1>1, <1>3, <1>4 DEF c

LEMMA SavesAnswerSoundly ==
  ASSUME NEW b \in Databases, Sound(b), NEW o \in Occurrences, NEW kind \in Kinds,
         NEW locations \in SUBSET Occurrences, TrueOf(b.documents, o, kind, locations)
  PROVE  Sound(saveAnswer(b, o, kind, locations))
  <1> DEFINE c == saveAnswer(b, o, kind, locations)
  <1>1. /\ c \in Databases /\ c = [b EXCEPT !.answers = c.answers]
        /\ \A a \in Occurrences \X Kinds :
               \/ c.answers[a] = b.answers[a]
               \/ /\ c.answers[a] = Answer(locations)
                  /\ \/ a = <<o, kind>>
                     \/ a[2] = kind /\ a[1] \in SpreadsTo(b, o, kind, locations)
    BY SavesAnswer
  <1> HIDE DEF c
  <1>2. c.documents = b.documents /\ c.edges = b.edges /\ c.definitions = b.definitions
    BY <1>1 DEF Databases
  <1>3. ASSUME NEW x \in Occurrences, NEW k \in Kinds, c.answers[<<x, k>>].status = "complete"
        PROVE  TrueOf(b.documents, x, k, c.answers[<<x, k>>].locations)
    <2>1. <<x, k>> \in Occurrences \X Kinds
      OBVIOUS
    <2>2. CASE c.answers[<<x, k>>] = b.answers[<<x, k>>]
      BY <1>3, <2>2 DEF Sound, AnswersSound
    <2>3. CASE /\ c.answers[<<x, k>>] = Answer(locations)
               /\ k = kind /\ (x = o \/ x \in SpreadsTo(b, o, kind, locations))
      <3>1. TrueOf(b.documents, x, kind, locations)
        BY <2>3, SpreadsTruth
      <3> QED BY <2>3, <3>1 DEF Answer
    <2> QED BY <1>1, <2>1, <2>2, <2>3
  <1> QED BY <1>2, <1>3 DEF Sound, AnswersSound, c

LEMMA HighlightsOfReferences ==
  ASSUME NEW b \in Databases, NEW o \in Occurrences, KnowsReferences(b, o)
  PROVE  LET locations == b.answers[<<o, "references">>].locations \cap Of({o[1]}) IN
         /\ locations \in SUBSET Occurrences
         /\ Sound(b) => TrueOf(b.documents, o, "highlights", locations)
  <1> DEFINE known == b.answers[<<o, "references">>].locations
             w == b.documents
  <1>1. known \cap Of({o[1]}) \in SUBSET Occurrences
    BY DEF Of
  <1>2. Sound(b) => TrueOf(w, o, "references", known)
    BY DEF Sound, AnswersSound, KnowsReferences, Complete
  <1>3. known = Truth(w, o, "references") =>
          known \cap Of({o[1]}) = Truth(w, o, "highlights")
    <2> HIDE DEF known, w
    <2>1. CASE o \notin Named(w)
      BY <2>1, TruthOfKinds
    <2>2. CASE o \in Named(w)
      BY <2>2, TruthOfKinds
    <2> QED BY <2>1, <2>2
  <1> HIDE DEF known, w
  <1>4. known = {} => known \cap Of({o[1]}) = {}
    OBVIOUS
  <1>5. TrueOf(w, o, "references", known) =>
          TrueOf(w, o, "highlights", known \cap Of({o[1]}))
    BY <1>3, <1>4 DEF TrueOf
  <1> QED BY <1>1, <1>2, <1>5 DEF known, w

\* What has been passed over when items were: everything else is in the queue.
Passed(d, b, items, acc) ==
    /\ acc = [db |-> acc.db, queue |-> acc.queue]
    /\ acc.queue \in SUBSET items
    /\ acc.db \in Databases
    /\ acc.db = [b EXCEPT !.answers = acc.db.answers]
    /\ Sound(b) => Sound(acc.db)
    /\ \A a \in Occurrences \X Kinds :
          b.answers[a].status = "complete" => acc.db.answers[a].status = "complete"
    /\ \A item \in items \ acc.queue :
          hasCompleteAnswer(acc.db, <<d, item[1]>>, item[2])

\* A complete answer stays one as long as only answers change, and none is lost.
LEMMA StaysAnswered ==
  ASSUME NEW b \in Databases, NEW c \in Databases,
         c.edges = b.edges, c.definitions = b.definitions,
         \A a \in Occurrences \X Kinds :
            b.answers[a].status = "complete" => c.answers[a].status = "complete",
         NEW o \in Occurrences, NEW kind \in Kinds, hasCompleteAnswer(b, o, kind)
  PROVE  hasCompleteAnswer(c, o, kind)
  BY DEF hasCompleteAnswer, Complete

LEMMA PassesOne ==
  ASSUME NEW d \in Docs, NEW b \in Databases, NEW items \in SUBSET Items, NEW acc,
         Passed(d, b, items, acc), NEW item \in Items
  PROVE  Passed(d, b, items \cup {item}, Pass(d, item, acc))
  <1> DEFINE o == <<d, item[1]>>
             next == Pass(d, item, acc)
             more == items \cup {item}
  <1>1. o \in Occurrences /\ item[2] \in Kinds
    BY DEF Items, Occurrences
  <1>2. \A i \in items : <<d, i[1]>> \in Occurrences /\ i[2] \in Kinds
    BY DEF Items, Occurrences
  <1>3. CASE acc.queue # {}
    <2>1. next = [acc EXCEPT !.queue = acc.queue \cup {item}]
      BY <1>3 DEF Pass
    <2>2. next.db = acc.db /\ next.queue = acc.queue \cup {item}
      BY <2>1 DEF Passed
    <2> HIDE DEF next
    <2>3. next = [db |-> next.db, queue |-> next.queue]
      BY <2>1, <2>2 DEF Passed
    <2> QED BY <2>2, <2>3 DEF Passed, next
  <1>4. CASE acc.queue = {} /\ hasCompleteAnswer(acc.db, o, item[2])
    <2>1. next = acc
      BY <1>4 DEF Pass
    <2> QED BY <1>4, <2>1 DEF Passed
  <1>5. CASE /\ acc.queue = {} /\ ~ hasCompleteAnswer(acc.db, o, item[2])
             /\ item[2] = "highlights" /\ KnowsReferences(acc.db, o)
    <2> DEFINE locations == acc.db.answers[<<o, "references">>].locations \cap Of({o[1]})
               c == saveAnswer(acc.db, o, "highlights", locations)
    <2>1. next = [acc EXCEPT !.db = c]
      BY <1>5 DEF Pass, saveHighlightsFromReferences
    <2>2. acc.db \in Databases
      BY DEF Passed
    <2>3. /\ locations \in SUBSET Occurrences
          /\ Sound(acc.db) => TrueOf(acc.db.documents, o, "highlights", locations)
      BY <1>1, <1>5, <2>2, HighlightsOfReferences
    <2> HIDE DEF locations
    <2>4. /\ c \in Databases /\ c = [acc.db EXCEPT !.answers = c.answers]
          /\ \A a \in Occurrences \X Kinds :
               c.answers[a] = acc.db.answers[a] \/ c.answers[a] = Answer(locations)
          /\ c.answers[<<o, "highlights">>] = Answer(locations)
      BY <1>1, <1>5, <2>2, <2>3, SavesAnswer
    <2>5. Sound(acc.db) => Sound(c)
      BY <1>1, <1>5, <2>2, <2>3, SavesAnswerSoundly
    <2> HIDE DEF c, next
    <2>6. next.db = c /\ next.queue = {} /\ next = [db |-> next.db, queue |-> next.queue]
      BY <1>5, <2>1 DEF Passed
    <2>7. c.edges = acc.db.edges /\ c.definitions = acc.db.definitions
      BY <2>2, <2>4 DEF Databases
    <2>8. \A a \in Occurrences \X Kinds :
             acc.db.answers[a].status = "complete" => c.answers[a].status = "complete"
      BY <2>4 DEF Answer
    <2>9. \A i \in items : hasCompleteAnswer(c, <<d, i[1]>>, i[2])
      BY <1>2, <1>5, <2>2, <2>4, <2>7, <2>8, StaysAnswered DEF Passed
    <2>10. hasCompleteAnswer(c, o, item[2])
      <3>1. c.answers[<<o, "highlights">>].status = "complete"
        BY <2>4 DEF Answer
      <3> QED BY <1>5, <3>1 DEF hasCompleteAnswer, Complete
    <2>11. c = [b EXCEPT !.answers = c.answers]
      BY <2>4 DEF Passed, Databases
    <2> QED BY <2>4, <2>5, <2>6, <2>8, <2>9, <2>10, <2>11 DEF Passed, next
  <1>6. CASE /\ acc.queue = {} /\ ~ hasCompleteAnswer(acc.db, o, item[2])
             /\ ~ (item[2] = "highlights" /\ KnowsReferences(acc.db, o))
    <2>1. next = [acc EXCEPT !.queue = {item}]
      BY <1>6 DEF Pass
    <2>2. next.db = acc.db /\ next.queue = {item}
      BY <2>1 DEF Passed
    <2> HIDE DEF next
    <2>3. next = [db |-> next.db, queue |-> next.queue]
      BY <2>1, <2>2 DEF Passed
    <2> QED BY <1>6, <2>2, <2>3 DEF Passed, next
  <1> QED BY <1>3, <1>4, <1>5, <1>6

LEMMA PassesOver ==
  ASSUME NEW d \in Docs, NEW b \in Databases, NEW items \in SUBSET Items
  PROVE  Passed(d, b, items, PassOver(d, b, items))
  <1>1. PICK over : Passes(d, b, items, over) /\ PassOver(d, b, items) = over[items]
    BY PassOverPasses
  <1> DEFINE Good == {s \in SUBSET items : Passed(d, b, s, over[s])}
  <1>2. {} \in Good
    <2>1. over[{}] = Start(b)
      BY <1>1 DEF Passes
    <2>2. b = [b EXCEPT !.answers = b.answers]
      BY DEF Databases
    <2> QED BY <2>1, <2>2 DEF Passed, Start
  <1>3. ASSUME NEW s \in SUBSET items, s # {}, s \ {LastOf(s)} \in Good
        PROVE  s \in Good
    <2>1. LastOf(s) \in s
      BY <1>3, NextAndLast
    <2>2. over[s] = Pass(d, LastOf(s), over[s \ {LastOf(s)}])
      BY <1>1, <1>3 DEF Passes
    <2>3. Passed(d, b, s \ {LastOf(s)}, over[s \ {LastOf(s)}])
      BY <1>3
    <2>4. Passed(d, b, (s \ {LastOf(s)}) \cup {LastOf(s)}, over[s])
      <3> DEFINE less == s \ {LastOf(s)}
      <3>1. less \in SUBSET Items /\ LastOf(s) \in Items
        BY <2>1
      <3> HIDE DEF less
      <3> QED BY <2>2, <2>3, <3>1, PassesOne DEF less
    <2>5. (s \ {LastOf(s)}) \cup {LastOf(s)} = s
      BY <2>1
    <2> QED BY <2>4, <2>5
  <1> HIDE DEF Good
  <1>4. items \in Good
    BY <1>2, <1>3, PassOverInduction
  <1> QED BY <1>1, <1>4 DEF Good

-----------------------------------------------------------------------------
(***************************************************************************)
(* What each transaction keeps                                              *)
(***************************************************************************)
\* An answer is one about something.
Founded(b) ==
    \A a \in Occurrences \X Kinds : b.answers[a].status # "none" => Recorded(b) # {}

Good(b) == Sound(b) /\ Founded(b)

\* The documents stay, and no edge is added.
Keeps(b, c) ==
    /\ c \in Databases
    /\ c.documents = b.documents
    /\ \A o \in Occurrences : c.edges[o] \in {b.edges[o], NoSymbol}

KeepsComplete(b, c) ==
    \A a \in Occurrences \X Kinds :
        b.answers[a].status = "complete" => c.answers[a].status = "complete"

LEMMA NothingIsGood ==
  ASSUME NEW b \in Databases,
         \A a \in Occurrences \X Kinds : b.answers[a].status = "none",
         \A o \in Occurrences : b.edges[o] = NoSymbol,
         \A s \in Symbols : b.definitions[s] = {}
  PROVE  Good(b)
  <1>1. AnswersSound(b.documents, b.answers) /\ Founded(b)
    <2>1. \A o \in Occurrences, kind \in Kinds : <<o, kind>> \in Occurrences \X Kinds
      OBVIOUS
    <2> QED BY <2>1 DEF AnswersSound, Founded
  <1>2. EdgesSound(b.documents, b.edges)
    BY DEF EdgesSound
  <1>3. DefinitionsSound(b.documents, b.edges, b.definitions)
    BY DEF DefinitionsSound
  <1> QED BY <1>1, <1>2, <1>3 DEF Good, Sound

LEMMA EmptyIsGood == emptyDatabase \in Databases /\ Good(emptyDatabase)
  <1>1. emptyDatabase \in Databases
    BY EmptyDatabaseAssumption
  <1>2. /\ \A a \in Occurrences \X Kinds : emptyDatabase.answers[a].status = "none"
        /\ \A o \in Occurrences : emptyDatabase.edges[o] = NoSymbol
        /\ \A s \in Symbols : emptyDatabase.definitions[s] = {}
    BY DEF emptyDatabase, NoAnswer
  <1> HIDE DEF emptyDatabase
  <1> QED BY <1>1, <1>2, NothingIsGood

\* A synchronisation that does not invalidate finds the documents as they were
\* recorded, or finds none recorded, and then nothing else is stored.
LEMMA Synchronizes ==
  ASSUME NEW b \in Databases, NEW world \in Files
  PROVE  LET c == synchronizeDocuments(b, world) IN
         /\ c \in Databases
         /\ c.documents = world
         /\ Good(b) => Good(c)
         /\ b.documents = world /\ InvalidUtf8 = {} => c.answers = b.answers
  <1> DEFINE gone == Changed(b, world) \cup {d \in Docs : world[d] = Absent}
             occurrences == b.occurrences \ Of(gone)
             kept == [b EXCEPT !.documents = world, !.decoded = {},
                               !.occurrences = occurrences]
             c == synchronizeDocuments(b, world)
  <1>1. c = IF Invalidates(b, world)
              THEN [DeleteEdges(DeleteAnswers(kept, Occurrences, Kinds), Occurrences)
                      EXCEPT !.tokens = [d \in Docs |-> Absent]]
              ELSE kept
    BY DEF synchronizeDocuments
  <1>2. occurrences \in SUBSET Occurrences /\ world \in [Docs -> Contents \cup {Absent}]
    BY DatabaseShape DEF Files
  <1> HIDE DEF occurrences
  <1>3. /\ kept \in Databases /\ kept.documents = world /\ kept.answers = b.answers
        /\ kept.edges = b.edges /\ kept.definitions = b.definitions
    BY <1>2 DEF Databases
  <1> HIDE DEF kept
  <1>4. CASE Invalidates(b, world)
    <2> DEFINE bare == DeleteAnswers(kept, Occurrences, Kinds)
               none == DeleteEdges(bare, Occurrences)
    <2>1. /\ bare \in Databases /\ bare = [kept EXCEPT !.answers = bare.answers]
          /\ \A a \in Occurrences \X Kinds : bare.answers[a] = NoAnswer
      BY <1>3, DeletesAnswers
    <2> HIDE DEF bare
    <2>2. /\ none \in Databases
          /\ none = [bare EXCEPT !.edges = none.edges, !.defining = none.defining,
                                 !.definitions = none.definitions]
          /\ \A o \in Occurrences : none.edges[o] = NoSymbol
          /\ \A s \in Symbols : none.definitions[s] =
               IF \E o \in Occurrences : none.edges[o] = s THEN bare.definitions[s] ELSE {}
      BY <2>1, DeletesEdges
    <2>3. c = [none EXCEPT !.tokens = [d \in Docs |-> Absent]]
      BY <1>1, <1>4 DEF bare
    <2> HIDE DEF none
    <2>4. [d \in Docs |-> Absent] \in [Docs -> Contents \cup {Absent}]
      OBVIOUS
    <2>5. /\ c \in Databases /\ c.documents = none.documents /\ c.answers = none.answers
          /\ c.edges = none.edges /\ c.definitions = none.definitions
      <3> HIDE DEF c
      <3> QED BY <2>2, <2>3, <2>4 DEF Databases
    <2>6. none.documents = world /\ none.answers = bare.answers
      <3>1. bare.documents = world
        BY <1>3, <2>1 DEF Databases
      <3> QED BY <2>1, <2>2, <3>1 DEF Databases
    <2>7. \A s \in Symbols : none.definitions[s] = {}
      BY <2>2, CrawlDatabaseAssumption
    <2> HIDE DEF c
    <2>8. Good(c)
      <3>1. \A a \in Occurrences \X Kinds : c.answers[a].status = "none"
        BY <2>1, <2>5, <2>6 DEF NoAnswer
      <3> QED BY <2>2, <2>5, <2>7, <3>1, NothingIsGood
    <2>9. ~ (b.documents = world /\ InvalidUtf8 = {})
      BY <1>4 DEF Invalidates, Changed, Recorded
    <2> QED BY <2>5, <2>6, <2>8, <2>9 DEF c
  <1>5. CASE ~ Invalidates(b, world)
    <2>1. c = kept
      BY <1>1, <1>5
    <2> HIDE DEF c
    <2>2. CASE Recorded(b) = {}
      <3>1. \A d \in Docs : b.documents[d] = Absent
        BY <2>2 DEF Recorded
      <3>2. Named(b.documents) = {}
        BY <3>1 DEF Named, TokenAt, Occurrences
      <3>3. \A s : Mentions(b.documents, s) = {} /\ Definitions(b.documents, s) = {}
        BY <3>2, Mentioned
      <3>4. ASSUME Good(b) PROVE Good(c)
        <4>1. \A a \in Occurrences \X Kinds : b.answers[a].status = "none"
          BY <2>2, <3>4 DEF Good, Founded
        <4>2. \A o \in Occurrences : b.edges[o] = NoSymbol
          BY <3>3, <3>4 DEF Good, Sound, EdgesSound
        <4>3. \A s \in Symbols : b.definitions[s] = {}
          BY <3>3, <3>4 DEF Good, Sound, DefinitionsSound
        <4> QED BY <1>3, <2>1, <4>1, <4>2, <4>3, NothingIsGood
      <3> QED BY <1>3, <2>1, <3>4 DEF c
    <2>3. CASE Recorded(b) # {}
      <3>1. Changed(b, world) = {} /\ {d \in Docs : world[d] # Absent} = Recorded(b)
        BY <1>5, <2>3 DEF Invalidates
      <3>2. \A d \in Docs : world[d] = b.documents[d]
        BY <3>1 DEF Changed, Recorded
      <3>3. world = b.documents
        BY <1>2, <3>2, DatabaseShape
      <3>4. Good(b) => Good(c)
        BY <1>3, <2>1, <3>3 DEF Good, Sound, Founded, Recorded
      <3> QED BY <1>3, <2>1, <3>4 DEF c
    <2> QED BY <2>2, <2>3
  <1> QED BY <1>4, <1>5

LEMMA UpsertsDocument ==
  ASSUME NEW b \in Databases, NEW d \in Docs, NEW content \in Contents \cup {Absent}
  PROVE  LET c == upsertDocument(b, d, content) IN
         /\ c \in Databases
         /\ c.answers = b.answers
         /\ b.documents[d] = content =>
              c.documents = b.documents /\ (Good(b) => Good(c))
  <1> DEFINE documents == [b.documents EXCEPT ![d] = content]
             decoded == b.decoded \cup {d}
             c == upsertDocument(b, d, content)
  <1>1. c = [b EXCEPT !.documents = documents, !.decoded = decoded]
    BY DEF upsertDocument, Databases
  <1>2. documents \in [Docs -> Contents \cup {Absent}] /\ decoded \in SUBSET Docs
    BY DatabaseShape
  <1>3. b.documents[d] = content => documents = b.documents
    BY DatabaseShape
  <1> HIDE DEF documents, decoded, c
  <1>4. /\ c \in Databases /\ c.documents = documents /\ c.answers = b.answers
        /\ c.edges = b.edges /\ c.definitions = b.definitions
    BY <1>1, <1>2 DEF Databases
  <1> QED BY <1>3, <1>4 DEF c, Good, Sound, Founded, Recorded

LEMMA SavesTokens ==
  ASSUME NEW b \in Databases, NEW d \in Docs, NEW content \in Contents \cup {Absent}
  PROVE  LET c == saveSemanticTokens(b, d, content) IN
         Keeps(b, c) /\ c.answers = b.answers /\ (Good(b) => Good(c))
  <1> DEFINE tokens == [b.tokens EXCEPT ![d] = content]
             c == saveSemanticTokens(b, d, content)
  <1>1. c = [b EXCEPT !.tokens = tokens]
    BY DEF saveSemanticTokens, Databases
  <1>2. tokens \in [Docs -> Contents \cup {Absent}]
    BY DatabaseShape
  <1> HIDE DEF tokens, c
  <1>3. /\ c \in Databases /\ c.documents = b.documents /\ c.answers = b.answers
        /\ c.edges = b.edges /\ c.definitions = b.definitions
    BY <1>1, <1>2 DEF Databases
  <1> QED BY <1>3 DEF c, Keeps, Good, Sound, Founded, Recorded

LEMMA UpsertsOccurrences ==
  ASSUME NEW b \in Databases, NEW d \in Docs, NEW positions \in SUBSET Positions
  PROVE  LET c == upsertOccurrences(b, d, positions) IN
         Keeps(b, c) /\ c.answers = b.answers /\ (Good(b) => Good(c))
  <1> DEFINE occurrences == b.occurrences \cup ({d} \X positions)
             c == upsertOccurrences(b, d, positions)
  <1>1. c = [b EXCEPT !.occurrences = occurrences]
    BY DEF upsertOccurrences
  <1>2. occurrences \in SUBSET Occurrences
    BY DatabaseShape DEF Occurrences
  <1> HIDE DEF occurrences, c
  <1>3. /\ c \in Databases /\ c.documents = b.documents /\ c.answers = b.answers
        /\ c.edges = b.edges /\ c.definitions = b.definitions
    BY <1>1, <1>2 DEF Databases
  <1> QED BY <1>3 DEF c, Keeps, Good, Sound, Founded, Recorded

\* What is left when answers and edges of the same occurrences are deleted.
LEMMA DeletesBoth ==
  ASSUME NEW b \in Databases, NEW occurrences, NEW kinds
  PROVE  LET c == DeleteEdges(DeleteAnswers(b, occurrences, kinds), occurrences) IN
         /\ Keeps(b, c) /\ (Good(b) => Good(c))
         /\ \A o \in Occurrences \cap occurrences : c.edges[o] = NoSymbol
         /\ occurrences = {} => c.answers = b.answers
  <1> DEFINE bare == DeleteAnswers(b, occurrences, kinds)
             c == DeleteEdges(bare, occurrences)
  <1>1. /\ bare \in Databases /\ bare = [b EXCEPT !.answers = bare.answers]
        /\ \A a \in Occurrences \X Kinds :
               bare.answers[a] = IF a[1] \in occurrences /\ a[2] \in kinds THEN NoAnswer
                                 ELSE b.answers[a]
        /\ Sound(b) => Sound(bare)
    BY DeletesAnswers, DeletesAnswersSoundly
  <1> HIDE DEF bare
  <1>2. /\ c \in Databases
        /\ c = [bare EXCEPT !.edges = c.edges, !.defining = c.defining,
                            !.definitions = c.definitions]
        /\ \A o \in Occurrences :
               c.edges[o] = IF o \in occurrences THEN NoSymbol ELSE bare.edges[o]
        /\ \A s \in Symbols : c.definitions[s] =
               IF \E o \in Occurrences : c.edges[o] = s THEN bare.definitions[s] ELSE {}
    BY <1>1, DeletesEdges
  <1>7. Sound(bare) => Sound(c)
    BY <1>1, DeletesEdgesSoundly
  <1> HIDE DEF c
  <1>3. /\ bare.documents = b.documents /\ bare.edges = b.edges
        /\ c.documents = bare.documents /\ c.answers = bare.answers
    BY <1>1, <1>2 DEF Databases
  <1>4. \A a \in Occurrences \X Kinds :
           c.answers[a] = b.answers[a] \/ c.answers[a].status = "none"
    BY <1>1, <1>3 DEF NoAnswer
  <1>5. Founded(b) => Founded(c)
    BY <1>3, <1>4 DEF Founded, Recorded
  <1>6. occurrences = {} => c.answers = b.answers
    BY <1>1, <1>3, DatabaseShape
  <1> QED BY <1>1, <1>2, <1>3, <1>5, <1>6, <1>7 DEF c, bare, Keeps, Good

LEMMA ResetsOccurrences ==
  ASSUME NEW b \in Databases, NEW docs
  PROVE  LET c == resetDocumentOccurrences(b, docs) IN
         /\ Keeps(b, c) /\ (Good(b) => Good(c))
         /\ \A o \in Of(docs) : c.edges[o] = NoSymbol
         /\ docs = {} => c.answers = b.answers
  <1> DEFINE e == DeleteEdges(DeleteAnswers(b, Of(docs), Kinds), Of(docs))
             occurrences == e.occurrences \ Of(docs)
             c == resetDocumentOccurrences(b, docs)
  <1>1. c = [e EXCEPT !.occurrences = occurrences]
    BY DEF resetDocumentOccurrences
  <1>2. /\ Keeps(b, e) /\ (Good(b) => Good(e))
        /\ \A o \in Occurrences \cap Of(docs) : e.edges[o] = NoSymbol
        /\ Of(docs) = {} => e.answers = b.answers
    BY DeletesBoth
  <1> HIDE DEF e
  <1>3. e \in Databases /\ occurrences \in SUBSET Occurrences
    BY <1>2, DatabaseShape DEF Keeps
  <1> HIDE DEF occurrences, c
  <1>4. /\ c \in Databases /\ c.documents = e.documents /\ c.answers = e.answers
        /\ c.edges = e.edges /\ c.definitions = e.definitions
    BY <1>1, <1>3 DEF Databases
  <1>5. docs = {} => Of(docs) = {}
    BY DEF Of
  <1>6. Of(docs) \subseteq Occurrences
    BY DEF Of
  <1> QED BY <1>2, <1>4, <1>5, <1>6 DEF c, Keeps, Good, Sound, Founded, Recorded

LEMMA ClearsGraph ==
  ASSUME NEW b \in Databases, NEW docs
  PROVE  LET c == clearSymbolGraphForDocuments(b, docs) IN
         /\ Keeps(b, c) /\ (Good(b) => Good(c))
         /\ ~ b.hasGraph => c = b
  <1>1. CASE b.hasGraph
    BY <1>1, DeletesBoth DEF clearSymbolGraphForDocuments
  <1>2. CASE ~ b.hasGraph
    BY <1>2 DEF clearSymbolGraphForDocuments, Keeps
  <1> QED BY <1>1, <1>2

LEMMA SavesError ==
  ASSUME NEW b \in Databases, NEW o \in Occurrences, NEW kind \in Kinds
  PROVE  LET c == saveAnswerError(b, o, kind) IN
         Keeps(b, c) /\ (Sound(b) => Sound(c))
  <1> DEFINE answers == [b.answers EXCEPT ![<<o, kind>>] = Failed]
             c == saveAnswerError(b, o, kind)
  <1>1. c = [b EXCEPT !.answers = answers]
    BY DEF saveAnswerError, Databases
  <1>2. Failed \in Answers /\ Failed.status # "complete"
    BY DEF Failed, Answers
  <1>3. /\ answers \in [Occurrences \X Kinds -> Answers]
        /\ \A a \in Occurrences \X Kinds :
              answers[a] = b.answers[a] \/ answers[a].status # "complete"
    BY <1>2, DatabaseShape
  <1> HIDE DEF answers, c
  <1>4. /\ c \in Databases /\ c.documents = b.documents /\ c.answers = answers
        /\ c.edges = b.edges /\ c.definitions = b.definitions
    BY <1>1, <1>3 DEF Databases
  <1>5. AnswersSound(b.documents, b.answers) => AnswersSound(b.documents, answers)
    BY <1>3, AnswersStaySound
  <1> QED BY <1>4, <1>5 DEF c, Keeps, Sound

ChunkOf(world, docs, symbols) ==
    symbols = [o \in Named(world) \cap Of(docs) |-> TokenAt(world, o).symbol]

DefinedIn(world, defined) == defined = [s \in Symbols |-> Definitions(world, s)]

\* What a chunk of some documents makes of a database.
Appends(b, c, docs, world) ==
    /\ c \in Databases /\ c.documents = b.documents /\ c.answers = b.answers
    /\ \A o \in Occurrences \ Of(docs) : c.edges[o] = b.edges[o]
    /\ b.documents = world => (Good(b) => Good(c))

\* The whole definition of a symbol is in every chunk that names it.
LEMMA AppendsGraph ==
  ASSUME NEW b \in Databases, NEW docs, NEW world \in Files,
         NEW symbols, ChunkOf(world, docs, symbols),
         NEW defining \in SUBSET DOMAIN symbols,
         NEW defined, DefinedIn(world, defined)
  PROVE  Appends(b, appendSymbolGraph(b, symbols, defining, defined), docs, world)
  <1> DEFINE c == appendSymbolGraph(b, symbols, defining, defined)
             occurrences == b.occurrences \cup DOMAIN symbols
             edges == [o \in Occurrences |->
                         IF o \in DOMAIN symbols THEN symbols[o] ELSE b.edges[o]]
             definings == b.defining \cup defining
             definitions == [s \in Symbols |->
                               IF \E o \in DOMAIN symbols : symbols[o] = s
                                 THEN b.definitions[s] \cup defined[s]
                                 ELSE b.definitions[s]]
  <1>1. c = [b EXCEPT !.hasGraph = TRUE, !.occurrences = occurrences, !.edges = edges,
                      !.defining = definings, !.definitions = definitions]
    BY DEF appendSymbolGraph
  <1>2. /\ DOMAIN symbols = Named(world) \cap Of(docs)
        /\ \A o \in Named(world) \cap Of(docs) : symbols[o] = TokenAt(world, o).symbol
    BY DEF ChunkOf
  <1>3. DOMAIN symbols \subseteq Occurrences
    BY <1>2 DEF Of
  <1>4. \A o \in DOMAIN symbols : symbols[o] \in Symbols /\ o \in Mentions(world, symbols[o])
    <2> SUFFICES ASSUME NEW o \in Named(world)
                 PROVE  /\ TokenAt(world, o).symbol \in Symbols
                        /\ o \in Mentions(world, TokenAt(world, o).symbol)
      BY <1>2
    <2>1. o \in Mentions(world, TokenAt(world, o).symbol)
      BY Mentioned
    <2>2. /\ o[1] \in Docs /\ o[2] \in Positions /\ TokenAt(world, o) # NoToken
          /\ TokenAt(world, o) = IF world[o[1]] = Absent THEN NoToken ELSE world[o[1]][o[2]]
      BY DEF Named, TokenAt, Occurrences
    <2>3. world[o[1]] \in Contents /\ world[o[1]][o[2]] \in Tokens \cup {NoToken}
      BY <2>2, CrawlDatabaseAssumption DEF Files
    <2> QED BY <2>1, <2>2, <2>3 DEF Tokens
  <1>5. occurrences \in SUBSET Occurrences /\ definings \in SUBSET Occurrences
    BY <1>3, DatabaseShape
  <1>6. edges \in [Occurrences -> Symbols \cup {NoSymbol}]
    BY <1>4, DatabaseShape
  <1>7. definitions \in [Symbols -> SUBSET Occurrences]
    <2>1. \A s \in Symbols : defined[s] \subseteq Occurrences
      BY Mentioned DEF DefinedIn
    <2> QED BY <2>1, DatabaseShape
  <1>8. \A o \in Occurrences :
          edges[o] = IF o \in DOMAIN symbols THEN symbols[o] ELSE b.edges[o]
    OBVIOUS
  <1>9. \A s \in Symbols :
          definitions[s] = IF \E o \in DOMAIN symbols : symbols[o] = s
                             THEN b.definitions[s] \cup Definitions(world, s)
                             ELSE b.definitions[s]
    BY DEF DefinedIn
  <1> HIDE DEF occurrences, edges, definings, definitions, c
  <1>10. /\ c \in Databases /\ c.documents = b.documents /\ c.answers = b.answers
         /\ c.edges = edges /\ c.definitions = definitions
    BY <1>1, <1>5, <1>6, <1>7 DEF Databases
  <1>11. \A o \in Occurrences \ Of(docs) : edges[o] = b.edges[o]
    BY <1>2, <1>8
  <1>12. ASSUME b.documents = world, Sound(b)
         PROVE  Sound(c)
    <2>1. EdgesSound(world, edges)
      BY <1>4, <1>8, <1>12 DEF Sound, EdgesSound
    <2>2. \A s \in Symbols : b.definitions[s] \subseteq Definitions(world, s)
      BY <1>12 DEF Sound, DefinitionsSound
    <2>3. \A s \in Symbols : definitions[s] \subseteq Definitions(world, s)
      BY <1>9, <2>2
    <2>4. ASSUME NEW o \in Occurrences, edges[o] # NoSymbol
          PROVE  definitions[edges[o]] = Definitions(world, edges[o])
      <3>1. edges[o] \in Symbols
        BY <1>6, <2>4
      <3>2. CASE \E x \in DOMAIN symbols : symbols[x] = edges[o]
        BY <1>9, <2>2, <3>1, <3>2
      <3>3. CASE ~ \E x \in DOMAIN symbols : symbols[x] = edges[o]
        <4>1. edges[o] = b.edges[o]
          BY <1>8, <3>3
        <4> QED BY <1>9, <1>12, <2>4, <3>1, <3>3, <4>1 DEF Sound, DefinitionsSound
      <3> QED BY <3>2, <3>3
    <2> QED BY <1>10, <1>12, <2>1, <2>3, <2>4 DEF Sound, DefinitionsSound
  <1> QED BY <1>10, <1>11, <1>12 DEF c, Good, Founded, Recorded, Appends

-----------------------------------------------------------------------------
(***************************************************************************)
(* Types, and what a crawl relies on while it runs                          *)
(***************************************************************************)
Unread == {"none", "waiting", "unprepared"}
Stages == Unread \cup {"tokens", "symbols", "ready", "capture", "probe", "done"}
Phases == {"idle", "discover", "clear", "graph", "capture", "probe", "finished", "failed"}

WorkRecord ==
    [stage : Stages, text : Contents \cup {Absent}, found : SUBSET Positions,
     queue : SUBSET Items]

CrawlRecord ==
    [phase : Phases, provider : BOOLEAN, left : SUBSET Docs, processed : SUBSET Docs,
     failed : BOOLEAN, graphFailed : BOOLEAN, disturbed : BOOLEAN, hindered : BOOLEAN]

TypeInv ==
    /\ files \in Files
    /\ db \in Databases
    /\ crawl \in CrawlRecord
    /\ work \in [Docs -> WorkRecord]
    /\ budget \in [crawls : Nat, crashes : Nat, faults : Nat, edits : Nat, liveEdits : Nat]

\* Who asks the server has something to ask.
Queued == \A d \in Docs : work[d].stage = "probe" => work[d].queue # {}

\* Nobody works for a crawl that has ended.
Quiet == ~ Running => \A d \in Docs : work[d] = NoWork

\* Without edits, the files are what was recorded, and what is open in the server.
Undisturbed ==
    Running /\ ~ crawl.disturbed =>
        /\ db.documents = files
        /\ \A d \in Docs : work[d].stage # "none" => files[d] # Absent
        /\ \A d \in Docs : work[d].stage \notin Unread => work[d].text = files[d]

\* What fails, fails for a reason.
Failing ==
    /\ crawl.failed => crawl.hindered \/ crawl.disturbed
    /\ crawl.graphFailed => crawl.hindered
    /\ crawl.phase = "failed" => crawl.hindered \/ crawl.disturbed

\* A document that a chunk may hold has no edge of an earlier crawl.
Cleared ==
    /\ crawl.phase = "clear" => \A o \in Of(Provided) : db.edges[o] = NoSymbol
    /\ crawl.phase = "graph" => \A o \in Of(crawl.left) : db.edges[o] = NoSymbol

FrameInv == TypeInv /\ Queued /\ Quiet /\ Undisturbed /\ Failing /\ Cleared

\* As long as nobody edits a file during a crawl.
SoundInv ==
    /\ budget.liveEdits = 0 /\ ~ crawl.disturbed
    /\ Good(db)
-----------------------------------------------------------------------------
(***************************************************************************)
(* The steps of the workers                                                 *)
(***************************************************************************)
Budgets == [crawls : Nat, crashes : Nat, faults : Nat, edits : Nat, liveEdits : Nat]

LEMMA Spends ==
  ASSUME TypeInv, NEW what \in {"crawls", "crashes", "faults", "edits", "liveEdits"},
         Spend(what)
  PROVE  /\ budget' \in Budgets
         /\ budget[what] > 0
         /\ what # "liveEdits" => budget'.liveEdits = budget.liveEdits
  BY DEF TypeInv, Spend, Budgets

\* At most a failure is noted, with its reason.
CrawlGoesOn ==
    /\ crawl' \in CrawlRecord
    /\ crawl' = [crawl EXCEPT !.failed = crawl'.failed, !.hindered = crawl'.hindered]
    /\ crawl'.failed => crawl.failed \/ crawl'.hindered \/ crawl.disturbed
    /\ crawl.hindered => crawl'.hindered

LEMMA CrawlMayGoOn ==
  ASSUME TypeInv
  PROVE  crawl' = crawl \/ Failure => CrawlGoesOn
  <1>1. CASE crawl' = crawl
    BY <1>1 DEF TypeInv, CrawlRecord, CrawlGoesOn
  <1>2. CASE Failure
    <2>1. crawl' = [crawl EXCEPT !.failed = TRUE, !.hindered = TRUE]
      BY <1>2 DEF Failure
    <2> QED BY <2>1 DEF TypeInv, CrawlRecord, CrawlGoesOn
  <1> QED BY <1>1, <1>2

\* A step that concerns one document leaves the others as they are.
WorkerStep(d, w) ==
    /\ crawl.phase \in {"discover", "capture", "probe"} /\ work[d].stage # "none"
    /\ w \in WorkRecord /\ w.stage # "none"
    /\ w.stage = "probe" => w.queue # {}
    /\ files[d] # Absent /\ ~ crawl.disturbed /\ w.stage \notin Unread => w.text = files[d]
    /\ work' = [work EXCEPT ![d] = w]
    /\ files' = files
    /\ db' \in Databases
    /\ db.documents = files => db'.documents = db.documents
    /\ CrawlGoesOn
    /\ budget' \in Budgets

LEMMA WorkerKeepsFrame ==
  ASSUME FrameInv, NEW d \in Docs, NEW w, WorkerStep(d, w)
  PROVE  FrameInv'
  <1>1. /\ crawl'.phase = crawl.phase /\ crawl'.disturbed = crawl.disturbed
        /\ crawl'.graphFailed = crawl.graphFailed
    BY DEF WorkerStep, CrawlGoesOn, FrameInv, TypeInv, CrawlRecord
  <1>2. work'[d] = w /\ \A e \in Docs \ {d} : work'[e] = work[e]
    BY DEF WorkerStep, FrameInv, TypeInv
  <1>3. TypeInv'
    BY DEF WorkerStep, CrawlGoesOn, FrameInv, TypeInv, Budgets
  <1>4. Queued'
    BY <1>2 DEF WorkerStep, FrameInv, Queued
  <1>5. Quiet'
    BY <1>1 DEF WorkerStep, Quiet, Running
  <1>6. Undisturbed'
    <2> SUFFICES ASSUME ~ crawl.disturbed
                 PROVE  /\ db'.documents = files'
                        /\ \A e \in Docs : work'[e].stage # "none" => files'[e] # Absent
                        /\ \A e \in Docs : work'[e].stage \notin Unread => work'[e].text = files'[e]
      BY <1>1 DEF Undisturbed
    <2>1. /\ db.documents = files
          /\ \A e \in Docs : work[e].stage # "none" => files[e] # Absent
          /\ \A e \in Docs : work[e].stage \notin Unread => work[e].text = files[e]
      BY DEF FrameInv, Undisturbed, Running, WorkerStep
    <2> QED BY <1>2, <2>1 DEF WorkerStep
  <1>7. Failing'
    BY <1>1 DEF WorkerStep, CrawlGoesOn, FrameInv, Failing
  <1>8. Cleared'
    BY <1>1 DEF WorkerStep, Cleared
  <1> QED BY <1>3, <1>4, <1>5, <1>6, <1>7, <1>8 DEF FrameInv
LEMMA StageStep ==
  ASSUME FrameInv, NEW d \in Docs, NEW stage \in Stages \ {"none", "probe"},
         Stage(d, stage), work[d].stage # "none",
         work[d].stage \in Unread => stage \in Unread,
         crawl.phase \in {"discover", "capture", "probe"},
         files' = files, db' \in Databases,
         db.documents = files => db'.documents = db.documents,
         CrawlGoesOn, budget' \in Budgets
  PROVE  \E w : WorkerStep(d, w)
  <1> DEFINE w == [work[d] EXCEPT !.stage = stage]
  <1>1. /\ w \in WorkRecord /\ w.stage = stage /\ w.text = work[d].text
        /\ work' = [work EXCEPT ![d] = w]
    BY DEF FrameInv, TypeInv, WorkRecord, Stage
  <1> HIDE DEF w
  <1>2. ~ crawl.disturbed /\ stage \notin Unread => w.text = files[d]
    BY <1>1 DEF FrameInv, Undisturbed, Running
  <1>3. WorkerStep(d, w)
    BY <1>1, <1>2 DEF WorkerStep
  <1> QED BY <1>3

\* What a step of a worker is good for.
WorkerKeeps(d) ==
    /\ \E w : WorkerStep(d, w)
    /\ ~ crawl.disturbed /\ Good(db) => Good(db')
    /\ KeepsComplete(db, db') \/ budget'.faults # budget.faults

LEMMA ReadDocumentKeeps ==
  ASSUME FrameInv, NEW d \in Docs, ReadDocument(d)
  PROVE  WorkerKeeps(d)
  <1> DEFINE stage == IF crawl.provider /\ d \in ProviderDocs THEN "ready" ELSE "tokens"
             w == [work[d] EXCEPT !.text = files[d], !.stage = stage]
  <1>1. /\ crawl.phase = "discover" /\ work[d].stage = "waiting"
        /\ db' = upsertDocument(db, d, files[d])
        /\ UNCHANGED <<files, crawl, budget>>
    BY DEF ReadDocument
  <1>2. db \in Databases /\ files[d] \in Contents \cup {Absent}
    BY DEF FrameInv, TypeInv, Files
  <1>3. stage \in Stages \ {"none", "probe"}
    BY DEF Stages, Unread
  <1>4. work' = [work EXCEPT ![d] = w]
    BY DEF ReadDocument, FrameInv, TypeInv
  <1> HIDE DEF stage
  <1>5. w \in WorkRecord /\ w.stage = stage /\ w.text = files[d]
    BY <1>2, <1>3 DEF FrameInv, TypeInv, WorkRecord
  <1> HIDE DEF w
  <1>6. /\ db' \in Databases /\ db'.answers = db.answers
        /\ db.documents[d] = files[d] =>
             db'.documents = db.documents /\ (Good(db) => Good(db'))
    BY <1>1, <1>2, UpsertsDocument
  <1>7. WorkerStep(d, w)
    <2>1. CrawlGoesOn
      BY <1>1, CrawlMayGoOn DEF FrameInv
    <2>2. budget' \in Budgets
      BY <1>1 DEF FrameInv, TypeInv, Budgets
    <2> QED BY <1>1, <1>3, <1>4, <1>5, <1>6, <2>1, <2>2 DEF WorkerStep
  <1>8. ~ crawl.disturbed => db.documents = files
    BY <1>1 DEF FrameInv, Undisturbed, Running
  <1> QED BY <1>6, <1>7, <1>8 DEF WorkerKeeps, KeepsComplete

LEMMA TokensKeep ==
  ASSUME FrameInv, NEW d \in Docs, TokensAnswered(d) \/ TokensCaptured(d)
  PROVE  WorkerKeeps(d)
  <1> DEFINE stage == IF TokensAnswered(d) THEN "symbols" ELSE "done"
  <1>1. /\ crawl.phase \in {"discover", "capture"}
        /\ work[d].stage \in {"tokens", "capture"}
        /\ db' = db \/ db' = saveSemanticTokens(db, d, work[d].text)
        /\ crawl' = crawl \/ Failure
        /\ UNCHANGED budget \/ Spend("faults")
        /\ files' = files
    BY DEF TokensAnswered, TokensCaptured
  <1>2. db \in Databases /\ work[d].text \in Contents \cup {Absent}
    BY DEF FrameInv, TypeInv, WorkRecord
  <1>3. Keeps(db, db') /\ db'.answers = db.answers /\ (Good(db) => Good(db'))
    <2>1. CASE db' = db
      BY <1>2, <2>1 DEF Keeps
    <2>2. CASE db' = saveSemanticTokens(db, d, work[d].text)
      BY <1>2, <2>2, SavesTokens
    <2> QED BY <1>1, <2>1, <2>2
  <1>4. CrawlGoesOn /\ budget' \in Budgets
    BY <1>1, CrawlMayGoOn, Spends DEF FrameInv, TypeInv, Budgets
  <1>5. \E w : WorkerStep(d, w)
    <2>1. CASE TokensAnswered(d)
      <3>1. CASE Stage(d, "symbols")
        BY <1>1, <1>3, <1>4, <3>1, StageStep DEF Keeps, Stages, Unread
      <3>2. CASE work' = [work EXCEPT ![d].stage = "symbols",
                                      ![d].found = Identifiers(work[d].text)]
        <4> DEFINE w == [work[d] EXCEPT !.stage = "symbols",
                                        !.found = Identifiers(work[d].text)]
        <4>1. Identifiers(work[d].text) \in SUBSET Positions
          BY DEF Identifiers
        <4>2. work' = [work EXCEPT ![d] = w]
          BY <3>2 DEF FrameInv, TypeInv
        <4>3. w \in WorkRecord /\ w.stage = "symbols" /\ w.text = work[d].text
          BY <4>1 DEF FrameInv, TypeInv, WorkRecord, Stages
        <4> HIDE DEF w
        <4>4. ~ crawl.disturbed => w.text = files[d]
          BY <1>1, <4>3 DEF FrameInv, Undisturbed, Running, Unread
        <4>5. WorkerStep(d, w)
          BY <1>1, <1>3, <1>4, <4>2, <4>3, <4>4 DEF WorkerStep, Keeps
        <4> QED BY <4>5
      <3> QED BY <2>1, <3>1, <3>2 DEF TokensAnswered
    <2>2. CASE TokensCaptured(d)
      <3>1. Stage(d, "done")
        BY <2>2 DEF TokensCaptured
      <3> QED BY <1>1, <1>3, <1>4, <3>1, StageStep DEF Keeps, Stages, Unread
    <2> QED BY <2>1, <2>2
  <1> QED BY <1>3, <1>5 DEF WorkerKeeps, KeepsComplete

LEMMA SymbolsKeep ==
  ASSUME FrameInv, NEW d \in Docs, SymbolsAnswered(d)
  PROVE  WorkerKeeps(d)
  <1>1. /\ crawl.phase = "discover" /\ work[d].stage = "symbols"
        /\ crawl' = crawl \/ Failure
        /\ UNCHANGED budget \/ Spend("faults")
        /\ files' = files /\ Stage(d, "ready")
    BY DEF SymbolsAnswered
  <1>2. \E positions \in SUBSET Positions : db' = upsertOccurrences(db, d, positions)
    <2>1. work[d].found \in SUBSET Positions
      BY DEF FrameInv, TypeInv, WorkRecord
    <2>2. work[d].found \cup Declarations(work[d].text) \in SUBSET Positions
      BY <2>1 DEF Declarations, Identifiers
    <2>3. \/ db' = upsertOccurrences(db, d, work[d].found)
          \/ db' = upsertOccurrences(db, d, work[d].found \cup Declarations(work[d].text))
      BY DEF SymbolsAnswered
    <2> QED BY <2>1, <2>2, <2>3
  <1>3. Keeps(db, db') /\ db'.answers = db.answers /\ (Good(db) => Good(db'))
    <2>1. db \in Databases
      BY DEF FrameInv, TypeInv
    <2> QED BY <1>2, <2>1, UpsertsOccurrences
  <1>4. CrawlGoesOn /\ budget' \in Budgets
    BY <1>1, CrawlMayGoOn, Spends DEF FrameInv, TypeInv, Budgets
  <1>5. \E w : WorkerStep(d, w)
    BY <1>1, <1>3, <1>4, StageStep DEF Keeps, Stages, Unread
  <1> QED BY <1>3, <1>5 DEF WorkerKeeps, KeepsComplete

LEMMA ReadsKeep ==
  ASSUME FrameInv, NEW d \in Docs, ReadForTokens(d) \/ ReadFails(d)
  PROVE  WorkerKeeps(d)
  <1>1. /\ crawl.phase \in {"discover", "capture", "probe"}
        /\ UNCHANGED <<files, db>>
        /\ UNCHANGED budget \/ Spend("faults")
        /\ \/ work[d].stage = "ready" /\ (Stage(d, "capture") \/ Stage(d, "done"))
           \/ work[d].stage = "waiting" /\ Stage(d, "unprepared")
    BY DEF ReadForTokens, ReadFails
  <1>2. CrawlGoesOn
    <2>1. CASE crawl' = crawl \/ Failure
      BY <2>1, CrawlMayGoOn DEF FrameInv
    <2>2. CASE crawl' = [crawl EXCEPT !.failed = TRUE] /\ files[d] # work[d].text
                 /\ work[d].stage = "ready"
      <3>1. crawl.disturbed
        BY <1>1, <2>2 DEF FrameInv, Undisturbed, Running, Unread
      <3> QED BY <2>2, <3>1 DEF FrameInv, TypeInv, CrawlRecord, CrawlGoesOn
    <2> QED BY <2>1, <2>2 DEF ReadForTokens, ReadFails
  <1>3. db' = db /\ db' \in Databases /\ budget' \in Budgets
    BY <1>1, Spends DEF FrameInv, TypeInv, Budgets
  <1>4. \E w : WorkerStep(d, w)
    BY <1>1, <1>2, <1>3, StageStep DEF Stages, Unread
  <1> QED BY <1>3, <1>4 DEF WorkerKeeps, KeepsComplete
LEMMA AnswersSaved ==
  ASSUME NEW b \in Databases, NEW o \in Occurrences, NEW kind \in Kinds,
         NEW locations \in SUBSET Occurrences
  PROVE  LET c == saveAnswer(b, o, kind, locations) IN
         /\ c \in Databases /\ c.documents = b.documents
         /\ KeepsComplete(b, c)
         /\ Sound(b) /\ TrueOf(b.documents, o, kind, locations) => Sound(c)
  <1> DEFINE c == saveAnswer(b, o, kind, locations)
  <1>1. /\ c \in Databases /\ c = [b EXCEPT !.answers = c.answers]
        /\ \A a \in Occurrences \X Kinds :
               c.answers[a] = b.answers[a] \/ c.answers[a] = Answer(locations)
    BY SavesAnswer
  <1>2. Sound(b) /\ TrueOf(b.documents, o, kind, locations) => Sound(c)
    BY SavesAnswerSoundly
  <1> HIDE DEF c
  <1>3. c.documents = b.documents
    BY <1>1 DEF Databases
  <1>4. KeepsComplete(b, c)
    BY <1>1 DEF KeepsComplete, Answer
  <1> QED BY <1>1, <1>2, <1>3, <1>4 DEF c

\* The server answers for the files as they are recorded, as long as nobody has
\* edited them.
LEMMA ViewIsFiles ==
  ASSUME FrameInv, Running, ~ crawl.disturbed
  PROVE  view = db.documents /\ view = files
  <1>1. /\ db.documents = files /\ files \in [Docs -> Contents \cup {Absent}]
        /\ \A d \in Docs : work[d].stage \notin Unread => work[d].text = files[d]
    BY DEF FrameInv, TypeInv, Files, Undisturbed
  <1>2. \A d \in Docs : Open(d) => work[d].text = files[d]
    BY <1>1 DEF Open, Unread
  <1>3. view = [d \in Docs |-> files[d]]
    BY <1>2 DEF view
  <1> QED BY <1>1, <1>3

\* The answer of the server, or what stands for it, in the place of the next item.
AnswerBase(d, b) ==
    LET item == NextOf(work[d].queue)
        o    == <<d, item[1]>>
        kind == item[2]
    IN  \/ b = saveAnswer(db, o, kind, Truth(view, o, kind))
        \/ b = db
        \/ kind = "references" /\ d \in RazorDocs /\ b = saveAnswer(db, o, kind, {})

LEMMA NextIsItem ==
  ASSUME FrameInv, NEW d \in Docs, work[d].stage = "probe"
  PROVE  LET item == NextOf(work[d].queue) IN
         /\ work[d].queue \in SUBSET Items /\ work[d].queue \ {item} \in SUBSET Items
         /\ item \in Items /\ <<d, item[1]>> \in Occurrences /\ item[2] \in Kinds
  <1>1. work[d].queue \in SUBSET Items /\ work[d].queue # {}
    BY DEF FrameInv, TypeInv, WorkRecord, Queued
  <1>2. NextOf(work[d].queue) \in work[d].queue
    BY <1>1, NextAndLast
  <1> QED BY <1>1, <1>2 DEF Items, Occurrences

LEMMA BaseKeeps ==
  ASSUME FrameInv, NEW d \in Docs, crawl.phase = "probe", work[d].stage = "probe",
         NEW b, AnswerBase(d, b)
  PROVE  /\ b \in Databases /\ b.documents = db.documents
         /\ KeepsComplete(db, b)
         /\ ~ crawl.disturbed /\ Sound(db) => Sound(b)
  <1> DEFINE item == NextOf(work[d].queue)
             o    == <<d, item[1]>>
             kind == item[2]
  <1>1. o \in Occurrences /\ kind \in Kinds
    BY NextIsItem
  <1>2. \/ b = saveAnswer(db, o, kind, Truth(view, o, kind))
        \/ b = db
        \/ kind = "references" /\ d \in RazorDocs /\ b = saveAnswer(db, o, kind, {})
    BY DEF AnswerBase
  <1>3. o[1] = d
    OBVIOUS
  <1>4. db \in Databases /\ kind \in AllKinds
    BY <1>1, CrawlDatabaseAssumption DEF FrameInv, TypeInv
  <1> HIDE DEF item, o, kind
  <1>5. CASE b = db
    BY <1>4, <1>5 DEF KeepsComplete
  <1>6. CASE b = saveAnswer(db, o, kind, Truth(view, o, kind))
    <2>1. Truth(view, o, kind) \in SUBSET Occurrences
      BY <1>4, TruthIsPlaces
    <2>2. ~ crawl.disturbed => TrueOf(db.documents, o, kind, Truth(view, o, kind))
      BY ViewIsFiles DEF Running, TrueOf
    <2> QED BY <1>1, <1>4, <1>6, <2>1, <2>2, AnswersSaved
  <1>7. CASE kind = "references" /\ d \in RazorDocs /\ b = saveAnswer(db, o, kind, {})
    <2>1. TrueOf(db.documents, o, kind, {})
      BY <1>3, <1>7 DEF TrueOf
    <2> QED BY <1>1, <1>4, <1>7, <2>1, AnswersSaved
  <1> QED BY <1>2, <1>5, <1>6, <1>7

LEMMA AdvanceStep ==
  ASSUME FrameInv, NEW d \in Docs, NEW base \in Databases, NEW items \in SUBSET Items,
         Advance(d, base, items), base.documents = db.documents,
         crawl.phase = "probe", work[d].stage \in {"ready", "probe"},
         files' = files, CrawlGoesOn, budget' \in Budgets
  PROVE  /\ \E w : WorkerStep(d, w)
         /\ KeepsComplete(base, db')
         /\ ~ crawl.disturbed /\ Sound(base) => Good(db')
  <1> DEFINE acc == PassOver(d, base, items)
             text == IF work[d].stage = "ready" THEN files[d] ELSE work[d].text
             stage == IF acc.queue = {} THEN "done" ELSE "probe"
             w == [work[d] EXCEPT !.text = text, !.queue = acc.queue, !.stage = stage]
  <1>1. Passed(d, base, items, acc)
    BY PassesOver
  <1>2. db' = acc.db /\ work' = [work EXCEPT ![d] = w]
    BY DEF Advance, FrameInv, TypeInv
  <1>3. /\ text \in Contents \cup {Absent}
        /\ ~ crawl.disturbed => text = files[d]
    BY DEF FrameInv, TypeInv, Files, WorkRecord, Undisturbed, Running, Unread
  <1>4. stage \in {"done", "probe"} /\ (stage = "probe" => acc.queue # {})
    OBVIOUS
  <1> HIDE DEF acc, text, stage
  <1>5. acc.queue \in SUBSET Items
    BY <1>1 DEF Passed
  <1>6. /\ w \in WorkRecord /\ w.stage = stage /\ w.text = text /\ w.queue = acc.queue
    BY <1>3, <1>4, <1>5 DEF FrameInv, TypeInv, WorkRecord, Stages
  <1> HIDE DEF w
  <1>7. /\ db' \in Databases /\ db'.documents = db.documents
        /\ Sound(base) => Sound(db')
        /\ KeepsComplete(base, db')
    BY <1>1, <1>2 DEF Passed, Databases, KeepsComplete
  <1>8. WorkerStep(d, w)
    BY <1>2, <1>3, <1>4, <1>6, <1>7 DEF WorkerStep
  <1>9. ~ crawl.disturbed => d \in Recorded(db')
    BY <1>7 DEF FrameInv, Undisturbed, Running, Recorded
  <1>10. ~ crawl.disturbed => Founded(db')
    BY <1>9 DEF Founded
  <1> QED BY <1>7, <1>8, <1>10 DEF Good

LEMMA StartProbeKeeps ==
  ASSUME FrameInv, NEW d \in Docs, StartProbe(d)
  PROVE  WorkerKeeps(d)
  <1>1. /\ crawl.phase = "probe" /\ work[d].stage = "ready"
        /\ Advance(d, db, listOccurrences(d))
        /\ UNCHANGED <<files, crawl, budget>>
    BY DEF StartProbe
  <1>2. listOccurrences(d) \in SUBSET Items /\ db \in Databases
    BY DEF listOccurrences, Items, FrameInv, TypeInv
  <1>3. CrawlGoesOn /\ budget' \in Budgets
    BY <1>1, CrawlMayGoOn DEF FrameInv, TypeInv, Budgets
  <1>4. /\ \E w : WorkerStep(d, w)
        /\ KeepsComplete(db, db')
        /\ ~ crawl.disturbed /\ Sound(db) => Good(db')
    BY <1>1, <1>2, <1>3, AdvanceStep
  <1> QED BY <1>4 DEF WorkerKeeps, Good

LEMMA AnsweredKeeps ==
  ASSUME FrameInv, NEW d \in Docs, Answered(d)
  PROVE  WorkerKeeps(d)
  <1> DEFINE item == NextOf(work[d].queue)
             o    == <<d, item[1]>>
             kind == item[2]
             rest == work[d].queue \ {item}
  <1>1. crawl.phase = "probe" /\ work[d].stage = "probe" /\ files' = files
    BY DEF Answered
  <1>2. o \in Occurrences /\ kind \in Kinds /\ rest \in SUBSET Items
    BY <1>1, NextIsItem
  <1>3. \/ \E b : AnswerBase(d, b) /\ Advance(d, b, rest) /\ UNCHANGED <<crawl, budget>>
        \/ /\ Spend("faults") /\ Failure
           /\ Advance(d, saveAnswerError(db, o, kind), rest)
    BY DEF Answered, AnswerBase
  <1> HIDE DEF item, o, kind, rest
  <1>4. CASE \E b : AnswerBase(d, b) /\ Advance(d, b, rest) /\ UNCHANGED <<crawl, budget>>
    <2>1. PICK b : AnswerBase(d, b) /\ Advance(d, b, rest) /\ UNCHANGED <<crawl, budget>>
      BY <1>4
    <2>2. /\ b \in Databases /\ b.documents = db.documents
          /\ KeepsComplete(db, b)
          /\ ~ crawl.disturbed /\ Sound(db) => Sound(b)
      BY <1>1, <2>1, BaseKeeps
    <2>3. CrawlGoesOn /\ budget' \in Budgets
      BY <2>1, CrawlMayGoOn DEF FrameInv, TypeInv, Budgets
    <2>4. /\ \E w : WorkerStep(d, w)
          /\ KeepsComplete(b, db')
          /\ ~ crawl.disturbed /\ Sound(b) => Good(db')
      BY <1>1, <1>2, <2>1, <2>2, <2>3, AdvanceStep
    <2> QED BY <2>2, <2>4 DEF WorkerKeeps, Good, KeepsComplete
  <1>5. CASE /\ Spend("faults") /\ Failure
             /\ Advance(d, saveAnswerError(db, o, kind), rest)
    <2> DEFINE b == saveAnswerError(db, o, kind)
    <2>1. Keeps(db, b) /\ (Sound(db) => Sound(b))
      BY <1>2, SavesError DEF FrameInv, TypeInv
    <2>2. CrawlGoesOn /\ budget' \in Budgets /\ budget'.faults # budget.faults
      BY <1>5, CrawlMayGoOn DEF FrameInv, TypeInv, Budgets, Spend
    <2>3. Advance(d, b, rest)
      BY <1>5
    <2> HIDE DEF b
    <2>4. /\ \E w : WorkerStep(d, w)
          /\ ~ crawl.disturbed /\ Sound(b) => Good(db')
      BY <1>1, <1>2, <2>1, <2>2, <2>3, AdvanceStep DEF Keeps
    <2> QED BY <2>1, <2>2, <2>4 DEF WorkerKeeps, Good
  <1> QED BY <1>3, <1>4, <1>5

LEMMA WorkersKeep ==
  ASSUME FrameInv, NEW d \in Docs, Worker(d)
  PROVE  WorkerKeeps(d)
  BY ReadDocumentKeeps, TokensKeep, SymbolsKeep, ReadsKeep, StartProbeKeeps, AnsweredKeeps
  DEF Worker

\* What a crash may leave of the next step of a worker.
LEMMA CommittedKeeps ==
  ASSUME FrameInv, NEW d \in Docs, NEW b \in Committed(d)
  PROVE  /\ b \in Databases
         /\ KeepsComplete(db, b)
         /\ ~ crawl.disturbed /\ Good(db) => Good(b)
  <1>1. db \in Databases
    BY DEF FrameInv, TypeInv
  <1>2. CASE crawl.phase = "discover" /\ work[d].stage = "symbols"
    <2>1. work[d].found \in SUBSET Positions
      BY DEF FrameInv, TypeInv, WorkRecord
    <2>2. work[d].found \cup Declarations(work[d].text) \in SUBSET Positions
      BY <2>1 DEF Declarations, Identifiers
    <2>3. PICK rows \in SUBSET (work[d].found \cup Declarations(work[d].text)) :
             b = upsertOccurrences(db, d, rows)
      BY <1>2 DEF Committed
    <2>4. Keeps(db, b) /\ b.answers = db.answers /\ (Good(db) => Good(b))
      BY <1>1, <2>2, <2>3, UpsertsOccurrences
    <2> QED BY <2>4 DEF Keeps, KeepsComplete
  <1>3. ASSUME NEW base, base \in Databases, base.documents = db.documents,
               KeepsComplete(db, base), ~ crawl.disturbed /\ Sound(db) => Sound(base),
               NEW items \in SUBSET Items, b = PassOver(d, base, items).db,
               Running, work[d].stage # "none"
        PROVE  /\ b \in Databases
               /\ KeepsComplete(db, b)
               /\ ~ crawl.disturbed /\ Good(db) => Good(b)
    <2>1. Passed(d, base, items, PassOver(d, base, items))
      BY <1>3, PassesOver
    <2>2. /\ b \in Databases /\ b.documents = db.documents
          /\ Sound(base) => Sound(b)
          /\ KeepsComplete(base, b)
      BY <1>3, <2>1 DEF Passed, Databases, KeepsComplete
    <2>3. ~ crawl.disturbed => d \in Recorded(b)
      BY <1>3, <2>2 DEF FrameInv, Undisturbed, Recorded
    <2> QED BY <1>3, <2>2, <2>3 DEF Good, Founded, KeepsComplete
  <1>4. CASE crawl.phase = "probe" /\ work[d].stage = "ready" /\ d \in Standard /\ Free
    <2>1. PICK items \in Beginnings(listOccurrences(d)) : b = PassOver(d, db, items).db
      BY <1>4 DEF Committed
    <2>2. items \in SUBSET Items
      <3>1. listOccurrences(d) \in SUBSET Items
        BY DEF listOccurrences, Items
      <3>2. items \subseteq listOccurrences(d)
        BY DEF Beginnings
      <3> QED BY <3>1, <3>2
    <2> QED BY <1>1, <1>3, <1>4, <2>1, <2>2 DEF Running, KeepsComplete
  <1>5. CASE crawl.phase = "probe" /\ work[d].stage = "probe"
    <2> DEFINE item == NextOf(work[d].queue)
               o    == <<d, item[1]>>
               kind == item[2]
               base == saveAnswer(db, o, kind, Truth(view, o, kind))
    <2>1. PICK items \in Beginnings(work[d].queue \ {item}) :
            b = PassOver(d, base, items).db
      BY <1>5 DEF Committed
    <2>2. items \in SUBSET Items
      BY <1>5, NextIsItem DEF Beginnings
    <2>3. AnswerBase(d, base)
      BY DEF AnswerBase
    <2> HIDE DEF base
    <2>4. /\ base \in Databases /\ base.documents = db.documents
          /\ KeepsComplete(db, base)
          /\ ~ crawl.disturbed /\ Sound(db) => Sound(base)
      BY <1>5, <2>3, BaseKeeps
    <2> QED BY <1>3, <1>5, <2>1, <2>2, <2>4 DEF Running
  <1> QED BY <1>2, <1>4, <1>5 DEF Committed
-----------------------------------------------------------------------------
(***************************************************************************)
(* The steps of the crawl                                                   *)
(***************************************************************************)
Begun == [NoWork EXCEPT !.stage = "waiting"]

LEMMA StartKeepsFrame ==
  ASSUME FrameInv, StartCrawl
  PROVE  FrameInv'
  <1>1. PICK provider \in BOOLEAN :
           crawl' = [NoCrawl EXCEPT !.phase = "discover", !.provider = provider]
    BY CrawlerAssumption DEF StartCrawl
  <1>2. crawl' = [phase |-> "discover", provider |-> provider, left |-> {},
                  processed |-> {}, failed |-> FALSE, graphFailed |-> FALSE,
                  disturbed |-> FALSE, hindered |-> FALSE]
    BY <1>1 DEF NoCrawl
  <1>3. /\ db' = synchronizeDocuments(db, files) /\ files' = files
        /\ work' = [d \in Docs |-> IF files[d] = Absent THEN NoWork ELSE Begun]
    BY DEF StartCrawl, Begun
  <1>4. db' \in Databases /\ db'.documents = files
    BY <1>3, Synchronizes DEF FrameInv, TypeInv
  <1>5. /\ NoWork \in WorkRecord /\ Begun \in WorkRecord
        /\ NoWork.stage = "none" /\ Begun.stage = "waiting"
    BY DEF NoWork, Begun, WorkRecord, Stages, Unread, Items
  <1> HIDE DEF Begun
  <1>6. /\ work' \in [Docs -> WorkRecord]
        /\ \A d \in Docs : /\ work'[d].stage \in {"none", "waiting"}
                           /\ work'[d].stage # "none" => files[d] # Absent
    BY <1>3, <1>5
  <1>7. budget' \in Budgets
    BY Spends DEF StartCrawl, FrameInv
  <1>8. TypeInv'
    BY <1>2, <1>3, <1>4, <1>6, <1>7
    DEF FrameInv, TypeInv, Budgets, CrawlRecord, Phases
  <1>9. Queued' /\ Failing'
    BY <1>2, <1>6 DEF Queued, Failing
  <1>10. Quiet' /\ Cleared'
    BY <1>2 DEF Quiet, Running, Cleared
  <1>11. Undisturbed'
    BY <1>3, <1>4, <1>6 DEF Undisturbed, Unread
  <1> QED BY <1>8, <1>9, <1>10, <1>11 DEF FrameInv

\* A step of the crawl itself, which keeps the work on the documents, or ends it.
CrawlMoves ==
    /\ files' = files /\ budget' \in Budgets
    /\ db' \in Databases /\ db'.documents = db.documents
    /\ crawl' \in CrawlRecord /\ crawl'.disturbed = crawl.disturbed
    /\ \/ work' = work /\ Running /\ crawl'.phase \notin {"idle", "finished", "failed"}
       \/ work' = [d \in Docs |-> NoWork]
    /\ Failing' /\ Cleared'

LEMMA NoWorkIsWork == NoWork \in WorkRecord /\ NoWork.stage = "none"
  BY DEF NoWork, WorkRecord, Stages, Unread, Items

LEMMA MovesKeepFrame ==
  ASSUME FrameInv, Running, CrawlMoves
  PROVE  FrameInv'
  <1>1. TypeInv'
    BY NoWorkIsWork DEF CrawlMoves, FrameInv, TypeInv, Budgets
  <1>2. Queued'
    BY NoWorkIsWork DEF CrawlMoves, FrameInv, Queued
  <1>3. Quiet'
    BY DEF CrawlMoves, Quiet, Running
  <1>4. Undisturbed'
    BY NoWorkIsWork DEF CrawlMoves, FrameInv, Undisturbed, Unread
  <1> QED BY <1>1, <1>2, <1>3, <1>4 DEF CrawlMoves, FrameInv

LEMMA ResetMoves ==
  ASSUME FrameInv, ResetProvided
  PROVE  /\ Running /\ CrawlMoves /\ (Good(db) => Good(db'))
         /\ Provided = {} => db'.answers = db.answers
  <1>1. /\ crawl.phase = "discover" /\ crawl' = [crawl EXCEPT !.phase = "clear"]
        /\ db' = resetDocumentOccurrences(db, Provided)
        /\ UNCHANGED <<files, work, budget>>
    BY DEF ResetProvided
  <1>2. /\ Keeps(db, db') /\ (Good(db) => Good(db'))
        /\ \A o \in Of(Provided) : db'.edges[o] = NoSymbol
        /\ Provided = {} => db'.answers = db.answers
    <2>1. db \in Databases
      BY DEF FrameInv, TypeInv
    <2> QED BY <1>1, <2>1, ResetsOccurrences
  <1>3. /\ crawl' \in CrawlRecord /\ crawl'.disturbed = crawl.disturbed
        /\ crawl'.phase = "clear" /\ crawl'.provider = crawl.provider
        /\ crawl'.failed = crawl.failed /\ crawl'.graphFailed = crawl.graphFailed
        /\ crawl'.hindered = crawl.hindered
    BY <1>1 DEF FrameInv, TypeInv, CrawlRecord, Phases
  <1>4. Provided' = Provided
    BY <1>1, <1>3 DEF Provided, Prepared, InCrawl
  <1>5. Failing'
    BY <1>3 DEF FrameInv, Failing
  <1>6. Cleared'
    BY <1>2, <1>3, <1>4 DEF Cleared, Of
  <1> QED BY <1>1, <1>2, <1>3, <1>5, <1>6
    DEF CrawlMoves, Running, Keeps, FrameInv, TypeInv, Budgets

LEMMA ClearMoves ==
  ASSUME FrameInv, ClearStandard
  PROVE  /\ Running /\ CrawlMoves /\ (Good(db) => Good(db'))
         /\ ~ db.hasGraph => db' = db
  <1> DEFINE phase == IF crawl.provider THEN "graph" ELSE "probe"
  <1>1. /\ crawl.phase = "clear"
        /\ crawl' = [crawl EXCEPT !.left = Provided, !.phase = phase]
        /\ db' = clearSymbolGraphForDocuments(db, Standard)
        /\ UNCHANGED <<files, work, budget>>
    BY DEF ClearStandard
  <1>2. phase \in {"graph", "probe"} /\ Provided \in SUBSET Docs
    BY DEF Provided, Prepared, InCrawl
  <1> HIDE DEF phase
  <1>3. Keeps(db, db') /\ (Good(db) => Good(db')) /\ (~ db.hasGraph => db' = db)
    <2>1. db \in Databases
      BY DEF FrameInv, TypeInv
    <2> QED BY <1>1, <2>1, ClearsGraph
  <1>4. /\ crawl' \in CrawlRecord /\ crawl'.disturbed = crawl.disturbed
        /\ crawl'.phase = phase /\ crawl'.left = Provided
        /\ crawl'.failed = crawl.failed /\ crawl'.graphFailed = crawl.graphFailed
        /\ crawl'.hindered = crawl.hindered
    BY <1>1, <1>2 DEF FrameInv, TypeInv, CrawlRecord, Phases
  <1>5. Failing'
    BY <1>2, <1>4 DEF FrameInv, Failing
  <1>6. \A o \in Of(Provided) : db'.edges[o] = NoSymbol
    BY <1>1, <1>3 DEF FrameInv, Cleared, Keeps, Of
  <1>7. Cleared'
    BY <1>2, <1>4, <1>6 DEF Cleared, Of
  <1> QED BY <1>1, <1>2, <1>3, <1>4, <1>5, <1>7
    DEF CrawlMoves, Running, Keeps, FrameInv, TypeInv, Budgets

\* What a chunk may hold has no edge, so no chunk is refused.
LEMMA ChunkAppended ==
  ASSUME FrameInv, GraphChunk
  PROVE  \E chunk \in SUBSET crawl.left, missing \in SUBSET OutsideSolution :
            LET found == chunk \ missing IN
            /\ Appendable(db, Edges(found))
            /\ db' = appendSymbolGraph(db, Edges(found),
                         {o \in DOMAIN Edges(found) : TokenAt(files, o).isDefinition},
                         [s \in Symbols |-> Definitions(files, s)])
            /\ crawl' = [crawl EXCEPT !.left = @ \ chunk, !.processed = @ \cup found]
            /\ UNCHANGED work
  <1>1. PICK chunk \in SUBSET crawl.left, missing \in SUBSET OutsideSolution :
          LET found == chunk \ missing IN
          IF Appendable(db, Edges(found))
            THEN /\ db' = appendSymbolGraph(db, Edges(found),
                             {o \in DOMAIN Edges(found) : TokenAt(files, o).isDefinition},
                             [s \in Symbols |-> Definitions(files, s)])
                 /\ crawl' = [crawl EXCEPT !.left = @ \ chunk, !.processed = @ \cup found]
                 /\ UNCHANGED work
            ELSE GraphFails
    BY DEF GraphChunk
  <1>2. \A o \in DOMAIN Edges(chunk \ missing) : o \in Of(crawl.left)
    BY DEF Edges, Of
  <1>3. Appendable(db, Edges(chunk \ missing))
    BY <1>2 DEF Appendable, FrameInv, Cleared, GraphChunk
  <1> QED BY <1>1, <1>3

LEMMA GraphChunkMoves ==
  ASSUME FrameInv, GraphChunk
  PROVE  /\ Running /\ CrawlMoves
         /\ ~ crawl.disturbed /\ Good(db) => Good(db')
         /\ db'.answers = db.answers
  <1>0. PICK chunk \in (SUBSET crawl.left) \ {{}} :
          \E missing \in SUBSET (chunk \cap OutsideSolution) :
          LET found == chunk \ missing IN
          IF Appendable(db, Edges(found))
            THEN /\ db' = appendSymbolGraph(db, Edges(found),
                             {o \in DOMAIN Edges(found) : TokenAt(files, o).isDefinition},
                             [s \in Symbols |-> Definitions(files, s)])
                 /\ crawl' = [crawl EXCEPT !.left = @ \ chunk,
                                           !.processed = @ \cup found]
                 /\ UNCHANGED work
            ELSE GraphFails
    BY DEF GraphChunk
  <1>1. PICK missing \in SUBSET (chunk \cap OutsideSolution) :
          LET found == chunk \ missing IN
          IF Appendable(db, Edges(found))
            THEN /\ db' = appendSymbolGraph(db, Edges(found),
                             {o \in DOMAIN Edges(found) : TokenAt(files, o).isDefinition},
                             [s \in Symbols |-> Definitions(files, s)])
                 /\ crawl' = [crawl EXCEPT !.left = @ \ chunk,
                                           !.processed = @ \cup found]
                 /\ UNCHANGED work
            ELSE GraphFails
    BY <1>0
  <1> DEFINE found == chunk \ missing
             symbols == Edges(found)
             defining == {o \in DOMAIN symbols : TokenAt(files, o).isDefinition}
             defined == [s \in Symbols |-> Definitions(files, s)]
  <1>2. crawl.phase = "graph" /\ UNCHANGED <<files, budget>>
    BY DEF GraphChunk
  <1>3. \A o \in DOMAIN symbols : o \in Of(crawl.left)
    BY DEF Edges, Of
  <1>4. Appendable(db, symbols)
    BY <1>2, <1>3 DEF Appendable, FrameInv, Cleared
  <1>5. /\ db' = appendSymbolGraph(db, symbols, defining, defined)
        /\ crawl' = [crawl EXCEPT !.left = crawl.left \ chunk,
                                  !.processed = crawl.processed \cup found]
        /\ work' = work
    BY <1>1, <1>4
  <1>6. ChunkOf(files, found, symbols) /\ DefinedIn(files, defined)
    BY DEF ChunkOf, DefinedIn, Edges
  <1>7. defining \in SUBSET DOMAIN symbols /\ db \in Databases /\ files \in Files
    BY DEF FrameInv, TypeInv
  <1>8. found \subseteq Docs /\ chunk \subseteq crawl.left /\ found \subseteq chunk
    BY DEF FrameInv, TypeInv, CrawlRecord
  <1> HIDE DEF symbols, defining, defined, found
  <1>9. /\ db' \in Databases /\ db'.documents = db.documents /\ db'.answers = db.answers
        /\ \A o \in Occurrences \ Of(found) : db'.edges[o] = db.edges[o]
        /\ db.documents = files => (Good(db) => Good(db'))
    <2> DEFINE c == appendSymbolGraph(db, symbols, defining, defined)
    <2>1. /\ c \in Databases /\ c.documents = db.documents /\ c.answers = db.answers
          /\ \A o \in Occurrences \ Of(found) : c.edges[o] = db.edges[o]
          /\ db.documents = files => (Good(db) => Good(c))
      <3>1. PICK docs, world : docs = found /\ world = files
        OBVIOUS
      <3>2. ChunkOf(world, docs, symbols) /\ DefinedIn(world, defined) /\ world \in Files
        BY <1>6, <1>7, <3>1
      <3>3. Appends(db, c, docs, world)
        BY <1>7, <3>2, AppendsGraph
      <3> QED BY <3>1, <3>3 DEF Appends
    <2>2. db' = c
      BY <1>5
    <2> HIDE DEF c
    <2> QED BY <2>1, <2>2
  <1>10. /\ crawl' \in CrawlRecord /\ crawl'.disturbed = crawl.disturbed
         /\ crawl'.phase = "graph" /\ crawl'.left = crawl.left \ chunk
         /\ crawl'.failed = crawl.failed /\ crawl'.graphFailed = crawl.graphFailed
         /\ crawl'.hindered = crawl.hindered
    BY <1>2, <1>5, <1>8 DEF FrameInv, TypeInv, CrawlRecord
  <1>11. Failing'
    BY <1>10 DEF FrameInv, Failing
  <1>12. \A o \in Of(crawl.left \ chunk) : db'.edges[o] = NoSymbol
    BY <1>2, <1>8, <1>9 DEF FrameInv, Cleared, Of
  <1>13. Cleared'
    BY <1>10, <1>12 DEF Cleared, Of
  <1>14. ~ crawl.disturbed => db.documents = files
    BY <1>2 DEF FrameInv, Undisturbed, Running
  <1>15. Running /\ CrawlMoves
    BY <1>2, <1>5, <1>9, <1>10, <1>11, <1>13
    DEF CrawlMoves, Running, FrameInv, TypeInv, Budgets
  <1> QED BY <1>9, <1>14, <1>15

LEMMA ChunkDocumentMoves ==
  ASSUME FrameInv, ChunkDocumentFails
  PROVE  Running /\ CrawlMoves /\ db' = db
  <1>1. PICK d \in crawl.left :
          crawl' = [crawl EXCEPT !.left = crawl.left \ {d}, !.graphFailed = TRUE,
                                 !.hindered = TRUE]
    BY DEF ChunkDocumentFails
  <1>2. crawl.phase = "graph" /\ UNCHANGED <<files, db, work>> /\ budget' \in Budgets
    BY Spends DEF ChunkDocumentFails, FrameInv
  <1>3. /\ crawl' \in CrawlRecord /\ crawl'.disturbed = crawl.disturbed
        /\ crawl'.phase = "graph" /\ crawl'.left = crawl.left \ {d}
        /\ crawl'.hindered
    BY <1>1, <1>2 DEF FrameInv, TypeInv, CrawlRecord
  <1>4. Failing' /\ Cleared'
    BY <1>2, <1>3 DEF FrameInv, Failing, Cleared, Of
  <1> QED BY <1>2, <1>3, <1>4 DEF CrawlMoves, Running, FrameInv, TypeInv

LEMMA GraphRequestMoves ==
  ASSUME FrameInv, GraphRequestFails
  PROVE  /\ Running /\ CrawlMoves /\ (Good(db) => Good(db'))
         /\ ~ db.hasGraph => db' = db
  <1>1. /\ crawl.phase = "graph" /\ files' = files /\ budget' \in Budgets
        /\ db' = clearSymbolGraphForDocuments(db, Provided)
        /\ crawl' = [crawl EXCEPT !.phase = "failed", !.failed = TRUE, !.hindered = TRUE]
        /\ work' = [d \in Docs |-> NoWork]
    BY Spends DEF GraphRequestFails, FrameInv
  <1>2. Keeps(db, db') /\ (Good(db) => Good(db')) /\ (~ db.hasGraph => db' = db)
    <2>1. db \in Databases
      BY DEF FrameInv, TypeInv
    <2> QED BY <1>1, <2>1, ClearsGraph
  <1>3. /\ crawl' \in CrawlRecord /\ crawl'.disturbed = crawl.disturbed
        /\ crawl'.phase = "failed" /\ crawl'.hindered
    BY <1>1 DEF FrameInv, TypeInv, CrawlRecord, Phases
  <1>4. Failing' /\ Cleared'
    BY <1>3 DEF Failing, Cleared
  <1> QED BY <1>1, <1>2, <1>3, <1>4 DEF CrawlMoves, Running, Keeps

LEMMA GraphEndsMoves ==
  ASSUME FrameInv, GraphEnds
  PROVE  /\ Running /\ CrawlMoves /\ (Good(db) => Good(db'))
         /\ ~ db.hasGraph => db' = db
  <1>1. crawl.phase = "graph" /\ files' = files /\ budget' \in Budgets
    BY DEF GraphEnds, FrameInv, TypeInv, Budgets
  <1>2. CASE crawl.graphFailed /\ GraphFails
    <2>1. /\ db' = clearSymbolGraphForDocuments(db, Provided)
          /\ crawl' = [crawl EXCEPT !.phase = "failed", !.failed = TRUE]
          /\ work' = [d \in Docs |-> NoWork]
      BY <1>2 DEF GraphFails
    <2>2. Keeps(db, db') /\ (Good(db) => Good(db')) /\ (~ db.hasGraph => db' = db)
      <3>1. db \in Databases
        BY DEF FrameInv, TypeInv
      <3> QED BY <2>1, <3>1, ClearsGraph
    <2>3. /\ crawl' \in CrawlRecord /\ crawl'.disturbed = crawl.disturbed
          /\ crawl'.phase = "failed" /\ crawl'.hindered
      BY <1>2, <2>1 DEF FrameInv, TypeInv, CrawlRecord, Phases, Failing
    <2>4. Failing' /\ Cleared'
      BY <2>3 DEF Failing, Cleared
    <2> QED BY <1>1, <2>1, <2>2, <2>3, <2>4 DEF CrawlMoves, Running, Keeps
  <1>3. CASE crawl' = [crawl EXCEPT !.phase = "capture"] /\ UNCHANGED <<db, work>>
    <2>1. /\ crawl' \in CrawlRecord /\ crawl'.disturbed = crawl.disturbed
          /\ crawl'.phase = "capture" /\ crawl'.failed = crawl.failed
          /\ crawl'.graphFailed = crawl.graphFailed /\ crawl'.hindered = crawl.hindered
      BY <1>3 DEF FrameInv, TypeInv, CrawlRecord, Phases
    <2>2. Failing' /\ Cleared'
      BY <2>1 DEF FrameInv, Failing, Cleared
    <2> QED BY <1>1, <1>3, <2>1, <2>2 DEF CrawlMoves, Running, FrameInv, TypeInv
  <1> QED BY <1>2, <1>3 DEF GraphEnds

LEMMA EndsMove ==
  ASSUME FrameInv, CaptureEnds \/ ProbeEnds
  PROVE  Running /\ CrawlMoves /\ db' = db
  <1>1. db' = db /\ files' = files /\ budget' \in Budgets
    BY DEF CaptureEnds, ProbeEnds, FrameInv, TypeInv, Budgets
  <1>2. CASE CaptureEnds
    <2>1. /\ crawl.phase = "capture" /\ crawl' = [crawl EXCEPT !.phase = "probe"]
          /\ work' = work
      BY <1>2 DEF CaptureEnds
    <2>2. /\ crawl' \in CrawlRecord /\ crawl'.disturbed = crawl.disturbed
          /\ crawl'.phase = "probe" /\ crawl'.failed = crawl.failed
          /\ crawl'.graphFailed = crawl.graphFailed /\ crawl'.hindered = crawl.hindered
      BY <2>1 DEF FrameInv, TypeInv, CrawlRecord, Phases
    <2>3. Failing' /\ Cleared'
      BY <2>2 DEF FrameInv, Failing, Cleared
    <2> QED BY <1>1, <2>1, <2>2, <2>3 DEF CrawlMoves, Running, FrameInv, TypeInv
  <1>3. CASE ProbeEnds
    <2> DEFINE phase == IF crawl.failed THEN "failed" ELSE "finished"
    <2>1. /\ crawl.phase = "probe" /\ crawl' = [crawl EXCEPT !.phase = phase]
          /\ work' = [d \in Docs |-> NoWork]
      BY <1>3 DEF ProbeEnds
    <2>2. phase \in {"failed", "finished"} /\ (phase = "failed" => crawl.failed)
      BY DEF FrameInv, TypeInv, CrawlRecord
    <2> HIDE DEF phase
    <2>3. /\ crawl' \in CrawlRecord /\ crawl'.disturbed = crawl.disturbed
          /\ crawl'.phase = phase /\ crawl'.failed = crawl.failed
          /\ crawl'.graphFailed = crawl.graphFailed /\ crawl'.hindered = crawl.hindered
      BY <2>1, <2>2 DEF FrameInv, TypeInv, CrawlRecord, Phases
    <2>4. Failing' /\ Cleared'
      BY <2>2, <2>3 DEF FrameInv, Failing, Cleared
    <2> QED BY <1>1, <2>1, <2>3, <2>4 DEF CrawlMoves, Running, FrameInv, TypeInv
  <1> QED BY <1>2, <1>3

LEMMA CrashMoves ==
  ASSUME FrameInv, Crash
  PROVE  /\ FrameInv' /\ Running
         /\ KeepsComplete(db, db')
         /\ ~ crawl.disturbed /\ Good(db) => Good(db')
         /\ crawl'.disturbed = FALSE
  <1>1. /\ Running /\ files' = files /\ crawl' = NoCrawl
        /\ work' = [d \in Docs |-> NoWork]
        /\ budget' \in Budgets
    BY Spends DEF Crash, FrameInv
  <1>2. /\ db' \in Databases
        /\ KeepsComplete(db, db')
        /\ ~ crawl.disturbed /\ Good(db) => Good(db')
    <2>1. CASE db' = db
      BY <2>1 DEF FrameInv, TypeInv, KeepsComplete
    <2>2. CASE \E d \in Docs : db' \in Committed(d)
      BY <2>2, CommittedKeeps
    <2> QED BY <2>1, <2>2 DEF Crash
  <1>3. /\ NoCrawl \in CrawlRecord /\ NoCrawl.phase = "idle" /\ ~ NoCrawl.failed
        /\ ~ NoCrawl.graphFailed /\ NoCrawl.disturbed = FALSE
    BY DEF NoCrawl, CrawlRecord, Phases
  <1>4. TypeInv'
    BY <1>1, <1>2, <1>3, NoWorkIsWork DEF FrameInv, TypeInv, Budgets
  <1>5. Queued' /\ Quiet'
    BY <1>1, NoWorkIsWork DEF Queued, Quiet
  <1>6. Undisturbed' /\ Failing' /\ Cleared'
    BY <1>1, <1>3 DEF Undisturbed, Running, Failing, Cleared
  <1> QED BY <1>1, <1>2, <1>3, <1>4, <1>5, <1>6 DEF FrameInv

LEMMA EditMoves ==
  ASSUME FrameInv, Edit
  PROVE  /\ FrameInv' /\ db' = db
         /\ Running => budget.liveEdits > 0
         /\ ~ Running => /\ budget'.liveEdits = budget.liveEdits
                         /\ crawl'.disturbed = crawl.disturbed
  <1>1. PICK d \in Docs, content \in Contents \cup {Absent} :
          files' = [files EXCEPT ![d] = content]
    BY DEF Edit
  <1>2. /\ Spend(IF Running THEN "liveEdits" ELSE "edits")
        /\ crawl' = [crawl EXCEPT !.disturbed = crawl.disturbed \/ Running]
        /\ UNCHANGED <<db, work>>
    BY DEF Edit
  <1>3. /\ budget' \in Budgets
        /\ Running => budget.liveEdits > 0
        /\ ~ Running => budget'.liveEdits = budget.liveEdits
    BY <1>2, Spends DEF FrameInv
  <1>4. PICK disturbed \in BOOLEAN : disturbed = (crawl.disturbed \/ Running)
    OBVIOUS
  <1>5. crawl' = [crawl EXCEPT !.disturbed = disturbed]
    BY <1>2, <1>4
  <1>6. /\ crawl' \in CrawlRecord /\ crawl'.disturbed = disturbed
        /\ crawl'.phase = crawl.phase /\ crawl'.provider = crawl.provider
        /\ crawl'.left = crawl.left /\ crawl'.failed = crawl.failed
        /\ crawl'.graphFailed = crawl.graphFailed /\ crawl'.hindered = crawl.hindered
    BY <1>5 DEF FrameInv, TypeInv, CrawlRecord
  <1>7. crawl.disturbed => disturbed
    BY <1>4
  <1>8. ~ Running => disturbed = crawl.disturbed
    BY <1>4 DEF FrameInv, TypeInv, CrawlRecord
  <1>9. TypeInv'
    BY <1>1, <1>2, <1>3, <1>6 DEF FrameInv, TypeInv, Files, Budgets
  <1>10. Queued' /\ Quiet'
    BY <1>2, <1>6 DEF FrameInv, Queued, Quiet, Running
  <1>11. Undisturbed'
    BY <1>4, <1>6 DEF Undisturbed, Running
  <1>12. Failing'
    BY <1>6, <1>7 DEF FrameInv, Failing
  <1>13. Provided' = Provided
    BY <1>2, <1>6 DEF Provided, Prepared, InCrawl
  <1>14. Cleared'
    BY <1>2, <1>6, <1>13 DEF FrameInv, Cleared, Of
  <1> QED BY <1>2, <1>3, <1>6, <1>8, <1>9, <1>10, <1>11, <1>12, <1>14 DEF FrameInv
-----------------------------------------------------------------------------
(***************************************************************************)
(* Theorems                                                                 *)
(***************************************************************************)
LEMMA FrameInit == Init => FrameInv
  <1> SUFFICES ASSUME Init PROVE FrameInv
    OBVIOUS
  <1>1. /\ NoCrawl \in CrawlRecord /\ NoCrawl.phase = "idle" /\ ~ NoCrawl.failed
        /\ ~ NoCrawl.graphFailed
    BY DEF NoCrawl, CrawlRecord, Phases
  <1>2. work = [d \in Docs |-> NoWork] /\ crawl = NoCrawl /\ files \in Files
    BY DEF Init
  <1>3. db \in Databases
    BY EmptyIsGood DEF Init
  <1>4. budget \in Budgets
    BY CrawlerAssumption DEF Init, Budgets
  <1>5. TypeInv
    BY <1>1, <1>2, <1>3, <1>4, NoWorkIsWork DEF TypeInv, Budgets
  <1>6. Queued /\ Quiet
    BY <1>2, NoWorkIsWork DEF Queued, Quiet
  <1>7. Undisturbed /\ Failing /\ Cleared
    BY <1>1, <1>2 DEF Undisturbed, Running, Failing, Cleared
  <1> QED BY <1>5, <1>6, <1>7 DEF FrameInv

LEMMA FrameStutter == FrameInv /\ UNCHANGED vars => FrameInv'
  <1> SUFFICES ASSUME FrameInv, UNCHANGED vars PROVE FrameInv'
    OBVIOUS
  <1> USE DEF FrameInv
  <1>1. UNCHANGED <<files, db, crawl, work, budget>>
    BY DEF vars
  <1>2. TypeInv'
    BY <1>1 DEF TypeInv
  <1>3. Queued' /\ Quiet'
    BY <1>1 DEF Queued, Quiet, Running
  <1>4. Undisturbed' /\ Failing'
    BY <1>1 DEF Undisturbed, Running, Failing
  <1>5. Provided' = Provided
    BY <1>1 DEF Provided, Prepared, InCrawl
  <1>6. Cleared'
    BY <1>1, <1>5 DEF Cleared
  <1> QED BY <1>2, <1>3, <1>4, <1>6

LEMMA FrameStep == FrameInv /\ [Next]_vars => FrameInv'
  <1> SUFFICES ASSUME FrameInv, [Next]_vars PROVE FrameInv'
    OBVIOUS
  <1>1. CASE StartCrawl
    BY <1>1, StartKeepsFrame
  <1>2. ASSUME NEW d \in Docs, Worker(d) PROVE FrameInv'
    BY <1>2, WorkersKeep, WorkerKeepsFrame DEF WorkerKeeps
  <1>3. CASE ResetProvided
    BY <1>3, ResetMoves, MovesKeepFrame
  <1>4. CASE ClearStandard
    BY <1>4, ClearMoves, MovesKeepFrame
  <1>5. CASE Graph
    BY <1>5, GraphChunkMoves, ChunkDocumentMoves, GraphRequestMoves, GraphEndsMoves,
       MovesKeepFrame DEF Graph
  <1>6. CASE CaptureEnds \/ ProbeEnds
    BY <1>6, EndsMove, MovesKeepFrame
  <1>7. CASE Crash
    BY <1>7, CrashMoves
  <1>8. CASE Edit
    BY <1>8, EditMoves
  <1>9. CASE UNCHANGED vars
    BY <1>9, FrameStutter
  <1> QED BY <1>1, <1>2, <1>3, <1>4, <1>5, <1>6, <1>7, <1>8, <1>9 DEF Next

LEMMA FrameHolds == Spec => []FrameInv
  BY FrameInit, FrameStep, PTL DEF Spec

\* A crawl fails only when a request or a read failed in it or a file was edited
\* meanwhile: whatever an earlier crawl left, wherever it died, the chunks of the
\* graph are never refused for an edge that is already there.
THEOREM CleanCrawlsSucceed == Spec => []CleanCrawlSucceeds
  <1>1. FrameInv => CleanCrawlSucceeds
    BY DEF FrameInv, Failing, CleanCrawlSucceeds
  <1> QED BY <1>1, FrameHolds, PTL

LEMMA SoundInit == MaxLiveEdits = 0 /\ Init => SoundInv
  <1> SUFFICES ASSUME MaxLiveEdits = 0, Init PROVE SoundInv
    OBVIOUS
  <1>1. budget.liveEdits = 0 /\ ~ crawl.disturbed
    BY DEF Init, NoCrawl
  <1>2. Good(db)
    BY EmptyIsGood DEF Init
  <1> QED BY <1>1, <1>2 DEF SoundInv

LEMMA LiveEditsStay ==
  ASSUME TypeInv, Next, ~ Edit
  PROVE  budget'.liveEdits = budget.liveEdits
  <1>1. \/ UNCHANGED budget
        \/ \E what \in {"crawls", "crashes", "faults"} : Spend(what)
    <2>1. CASE \E d \in Docs : Worker(d)
      BY <2>1 DEF Worker, ReadDocument, ReadFails, TokensAnswered, SymbolsAnswered,
                  ReadForTokens, TokensCaptured, StartProbe, Answered
    <2>2. CASE Graph
      BY <2>2 DEF Graph, GraphChunk, ChunkDocumentFails, GraphRequestFails, GraphEnds
    <2>3. CASE \/ StartCrawl \/ ResetProvided \/ ClearStandard \/ CaptureEnds
               \/ ProbeEnds \/ Crash
      BY <2>3 DEF StartCrawl, ResetProvided, ClearStandard, CaptureEnds, ProbeEnds, Crash
    <2> QED BY <2>1, <2>2, <2>3 DEF Next
  <1> QED BY <1>1, Spends

LEMMA SoundStep == FrameInv /\ SoundInv /\ [Next]_vars => SoundInv'
  <1> SUFFICES ASSUME FrameInv, SoundInv, [Next]_vars PROVE SoundInv'
    OBVIOUS
  <1> USE DEF SoundInv
  <1>1. Next /\ ~ Edit => budget'.liveEdits = 0
    BY LiveEditsStay DEF FrameInv
  <1>2. CASE StartCrawl
    <2>1. \E provider \in Providers :
             crawl' = [NoCrawl EXCEPT !.phase = "discover", !.provider = provider]
      BY <1>2 DEF StartCrawl
    <2>2. crawl'.disturbed = FALSE
      BY <2>1 DEF NoCrawl
    <2>3. Good(db')
      BY <1>2, Synchronizes DEF StartCrawl, FrameInv, TypeInv
    <2>4. budget'.liveEdits = 0
      BY <1>2, Spends DEF StartCrawl, FrameInv
    <2> QED BY <2>2, <2>3, <2>4
  <1>3. ASSUME NEW d \in Docs, Worker(d) PROVE SoundInv'
    <2>1. (\E w : WorkerStep(d, w)) /\ Good(db')
      BY <1>3, WorkersKeep DEF WorkerKeeps
    <2>2. crawl'.disturbed = crawl.disturbed
      BY <2>1 DEF WorkerStep, CrawlGoesOn, FrameInv, TypeInv, CrawlRecord
    <2>3. CASE ~ Edit
      <3>1. Next
        BY <1>3 DEF Next
      <3> QED BY <1>1, <2>1, <2>2, <2>3, <3>1
    <2>4. CASE Edit
      <3>1. Running
        BY <2>1 DEF WorkerStep, Running
      <3> QED BY <2>4, <3>1, EditMoves DEF FrameInv, TypeInv
    <2> QED BY <2>3, <2>4
  <1>4. CASE \/ ResetProvided \/ ClearStandard \/ Graph \/ CaptureEnds \/ ProbeEnds
    <2>1. Running /\ CrawlMoves /\ Good(db')
      BY <1>4, ResetMoves, ClearMoves, GraphChunkMoves, ChunkDocumentMoves,
         GraphRequestMoves, GraphEndsMoves, EndsMove DEF Graph
    <2>2. CASE ~ Edit
      <3>1. Next
        BY <1>4 DEF Next
      <3> QED BY <1>1, <2>1, <2>2, <3>1 DEF CrawlMoves
    <2>3. CASE Edit
      BY <2>1, <2>3, EditMoves DEF FrameInv, TypeInv
    <2> QED BY <2>2, <2>3
  <1>5. CASE Crash
    <2>1. Good(db') /\ crawl'.disturbed = FALSE
      BY <1>5, CrashMoves
    <2>2. budget'.liveEdits = 0
      BY <1>5, Spends DEF Crash, FrameInv
    <2> QED BY <2>1, <2>2
  <1>6. CASE Edit
    BY <1>6, EditMoves DEF FrameInv, TypeInv
  <1>7. CASE UNCHANGED vars
    BY <1>7 DEF vars
  <1> QED BY <1>2, <1>3, <1>4, <1>5, <1>6, <1>7 DEF Next

LEMMA SoundHolds ==
  ASSUME MaxLiveEdits = 0
  PROVE  Spec => []SoundInv
  <1>1. Init => SoundInv
    BY SoundInit
  <1> QED BY <1>1, FrameHolds, SoundStep, PTL DEF Spec

\* As long as no file is edited during a crawl, every complete answer is the one
\* for the documents that are recorded, whichever crawl and whichever worker
\* saved it, asked for or derived from another, and wherever crawls have died.
THEOREM CompleteAnswersTrue ==
  ASSUME MaxLiveEdits = 0
  PROVE  Spec => []AnswersTrue
  <1>1. SoundInv => AnswersTrue
    <2> SUFFICES ASSUME SoundInv, NEW o \in Occurrences, NEW kind \in Kinds,
                        Complete(db, o, kind)
                 PROVE  True(o, kind, db.answers[o, kind].locations)
      BY DEF AnswersTrue
    <2> QED BY DEF SoundInv, Good, Sound, AnswersSound, Complete, True, TrueOf
  <1> QED BY <1>1, SoundHolds, PTL

\* So are the edges and the definitions of the graph, of the chunks appended and
\* of what is left when documents are withdrawn.
THEOREM GraphsTrue ==
  ASSUME MaxLiveEdits = 0
  PROVE  Spec => []GraphTrue
  <1>1. SoundInv => GraphTrue
    BY DEF SoundInv, Good, Sound, EdgesSound, DefinitionsSound, GraphTrue
  <1> QED BY <1>1, SoundHolds, PTL

SameEdges(b, c) ==
    c.edges = b.edges /\ c.defining = b.defining /\ c.hasGraph = b.hasGraph

LEMMA ExportsAnswers ==
  ASSUME NEW b \in Databases
  PROVE  LET index == exportRuntimeIndex(b) IN
         /\ SameEdges(b, index)
         /\ index.definitions = b.definitions /\ index.occurrences = b.occurrences
         /\ \A o \in Occurrences, kind \in Kinds :
               /\ Complete(index, o, kind) <=> Complete(b, o, kind)
               /\ Complete(b, o, kind) =>
                     index.answers[<<o, kind>>] = b.answers[<<o, kind>>]
  <1> DEFINE answers == [a \in DOMAIN b.answers |->
                IF b.answers[a].status = "complete" THEN b.answers[a] ELSE NoAnswer]
             index == exportRuntimeIndex(b)
  <1>1. index = [b EXCEPT !.answers = answers]
    BY DEF exportRuntimeIndex
  <1>2. \A a \in Occurrences \X Kinds :
          answers[a] = IF b.answers[a].status = "complete" THEN b.answers[a] ELSE NoAnswer
    BY DatabaseShape
  <1>3. NoAnswer.status # "complete"
    BY DEF NoAnswer
  <1> HIDE DEF answers, index
  <1>4. /\ index.answers = answers /\ SameEdges(b, index)
        /\ index.definitions = b.definitions /\ index.occurrences = b.occurrences
    BY <1>1 DEF Databases, SameEdges
  <1>5. ASSUME NEW o \in Occurrences, NEW kind \in Kinds
        PROVE  /\ Complete(index, o, kind) <=> Complete(b, o, kind)
               /\ Complete(b, o, kind) =>
                     index.answers[<<o, kind>>] = b.answers[<<o, kind>>]
    <2> DEFINE a == <<o, kind>>
    <2>1. a \in Occurrences \X Kinds
      OBVIOUS
    <2>2. Complete(index, o, kind) <=> index.answers[a].status = "complete"
      BY DEF Complete
    <2>3. Complete(b, o, kind) <=> b.answers[a].status = "complete"
      BY DEF Complete
    <2> HIDE DEF a
    <2> QED BY <1>2, <1>3, <1>4, <2>1, <2>2, <2>3 DEF a
  <1> QED BY <1>4, <1>5 DEF index

\* An index that is exported at any time, in the middle of a crawl or after one
\* that failed, answers nothing that is not so of the documents it records.
THEOREM IndexServesNothingFalse ==
  ASSUME MaxLiveEdits = 0
  PROVE  Spec => []ServesNothingFalse
  <1>1. FrameInv /\ SoundInv => ServesNothingFalse
    <2> SUFFICES ASSUME FrameInv, SoundInv, NEW o \in Occurrences
                 PROVE  /\ definition(Exported, o) \subseteq Truth(db.documents, o, "definition")
                        /\ \A includeDeclaration \in BOOLEAN :
                              references(Exported, o, includeDeclaration)
                                 \subseteq Truth(db.documents, o, "references")
      BY DEF ServesNothingFalse
    <2> DEFINE w == db.documents
               s == db.edges[o]
    <2>1. db \in Databases /\ Sound(db)
      BY DEF FrameInv, TypeInv, SoundInv, Good
    <2>2. /\ Exported.edges = db.edges /\ Exported.definitions = db.definitions
          /\ Exported.occurrences \subseteq Occurrences
          /\ \A kind \in Kinds :
               Exported.answers[<<o, kind>>].status = "complete" =>
                  /\ db.answers[<<o, kind>>].status = "complete"
                  /\ Exported.answers[<<o, kind>>] = db.answers[<<o, kind>>]
      BY <2>1, ExportsAnswers, DatabaseShape DEF Exported, SameEdges, Complete
    <2>9. ASSUME NEW kind \in {"definition", "references"}
          PROVE  AnswerLocations(Exported, o, kind) \subseteq Truth(w, o, kind)
      <3>1. CASE ~ (kind \in Kinds /\ Complete(Exported, o, kind))
        BY <3>1 DEF AnswerLocations
      <3>2. CASE kind \in Kinds /\ Complete(Exported, o, kind)
        <4>1. AnswerLocations(Exported, o, kind) = Exported.answers[<<o, kind>>].locations
          BY <3>2 DEF AnswerLocations
        <4>2. /\ db.answers[<<o, kind>>].status = "complete"
              /\ Exported.answers[<<o, kind>>] = db.answers[<<o, kind>>]
          BY <2>2, <3>2 DEF Complete
        <4>3. TrueOf(w, o, kind, db.answers[<<o, kind>>].locations)
          BY <2>1, <3>2, <4>2 DEF Sound, AnswersSound
        <4> QED BY <4>1, <4>2, <4>3 DEF TrueOf
      <3> QED BY <3>1, <3>2
    <2>3. AnswerLocations(Exported, o, "definition") \subseteq Truth(w, o, "definition")
      BY <2>9
    <2>4. AnswerLocations(Exported, o, "references") \subseteq Truth(w, o, "references")
      BY <2>9
    <2>5. ASSUME HasSymbol(Exported, o)
          PROVE  /\ SymbolDefinitions(Exported, o) \subseteq Truth(w, o, "definition")
                 /\ SymbolDefinitions(Exported, o) \subseteq Truth(w, o, "references")
                 /\ SameSymbol(Exported, o) \subseteq Truth(w, o, "references")
      <3>1. s # NoSymbol
        BY <2>2, <2>5 DEF HasSymbol
      <3>2. o \in Mentions(w, s) /\ db.definitions[s] = Definitions(w, s)
        BY <2>1, <3>1 DEF Sound, EdgesSound, DefinitionsSound
      <3>3. o \in Named(w) /\ TokenAt(w, o).symbol = s
        BY <3>2, Mentioned
      <3>4. Truth(w, o, "references") = Mentions(w, s)
            /\ Truth(w, o, "definition") = Definitions(w, s)
        BY <3>3, TruthOfKinds
      <3>5. SymbolDefinitions(Exported, o) = Definitions(w, s)
        BY <2>2, <2>5, <3>2 DEF SymbolDefinitions
      <3>6. SameSymbol(Exported, o) \subseteq Mentions(w, s)
        BY <2>1, <2>2, <3>1 DEF SameSymbol, Sound, EdgesSound
      <3> QED BY <3>4, <3>5, <3>6, Mentioned
    <2>6. ~ HasSymbol(Exported, o) => SymbolDefinitions(Exported, o) = {}
      BY DEF SymbolDefinitions
    <2> HIDE DEF w, s
    <2>7. definition(Exported, o) \subseteq Truth(w, o, "definition")
      BY <2>3, <2>5, <2>6 DEF definition
    <2>8. ASSUME NEW includeDeclaration \in BOOLEAN
          PROVE  references(Exported, o, includeDeclaration) \subseteq Truth(w, o, "references")
      BY <2>4, <2>5 DEF references, SymbolReferences
    <2> QED BY <2>7, <2>8 DEF w
  <1> QED BY <1>1, FrameHolds, SoundHolds, PTL

NoProvider == crawl.provider = FALSE

LEMMA ProviderStep ==
  ASSUME FrameInv, Providers = {FALSE}, NoProvider, [Next]_vars
  PROVE  NoProvider'
  <1> USE DEF NoProvider, FrameInv, TypeInv, CrawlRecord
  <1>1. CASE StartCrawl
    BY <1>1 DEF StartCrawl, NoCrawl
  <1>2. ASSUME NEW d \in Docs, Worker(d) PROVE NoProvider'
    <2>1. CrawlGoesOn
      BY <1>2, WorkersKeep DEF WorkerKeeps, WorkerStep
    <2> QED BY <2>1 DEF CrawlGoesOn
  <1>3. CASE ResetProvided \/ ClearStandard
    BY <1>3 DEF ResetProvided, ClearStandard
  <1>4. CASE Graph
    BY <1>4 DEF Graph, GraphChunk, ChunkDocumentFails, GraphRequestFails, GraphEnds, GraphFails
  <1>5. CASE CaptureEnds \/ ProbeEnds
    BY <1>5 DEF CaptureEnds, ProbeEnds
  <1>6. CASE Crash
    BY <1>6 DEF Crash, NoCrawl
  <1>7. CASE Edit
    BY <1>7 DEF Edit
  <1>8. CASE UNCHANGED vars
    BY <1>8 DEF vars
  <1> QED BY <1>1, <1>2, <1>3, <1>4, <1>5, <1>6, <1>7, <1>8 DEF Next

\* A crawl that resumes loses no complete answer that it finds, as long as no
\* file has changed and no request fails.
THEOREM CompleteAnswersKept ==
  ASSUME Providers = {FALSE}, InvalidUtf8 = {}
  PROVE  Spec => AnswersKept
  <1> DEFINE Kept == \/ KeepsComplete(db, db')
                     \/ db.documents # files
                     \/ db.hasGraph
                     \/ budget'.faults # budget.faults
  <1>1. Init => NoProvider
    BY DEF Init, NoProvider, NoCrawl
  <1>2. FrameInv /\ NoProvider /\ [Next]_vars => NoProvider'
    BY ProviderStep
  <1>3. ASSUME FrameInv, NoProvider, Next PROVE Kept
    <2>1. CASE StartCrawl
      <3>1. db \in Databases /\ files \in Files /\ db' = synchronizeDocuments(db, files)
        BY <1>3, <2>1 DEF StartCrawl, FrameInv, TypeInv
      <3>2. db.documents = files => db'.answers = db.answers
        BY <3>1, Synchronizes
      <3> QED BY <3>2 DEF KeepsComplete
    <2>2. ASSUME NEW d \in Docs, Worker(d) PROVE Kept
      BY <1>3, <2>2, WorkersKeep DEF WorkerKeeps
    <2>3. CASE ResetProvided
      <3>1. Provided = {}
        BY <1>3 DEF NoProvider, Provided
      <3> QED BY <1>3, <2>3, <3>1, ResetMoves DEF KeepsComplete
    <2>4. CASE ClearStandard
      BY <1>3, <2>4, ClearMoves DEF KeepsComplete
    <2>5. CASE Graph
      BY <1>3, <2>5, GraphChunkMoves, ChunkDocumentMoves, GraphRequestMoves,
         GraphEndsMoves DEF Graph, KeepsComplete
    <2>6. CASE CaptureEnds \/ ProbeEnds
      BY <1>3, <2>6, EndsMove DEF KeepsComplete
    <2>7. CASE Crash
      BY <1>3, <2>7, CrashMoves
    <2>8. CASE Edit
      BY <1>3, <2>8, EditMoves DEF KeepsComplete
    <2> QED BY <1>3, <2>1, <2>2, <2>3, <2>4, <2>5, <2>6, <2>7, <2>8 DEF Next
  <1>4. FrameInv /\ NoProvider /\ [Next]_vars =>
          [\A o \in Occurrences, kind \in Kinds :
             Complete(db, o, kind) /\ ~ Complete(db', o, kind) =>
               \/ db.documents # files
               \/ db.hasGraph
               \/ budget'.faults # budget.faults]_vars
    <2> SUFFICES ASSUME FrameInv, NoProvider, Next,
                        NEW o \in Occurrences, NEW kind \in Kinds,
                        Complete(db, o, kind), ~ Complete(db', o, kind)
                 PROVE  \/ db.documents # files
                        \/ db.hasGraph
                        \/ budget'.faults # budget.faults
      OBVIOUS
    <2>1. <<o, kind>> \in Occurrences \X Kinds
      OBVIOUS
    <2>2. ~ KeepsComplete(db, db')
      BY <2>1 DEF KeepsComplete, Complete
    <2> QED BY <1>3, <2>2
  <1> QED BY <1>1, <1>2, <1>4, FrameHolds, PTL DEF Spec, AnswersKept
-----------------------------------------------------------------------------
(***************************************************************************)
(* Completeness: what a crawl has done when nothing has failed              *)
(***************************************************************************)
IsProvided(d) == crawl.provider /\ d \in ProviderDocs

\* The stages of a document's work fit the phase of the crawl.
StageFits(d) ==
    /\ IsProvided(d) => work[d].stage \notin {"tokens", "symbols", "probe"}
    /\ crawl.phase = "discover" => work[d].stage \notin {"capture", "probe", "done"}
    /\ crawl.phase \in {"clear", "graph"} =>
          work[d].stage \in {"none", "unprepared", "ready"}
    /\ crawl.phase = "capture" =>
          /\ work[d].stage \in {"none", "unprepared", "ready", "capture", "done"}
          /\ work[d].stage \in {"capture", "done"} => IsProvided(d)
    /\ crawl.phase = "probe" => work[d].stage \notin {"waiting", "tokens", "symbols"}

\* Discovery: the tokens of the text, and an occurrence for each identifier.
Discovered(d) ==
    ~ IsProvided(d) /\ d \notin UnsupportedDocs =>
        /\ work[d].stage = "symbols" => /\ db.tokens[d] = files[d]
                                        /\ work[d].found = Identifiers(files[d])
        /\ work[d].stage \in {"ready", "probe", "done"} =>
              /\ db.tokens[d] = files[d]
              /\ {d} \X Identifiers(files[d]) \subseteq db.occurrences

\* The graph: a document of the provider waits for a chunk, was in one, or is
\* outside the solution, and has edges once it was in one.
Charted(d) ==
    /\ IsProvided(d) /\ d \in Prepared =>
          /\ crawl.phase = "graph" /\ ~ crawl.graphFailed =>
                d \in crawl.left \cup crawl.processed \cup OutsideSolution
          /\ crawl.phase \in {"capture", "probe"} =>
                d \in crawl.processed \cup OutsideSolution
    /\ d \in crawl.processed =>
          \A o \in Named(files) \cap Of({d}) : o \in db.occurrences /\ db.edges[o] # NoSymbol

TokensTaken(d) ==
    d \in Captured /\ (crawl.phase = "probe" \/ work[d].stage = "done") =>
        db.tokens[d] = files[d]

\* Probing: what is not answered is still to be asked.
Probed(d) ==
    crawl.phase = "probe" /\ ~ IsProvided(d) /\ work[d].stage \in {"probe", "done"} =>
        \A o \in db.occurrences \cap Of({d}), kind \in Kinds \ Unanswerable :
            \/ hasCompleteAnswer(db, o, kind)
            \/ work[d].stage = "probe" /\ <<o[2], kind>> \in work[d].queue

\* What is done of a document, as long as the crawl has a chance to succeed.
Done(d) ==
    /\ files[d] # Absent => work[d].stage \notin {"none", "unprepared"}
    /\ Discovered(d) /\ Charted(d) /\ TokensTaken(d) /\ Probed(d)

Promising == Running /\ ~ crawl.failed /\ ~ crawl.disturbed

DoneInv ==
    /\ crawl.phase \in {"discover", "clear"} => crawl.processed = {}
    /\ \A d \in Docs : StageFits(d)
    /\ Promising => \A d \in Docs : Done(d)
    /\ ~ crawl.disturbed => FinishedComplete

\* What a step of a worker leaves alone: the graph, the tokens and occurrences of
\* other documents, and what is answered, unless the step is a failure.
Leaves(d) ==
    \/ crawl'.failed
    \/ /\ crawl' = crawl
       /\ db'.edges = db.edges /\ db'.definitions = db.definitions
       /\ \A e \in Docs \ {d} : db'.tokens[e] = db.tokens[e]
       /\ db.occurrences \subseteq db'.occurrences
       /\ db'.occurrences \ Of({d}) = db.occurrences \ Of({d})
       /\ KeepsComplete(db, db')

LEMMA OfOne == \A d \in Docs, o \in Occurrences : o \in Of({d}) <=> o[1] = d
  BY DEF Of

LEMMA OthersStayDone ==
  ASSUME FrameInv, DoneInv, NEW d \in Docs, NEW w, WorkerStep(d, w), Leaves(d),
         Promising', NEW e \in Docs \ {d}
  PROVE  Done(e)'
  <1>1. /\ crawl' = crawl
        /\ db'.edges = db.edges /\ db'.definitions = db.definitions
        /\ db'.tokens[e] = db.tokens[e]
        /\ db.occurrences \subseteq db'.occurrences
        /\ db'.occurrences \ Of({d}) = db.occurrences \ Of({d})
        /\ KeepsComplete(db, db')
    BY DEF Leaves, Promising
  <1>2. files' = files /\ work'[e] = work[e]
    BY DEF WorkerStep, FrameInv, TypeInv
  <1>3. Done(e)
    BY <1>1 DEF DoneInv, Promising, Running
  <1>4. (e \in Prepared)' <=> e \in Prepared
    BY <1>2 DEF Prepared, InCrawl
  <1>5. (e \in Captured)' <=> e \in Captured
    BY <1>1, <1>4 DEF Captured, Provided
  <1>6. Discovered(e)'
    BY <1>1, <1>2, <1>3 DEF Done, Discovered, IsProvided
  <1>7. Charted(e)'
    BY <1>1, <1>2, <1>3, <1>4 DEF Done, Charted, IsProvided, Named, TokenAt
  <1>8. TokensTaken(e)'
    BY <1>1, <1>2, <1>3, <1>5 DEF Done, TokensTaken
  <1>9. Probed(e)'
    <2>1. db'.occurrences \cap Of({e}) = db.occurrences \cap Of({e})
      BY <1>1 DEF Of
    <2>2. \A o \in db.occurrences : o \in Occurrences
      BY DEF FrameInv, TypeInv, Databases
    <2>3. \A o \in Occurrences, kind \in Kinds :
            hasCompleteAnswer(db, o, kind) => hasCompleteAnswer(db', o, kind)
      <3>1. \A o \in Occurrences, kind \in Kinds : <<o, kind>> \in Occurrences \X Kinds
        OBVIOUS
      <3> QED BY <1>1, <3>1 DEF hasCompleteAnswer, Complete, KeepsComplete
    <2> QED BY <1>1, <1>2, <1>3, <2>1, <2>2, <2>3 DEF Done, Probed, IsProvided
  <1> QED BY <1>2, <1>3, <1>6, <1>7, <1>8, <1>9 DEF Done

LEMMA WorkerStaysDone ==
  ASSUME FrameInv, DoneInv, NEW d \in Docs, NEW w, WorkerStep(d, w), Leaves(d),
         StageFits(d)', Promising' => Done(d)'
  PROVE  DoneInv'
  <1>1. /\ crawl'.phase = crawl.phase /\ crawl'.processed = crawl.processed
        /\ crawl'.provider = crawl.provider
    BY DEF WorkerStep, CrawlGoesOn, FrameInv, TypeInv, CrawlRecord
  <1>2. \A e \in Docs \ {d} : work'[e] = work[e]
    BY DEF WorkerStep, FrameInv, TypeInv
  <1>3. ASSUME NEW e \in Docs \ {d} PROVE StageFits(e)'
    BY <1>1, <1>2 DEF DoneInv, StageFits, IsProvided
  <1>4. Promising' => \A e \in Docs : Done(e)'
    BY OthersStayDone
  <1>5. crawl'.phase # "finished"
    BY <1>1 DEF WorkerStep
  <1>6. FinishedComplete'
    BY <1>5 DEF FinishedComplete
  <1> QED BY <1>1, <1>3, <1>4, <1>6 DEF DoneInv

LEMMA UpsertLeaves ==
  ASSUME NEW b \in Databases, NEW d \in Docs, NEW content
  PROVE  LET c == upsertDocument(b, d, content) IN
         /\ c.tokens = b.tokens /\ c.occurrences = b.occurrences
         /\ c.edges = b.edges /\ c.definitions = b.definitions /\ c.defining = b.defining
         /\ c.hasGraph = b.hasGraph
  BY DEF upsertDocument, Databases

LEMMA TokensLeave ==
  ASSUME NEW b \in Databases, NEW d \in Docs, NEW content
  PROVE  LET c == saveSemanticTokens(b, d, content) IN
         /\ c.tokens = [b.tokens EXCEPT ![d] = content] /\ c.occurrences = b.occurrences
         /\ c.edges = b.edges /\ c.definitions = b.definitions /\ c.defining = b.defining
         /\ c.hasGraph = b.hasGraph
  BY DEF saveSemanticTokens, Databases

LEMMA OccurrencesLeave ==
  ASSUME NEW b \in Databases, NEW d \in Docs, NEW positions
  PROVE  LET c == upsertOccurrences(b, d, positions) IN
         /\ c.occurrences = b.occurrences \cup ({d} \X positions) /\ c.tokens = b.tokens
         /\ c.edges = b.edges /\ c.definitions = b.definitions /\ c.defining = b.defining
         /\ c.hasGraph = b.hasGraph
  BY DEF upsertOccurrences, Databases

\* Everything but the answers.
SameButAnswers(b, c) ==
    /\ c.tokens = b.tokens /\ c.occurrences = b.occurrences
    /\ c.edges = b.edges /\ c.definitions = b.definitions /\ c.defining = b.defining
    /\ c.hasGraph = b.hasGraph

LEMMA ReadDocumentDone ==
  ASSUME FrameInv, DoneInv, NEW d \in Docs, ReadDocument(d)
  PROVE  DoneInv'
  <1>1. /\ crawl.phase = "discover" /\ work[d].stage = "waiting"
        /\ db' = upsertDocument(db, d, files[d])
        /\ files' = files /\ crawl' = crawl
    BY DEF ReadDocument
  <1>2. PICK w : WorkerStep(d, w)
    BY ReadDocumentKeeps DEF WorkerKeeps
  <1>3. SameButAnswers(db, db')
    <2>1. db \in Databases
      BY DEF FrameInv, TypeInv
    <2> QED BY <1>1, <2>1, UpsertLeaves DEF SameButAnswers
  <1>4. db'.answers = db.answers
    <2>1. db \in Databases /\ files[d] \in Contents \cup {Absent}
      BY DEF FrameInv, TypeInv, Files
    <2> QED BY <1>1, <2>1, UpsertsDocument
  <1>5. Leaves(d)
    BY <1>1, <1>3, <1>4 DEF Leaves, SameButAnswers, KeepsComplete
  <1>6. work'[d].stage = IF IsProvided(d) THEN "ready" ELSE "tokens"
    BY DEF ReadDocument, FrameInv, TypeInv, WorkRecord, IsProvided
  <1>7. StageFits(d)'
    BY <1>1, <1>6 DEF StageFits, IsProvided
  <1>8. ASSUME Promising PROVE Done(d)'
    <2>1. Done(d) /\ crawl.processed = {}
      BY <1>1, <1>8 DEF DoneInv
    <2>2. Discovered(d)'
      BY <1>1, <1>6 DEF Discovered, IsProvided
    <2>3. Charted(d)' /\ TokensTaken(d)' /\ Probed(d)'
      BY <1>1, <2>1 DEF Charted, TokensTaken, Captured, Probed
    <2> QED BY <1>6, <2>2, <2>3 DEF Done
  <1> QED BY <1>1, <1>2, <1>5, <1>7, <1>8, WorkerStaysDone DEF Promising, Running

LEMMA TokensAnsweredDone ==
  ASSUME FrameInv, DoneInv, NEW d \in Docs, TokensAnswered(d)
  PROVE  DoneInv'
  <1>1. /\ crawl.phase = "discover" /\ work[d].stage = "tokens" /\ files' = files
        /\ \/ /\ db' = saveSemanticTokens(db, d, work[d].text)
              /\ work' = [work EXCEPT ![d].stage = "symbols",
                                      ![d].found = Identifiers(work[d].text)]
              /\ crawl' = crawl
           \/ d \in UnsupportedDocs /\ Stage(d, "symbols") /\ db' = db /\ crawl' = crawl
           \/ Failure /\ Stage(d, "symbols") /\ db' = db
    BY DEF TokensAnswered
  <1>2. WorkerKeeps(d)
    BY TokensKeep
  <1>3. PICK w : WorkerStep(d, w)
    BY <1>2 DEF WorkerKeeps
  <1>4. db \in Databases /\ crawl \in CrawlRecord /\ work[d] \in WorkRecord
    BY DEF FrameInv, TypeInv
  <1>5. work'[d].stage = "symbols"
    BY <1>1 DEF FrameInv, TypeInv, WorkRecord, Stage
  <1>6. Failure => crawl'.failed
    BY <1>4 DEF Failure, CrawlRecord
  <1>7. db'.answers = db.answers
    <2>1. work[d].text \in Contents \cup {Absent}
      BY <1>4 DEF WorkRecord
    <2> QED BY <1>1, <1>4, <2>1, SavesTokens
  <1>8. Leaves(d)
    <2>1. CASE db' = saveSemanticTokens(db, d, work[d].text) /\ crawl' = crawl
      <3>1. /\ db'.tokens = [db.tokens EXCEPT ![d] = work[d].text]
            /\ db'.occurrences = db.occurrences
            /\ db'.edges = db.edges /\ db'.definitions = db.definitions
        BY <1>4, <2>1, TokensLeave
      <3>2. \A e \in Docs \ {d} : db'.tokens[e] = db.tokens[e]
        BY <1>4, <3>1, DatabaseShape
      <3> QED BY <1>7, <2>1, <3>1, <3>2 DEF Leaves, KeepsComplete
    <2>2. CASE db' = db /\ crawl' = crawl
      BY <2>2 DEF Leaves, KeepsComplete
    <2> QED BY <1>1, <1>6, <2>1, <2>2 DEF Leaves
  <1>9. ~ IsProvided(d) /\ crawl'.phase = "discover" /\ crawl'.provider = crawl.provider
        /\ crawl'.processed = crawl.processed
    BY <1>1, <1>4 DEF DoneInv, StageFits, CrawlRecord, Failure
  <1>10. StageFits(d)'
    BY <1>5, <1>9 DEF StageFits, IsProvided
  <1>11. ASSUME Promising' PROVE Done(d)'
    <2>1. crawl' = crawl /\ Promising
      BY <1>1, <1>6, <1>11 DEF Promising, Running
    <2>2. crawl.processed = {} /\ work[d].text = files[d]
      BY <1>1, <2>1 DEF DoneInv, Promising, FrameInv, Undisturbed, Unread
    <2>3. Discovered(d)'
      <3>1. CASE d \in UnsupportedDocs
        BY <3>1 DEF Discovered
      <3>2. CASE d \notin UnsupportedDocs
        <4>1. /\ db' = saveSemanticTokens(db, d, work[d].text)
              /\ work' = [work EXCEPT ![d].stage = "symbols",
                                      ![d].found = Identifiers(work[d].text)]
          BY <1>1, <1>6, <1>11, <3>2 DEF Promising
        <4>2. work'[d].found = Identifiers(files[d])
          BY <2>2, <4>1 DEF FrameInv, TypeInv, WorkRecord
        <4>3. db'.tokens[d] = files[d]
          <5>1. db'.tokens = [db.tokens EXCEPT ![d] = work[d].text]
            BY <1>4, <4>1, TokensLeave
          <5> QED BY <1>4, <2>2, <5>1, DatabaseShape
        <4> QED BY <1>1, <1>5, <4>2, <4>3 DEF Discovered
      <3> QED BY <3>1, <3>2
    <2>4. Charted(d)' /\ TokensTaken(d)' /\ Probed(d)'
      BY <1>5, <1>9, <2>2 DEF Charted, TokensTaken, Captured, Probed
    <2> QED BY <1>5, <2>3, <2>4 DEF Done
  <1> QED BY <1>3, <1>8, <1>10, <1>11, WorkerStaysDone

LEMMA SymbolsAnsweredDone ==
  ASSUME FrameInv, DoneInv, NEW d \in Docs, SymbolsAnswered(d)
  PROVE  DoneInv'
  <1>1. /\ crawl.phase = "discover" /\ work[d].stage = "symbols" /\ files' = files
        /\ Stage(d, "ready")
        /\ \/ /\ db' = upsertOccurrences(db, d, work[d].found
                                                  \cup Declarations(work[d].text))
              /\ crawl' = crawl
           \/ /\ d \in UnsupportedDocs /\ crawl' = crawl
              /\ db' = upsertOccurrences(db, d, work[d].found)
           \/ Failure /\ db' = upsertOccurrences(db, d, work[d].found)
    BY DEF SymbolsAnswered
  <1>2. WorkerKeeps(d)
    BY SymbolsKeep
  <1>3. PICK w : WorkerStep(d, w)
    BY <1>2 DEF WorkerKeeps
  <1>4. db \in Databases /\ crawl \in CrawlRecord /\ work[d] \in WorkRecord
    BY DEF FrameInv, TypeInv
  <1>5. work'[d].stage = "ready"
    BY <1>1 DEF FrameInv, TypeInv, WorkRecord, Stage
  <1>6. Failure => crawl'.failed
    BY <1>4 DEF Failure, CrawlRecord
  <1>7. PICK positions \in SUBSET Positions :
          db' = upsertOccurrences(db, d, positions) /\ work[d].found \subseteq positions
    <2>1. work[d].found \in SUBSET Positions
      BY <1>4 DEF WorkRecord
    <2>2. work[d].found \cup Declarations(work[d].text) \in SUBSET Positions
      BY <2>1 DEF Declarations, Identifiers
    <2> QED BY <1>1, <2>1, <2>2
  <1>8. /\ db'.occurrences = db.occurrences \cup ({d} \X positions)
        /\ db'.tokens = db.tokens /\ db'.edges = db.edges
        /\ db'.definitions = db.definitions /\ db'.answers = db.answers
    BY <1>4, <1>7, OccurrencesLeave, UpsertsOccurrences
  <1>9. Leaves(d)
    <2>1. {d} \X positions \subseteq Of({d})
      BY DEF Of, Occurrences
    <2> QED BY <1>1, <1>6, <1>8, <2>1 DEF Leaves, KeepsComplete
  <1>10. /\ crawl'.phase = "discover" /\ crawl'.provider = crawl.provider
         /\ crawl'.processed = crawl.processed
    BY <1>1, <1>4 DEF CrawlRecord, Failure
  <1>11. StageFits(d)'
    BY <1>5, <1>10 DEF StageFits, IsProvided
  <1>12. ASSUME Promising' PROVE Done(d)'
    <2>1. crawl' = crawl /\ Promising
      BY <1>1, <1>6, <1>12 DEF Promising, Running
    <2>2. crawl.processed = {} /\ Done(d)
      BY <1>1, <2>1 DEF DoneInv
    <2>3. Discovered(d)'
      BY <1>1, <1>5, <1>7, <1>8, <2>1, <2>2 DEF Done, Discovered, IsProvided
    <2>4. Charted(d)' /\ TokensTaken(d)' /\ Probed(d)'
      BY <1>5, <1>10, <2>2 DEF Charted, TokensTaken, Captured, Probed
    <2> QED BY <1>5, <2>3, <2>4 DEF Done
  <1> QED BY <1>3, <1>9, <1>11, <1>12, WorkerStaysDone

LEMMA ReadsDone ==
  ASSUME FrameInv, DoneInv, NEW d \in Docs, ReadForTokens(d) \/ ReadFails(d)
  PROVE  DoneInv'
  <1>1. /\ files' = files /\ db' = db
        /\ \/ /\ crawl.phase = "capture" /\ d \in Captured
              /\ work[d].stage = "ready" /\ Stage(d, "capture") /\ crawl' = crawl
           \/ /\ \/ crawl.phase = "capture" /\ d \in Captured
                 \/ crawl.phase = "probe"
              /\ Stage(d, "done") /\ work[d].stage = "ready"
              /\ crawl' = [crawl EXCEPT !.failed = TRUE] \/ Failure
           \/ /\ crawl.phase = "discover" /\ work[d].stage = "waiting"
              /\ Stage(d, "unprepared") /\ Failure
    BY DEF ReadForTokens, ReadFails
  <1>2. WorkerKeeps(d)
    BY ReadsKeep
  <1>3. PICK w : WorkerStep(d, w)
    BY <1>2 DEF WorkerKeeps
  <1>4. crawl \in CrawlRecord /\ work \in [Docs -> WorkRecord]
    BY DEF FrameInv, TypeInv
  <1>5. \A stage : Stage(d, stage) => work'[d].stage = stage
    BY <1>4 DEF WorkRecord, Stage
  <1>6. /\ crawl'.phase = crawl.phase /\ crawl'.provider = crawl.provider
        /\ crawl' = crawl \/ crawl'.failed
        /\ crawl' = [crawl EXCEPT !.failed = TRUE] \/ Failure => crawl'.failed
    BY <1>1, <1>4 DEF Failure, CrawlRecord
  <1>7. Leaves(d)
    BY <1>1, <1>6 DEF Leaves, KeepsComplete
  <1>8. d \in Captured => IsProvided(d)
    BY DEF Captured, Provided, IsProvided
  <1>9. StageFits(d)'
    BY <1>1, <1>5, <1>6, <1>8 DEF StageFits, IsProvided
  <1>10. ASSUME Promising' PROVE Done(d)'
    <2>1. crawl' = crawl /\ Promising /\ work'[d].stage = "capture"
          /\ crawl.phase = "capture" /\ work[d].stage = "ready" /\ d \in Captured
      BY <1>1, <1>5, <1>6, <1>10 DEF Promising, Running
    <2>2. Done(d)
      BY <2>1 DEF DoneInv
    <2>3. Discovered(d)' /\ Probed(d)'
      BY <1>8, <2>1 DEF Discovered, Probed, IsProvided
    <2>4. Charted(d)'
      BY <1>1, <2>1, <2>2 DEF Done, Charted, IsProvided, Prepared, InCrawl, Named, TokenAt
    <2>5. TokensTaken(d)'
      BY <2>1 DEF TokensTaken
    <2> QED BY <2>1, <2>3, <2>4, <2>5 DEF Done
  <1> QED BY <1>3, <1>7, <1>9, <1>10, WorkerStaysDone

LEMMA TokensCapturedDone ==
  ASSUME FrameInv, DoneInv, NEW d \in Docs, TokensCaptured(d)
  PROVE  DoneInv'
  <1>1. /\ crawl.phase = "capture" /\ work[d].stage = "capture" /\ files' = files
        /\ Stage(d, "done")
        /\ \/ db' = saveSemanticTokens(db, d, work[d].text) /\ crawl' = crawl
           \/ Failure /\ db' = db
    BY DEF TokensCaptured
  <1>2. WorkerKeeps(d)
    BY TokensKeep
  <1>3. PICK w : WorkerStep(d, w)
    BY <1>2 DEF WorkerKeeps
  <1>4. db \in Databases /\ crawl \in CrawlRecord /\ work[d] \in WorkRecord
    BY DEF FrameInv, TypeInv
  <1>5. work'[d].stage = "done"
    BY <1>1 DEF FrameInv, TypeInv, WorkRecord, Stage
  <1>6. /\ Failure => crawl'.failed
        /\ crawl'.phase = "capture" /\ crawl'.provider = crawl.provider
    BY <1>1, <1>4 DEF Failure, CrawlRecord
  <1>7. IsProvided(d)
    BY <1>1 DEF DoneInv, StageFits
  <1>8. CASE db' = db /\ crawl'.failed
    <2>1. Leaves(d) /\ ~ Promising'
      BY <1>8 DEF Leaves, Promising
    <2>2. StageFits(d)'
      BY <1>5, <1>6, <1>7 DEF StageFits, IsProvided
    <2> QED BY <1>3, <2>1, <2>2, WorkerStaysDone
  <1>9. CASE db' = saveSemanticTokens(db, d, work[d].text) /\ crawl' = crawl
    <2>1. /\ db'.tokens = [db.tokens EXCEPT ![d] = work[d].text]
          /\ db'.occurrences = db.occurrences
          /\ db'.edges = db.edges /\ db'.definitions = db.definitions
      BY <1>4, <1>9, TokensLeave
    <2>2. db'.answers = db.answers
      <3>1. work[d].text \in Contents \cup {Absent}
        BY <1>4 DEF WorkRecord
      <3> QED BY <1>4, <1>9, <3>1, SavesTokens
    <2>3. /\ \A e \in Docs \ {d} : db'.tokens[e] = db.tokens[e]
          /\ db'.tokens[d] = work[d].text
      BY <1>4, <2>1, DatabaseShape
    <2>4. Leaves(d)
      BY <1>9, <2>1, <2>2, <2>3 DEF Leaves, KeepsComplete
    <2>5. StageFits(d)'
      BY <1>5, <1>6, <1>7 DEF StageFits, IsProvided
    <2>6. ASSUME Promising' PROVE Done(d)'
      <3>1. Promising /\ work[d].text = files[d]
        BY <1>1, <1>9, <2>6 DEF Promising, Running, FrameInv, Undisturbed, Unread
      <3>2. Done(d)
        BY <3>1 DEF DoneInv
      <3>3. Discovered(d)' /\ Probed(d)'
        BY <1>7, <1>9 DEF Discovered, Probed, IsProvided
      <3>4. Charted(d)'
        BY <1>1, <1>5, <1>9, <2>1, <3>2
        DEF Done, Charted, IsProvided, Prepared, InCrawl, Named, TokenAt
      <3>5. TokensTaken(d)'
        BY <1>1, <2>3, <3>1 DEF TokensTaken
      <3> QED BY <1>5, <3>3, <3>4, <3>5 DEF Done
    <2> QED BY <1>3, <2>4, <2>5, <2>6, WorkerStaysDone
  <1> QED BY <1>1, <1>6, <1>8, <1>9

LEMMA AnswerLeaves ==
  ASSUME NEW b \in Databases, NEW o \in Occurrences, NEW kind \in Kinds,
         NEW locations \in SUBSET Occurrences
  PROVE  /\ SameButAnswers(b, saveAnswer(b, o, kind, locations))
         /\ Complete(saveAnswer(b, o, kind, locations), o, kind)
  <1> DEFINE c == saveAnswer(b, o, kind, locations)
  <1>1. /\ c \in Databases /\ c = [b EXCEPT !.answers = c.answers]
        /\ c.answers[<<o, kind>>] = Answer(locations)
    BY SavesAnswer
  <1> HIDE DEF c
  <1>2. SameButAnswers(b, c)
    BY <1>1 DEF SameButAnswers, Databases
  <1>3. Complete(c, o, kind)
    <2>1. c.answers[<<o, kind>>].status = "complete"
      BY <1>1 DEF Answer
    <2> QED BY <2>1 DEF Complete
  <1> QED BY <1>2, <1>3 DEF c

\* A document is probed from a database in which all that is not among the items
\* is answered.
LEMMA AdvanceDone ==
  ASSUME FrameInv, DoneInv, NEW d \in Docs, NEW base, NEW items \in SUBSET Items,
         crawl.phase = "probe", work[d].stage \in {"ready", "probe"}, d \in Standard,
         base \in Databases, base.documents = db.documents,
         SameButAnswers(db, base), KeepsComplete(db, base),
         Promising => \A o \in db.occurrences \cap Of({d}), kind \in Kinds \ Unanswerable :
                         hasCompleteAnswer(base, o, kind) \/ <<o[2], kind>> \in items,
         Advance(d, base, items), files' = files, crawl' = crawl, budget' \in Budgets
  PROVE  DoneInv'
  <1> DEFINE acc == PassOver(d, base, items)
             stage == IF acc.queue = {} THEN "done" ELSE "probe"
  <1>1. Passed(d, base, items, acc)
    BY PassesOver
  <1>2. /\ db' = acc.db
        /\ work'[d].stage = stage /\ work'[d].queue = acc.queue
    BY DEF Advance, FrameInv, TypeInv, WorkRecord
  <1>3. stage = "probe" \/ (stage = "done" /\ acc.queue = {})
    OBVIOUS
  <1> HIDE DEF acc, stage
  <1>4. PICK w : WorkerStep(d, w)
    <2>1. CrawlGoesOn
      BY CrawlMayGoOn DEF FrameInv
    <2> QED BY <2>1, AdvanceStep
  <1>5. KeepsComplete(base, db') /\ SameButAnswers(base, db')
    BY <1>1, <1>2 DEF Passed, KeepsComplete, SameButAnswers, Databases
  <1>6. KeepsComplete(db, db') /\ SameButAnswers(db, db')
    BY <1>5 DEF KeepsComplete, SameButAnswers
  <1>7. Leaves(d)
    BY <1>6 DEF Leaves, SameButAnswers
  <1>8. ~ IsProvided(d)
    BY DEF Standard, Provided, IsProvided
  <1>9. StageFits(d)'
    BY <1>2, <1>3, <1>8 DEF StageFits, IsProvided
  <1>10. ASSUME Promising PROVE Done(d)'
    <2>1. Done(d)
      BY <1>10 DEF DoneInv
    <2>2. Discovered(d)'
      BY <1>2, <1>3, <1>6, <2>1 DEF Done, Discovered, IsProvided, SameButAnswers
    <2>3. Charted(d)'
      BY <1>6, <1>8, <2>1 DEF Done, Charted, IsProvided, SameButAnswers, Named, TokenAt
    <2>4. TokensTaken(d)'
      BY <1>8 DEF TokensTaken, Captured, Provided, IsProvided
    <2>5. ASSUME NEW o \in db.occurrences \cap Of({d}), NEW kind \in Kinds \ Unanswerable
          PROVE  \/ hasCompleteAnswer(db', o, kind)
                 \/ stage = "probe" /\ <<o[2], kind>> \in acc.queue
      <3>1. o \in Occurrences /\ o = <<d, o[2]>>
        BY DEF Of, Occurrences
      <3>2. <<o, kind>> \in Occurrences \X Kinds
        BY <3>1
      <3>3. CASE hasCompleteAnswer(base, o, kind)
        BY <1>5, <3>2, <3>3 DEF hasCompleteAnswer, Complete, KeepsComplete, SameButAnswers
      <3>4. CASE <<o[2], kind>> \in acc.queue
        BY <1>3, <3>4
      <3>5. CASE <<o[2], kind>> \in items \ acc.queue
        <4> DEFINE item == <<o[2], kind>>
        <4>1. hasCompleteAnswer(acc.db, <<d, item[1]>>, item[2])
          BY <1>1, <3>5 DEF Passed
        <4> QED BY <1>2, <3>1, <4>1
      <3> QED BY <1>10, <3>3, <3>4, <3>5
    <2>6. Probed(d)'
      BY <1>2, <1>6, <2>5 DEF Probed, SameButAnswers
    <2> QED BY <1>2, <1>3, <2>2, <2>3, <2>4, <2>6 DEF Done
  <1> QED BY <1>4, <1>7, <1>9, <1>10, WorkerStaysDone DEF Promising, Running

LEMMA StartProbeDone ==
  ASSUME FrameInv, DoneInv, NEW d \in Docs, StartProbe(d)
  PROVE  DoneInv'
  <1>1. /\ crawl.phase = "probe" /\ work[d].stage = "ready" /\ d \in Standard
        /\ Advance(d, db, listOccurrences(d))
        /\ UNCHANGED <<files, crawl, budget>>
    BY DEF StartProbe
  <1>2. listOccurrences(d) \in SUBSET Items /\ db \in Databases
    BY DEF listOccurrences, Items, FrameInv, TypeInv
  <1>3. \A o \in db.occurrences \cap Of({d}), kind \in Kinds \ Unanswerable :
           <<o[2], kind>> \in listOccurrences(d)
    <2> SUFFICES ASSUME NEW o \in db.occurrences \cap Of({d}), NEW kind \in Kinds
                 PROVE  <<o[2], kind>> \in listOccurrences(d)
      OBVIOUS
    <2>1. o = <<d, o[2]>> /\ o[2] \in Positions
      BY DEF Of, Occurrences
    <2>2. o[2] \in {p \in Positions : <<d, p>> \in db.occurrences}
      BY <2>1
    <2> QED BY <2>2 DEF listOccurrences
  <1>4. SameButAnswers(db, db) /\ KeepsComplete(db, db)
    BY DEF SameButAnswers, KeepsComplete
  <1>5. budget' \in Budgets
    BY <1>1 DEF FrameInv, TypeInv, Budgets
  <1> QED BY <1>1, <1>2, <1>3, <1>4, <1>5, AdvanceDone

LEMMA AnsweredDone ==
  ASSUME FrameInv, DoneInv, NEW d \in Docs, Answered(d)
  PROVE  DoneInv'
  <1> DEFINE item == NextOf(work[d].queue)
             o    == <<d, item[1]>>
             kind == item[2]
             rest == work[d].queue \ {item}
  <1>1. crawl.phase = "probe" /\ work[d].stage = "probe" /\ files' = files
    BY DEF Answered
  <1>2. /\ o \in Occurrences /\ kind \in Kinds /\ kind \in AllKinds
        /\ rest \in SUBSET Items /\ o[1] = d
    BY <1>1, NextIsItem, CrawlDatabaseAssumption
  <1>3. \A x \in Of({d}) : \A k :
           <<x[2], k>> \in work[d].queue =>
              \/ x = o /\ k = kind
              \/ <<x[2], k>> \in rest
    BY <1>1, NextIsItem DEF Of, Occurrences
  <1>4. db \in Databases /\ crawl \in CrawlRecord
    BY DEF FrameInv, TypeInv
  <1>5. ~ IsProvided(d) /\ d \in Standard
    BY <1>1 DEF DoneInv, StageFits, IsProvided, Standard, Provided, Prepared, InCrawl
  <1>6. \/ /\ crawl' = crawl /\ budget' = budget
           /\ \/ kind \in Unanswerable /\ Advance(d, db, rest)
              \/ \E locations \in SUBSET Occurrences :
                    Advance(d, saveAnswer(db, o, kind, locations), rest)
        \/ Failure /\ Advance(d, saveAnswerError(db, o, kind), rest)
    <2>1. Truth(view, o, kind) \in SUBSET Occurrences /\ {} \in SUBSET Occurrences
      BY <1>2, TruthIsPlaces
    <2> QED BY <2>1 DEF Answered
  <1>7. ASSUME Promising
        PROVE  \A x \in db.occurrences \cap Of({d}), k \in Kinds \ Unanswerable :
                 hasCompleteAnswer(db, x, k) \/ (x = o /\ k = kind) \/ <<x[2], k>> \in rest
    <2>1. Probed(d)
      BY <1>7 DEF DoneInv, Done
    <2> QED BY <1>1, <1>3, <1>5, <2>1 DEF Probed
  <1> HIDE DEF item, o, kind, rest
  <1>8. CASE crawl' = crawl /\ budget' = budget /\ kind \in Unanswerable
             /\ Advance(d, db, rest)
    <2>1. SameButAnswers(db, db) /\ KeepsComplete(db, db) /\ budget' \in Budgets
      BY <1>8 DEF SameButAnswers, KeepsComplete, FrameInv, TypeInv, Budgets
    <2>2. Promising => \A x \in db.occurrences \cap Of({d}), k \in Kinds \ Unanswerable :
                          hasCompleteAnswer(db, x, k) \/ <<x[2], k>> \in rest
      BY <1>7, <1>8
    <2> QED BY <1>1, <1>2, <1>4, <1>5, <1>8, <2>1, <2>2, AdvanceDone
  <1>9. ASSUME NEW locations \in SUBSET Occurrences, crawl' = crawl, budget' = budget,
               Advance(d, saveAnswer(db, o, kind, locations), rest)
        PROVE  DoneInv'
    <2> DEFINE base == saveAnswer(db, o, kind, locations)
    <2>1. /\ base \in Databases /\ base.documents = db.documents
          /\ KeepsComplete(db, base)
          /\ SameButAnswers(db, base) /\ Complete(base, o, kind)
      BY <1>2, <1>4, AnswersSaved, AnswerLeaves
    <2>2. Advance(d, base, rest) /\ budget' \in Budgets
      BY <1>9 DEF FrameInv, TypeInv, Budgets
    <2> HIDE DEF base
    <2>3. ASSUME Promising, NEW x \in db.occurrences \cap Of({d}),
                 NEW k \in Kinds \ Unanswerable
          PROVE  hasCompleteAnswer(base, x, k) \/ <<x[2], k>> \in rest
      <3>1. CASE hasCompleteAnswer(db, x, k)
        <4>1. <<x, k>> \in Occurrences \X Kinds
          BY DEF Of
        <4> QED BY <2>1, <3>1, <4>1
                DEF hasCompleteAnswer, Complete, KeepsComplete, SameButAnswers
      <3>2. CASE x = o /\ k = kind
        BY <2>1, <3>2 DEF hasCompleteAnswer
      <3> QED BY <1>7, <2>3, <3>1, <3>2
    <2> QED BY <1>1, <1>2, <1>5, <1>9, <2>1, <2>2, <2>3, AdvanceDone
  <1>10. CASE Failure /\ Advance(d, saveAnswerError(db, o, kind), rest)
    <2>1. PICK w : WorkerStep(d, w)
      BY AnsweredKeeps DEF WorkerKeeps
    <2>2. crawl'.failed /\ crawl'.phase = crawl.phase /\ crawl'.provider = crawl.provider
      BY <1>4, <1>10 DEF Failure, CrawlRecord
    <2>3. Leaves(d) /\ ~ Promising'
      BY <2>2 DEF Leaves, Promising
    <2>4. work'[d].stage \in {"done", "probe"}
      BY <1>10 DEF Advance, FrameInv, TypeInv, WorkRecord
    <2>5. StageFits(d)'
      BY <1>1, <1>5, <2>2, <2>4 DEF StageFits, IsProvided
    <2> QED BY <2>1, <2>3, <2>5, WorkerStaysDone
  <1> QED BY <1>6, <1>8, <1>9, <1>10

LEMMA WorkersDone ==
  ASSUME FrameInv, DoneInv, NEW d \in Docs, Worker(d)
  PROVE  DoneInv'
  BY ReadDocumentDone, ReadsDone, TokensAnsweredDone, SymbolsAnsweredDone,
     TokensCapturedDone, StartProbeDone, AnsweredDone DEF Worker

LEMMA DeletesLeave ==
  ASSUME NEW b \in Databases, NEW occurrences, NEW kinds
  PROVE  LET c == DeleteEdges(DeleteAnswers(b, occurrences, kinds), occurrences) IN
         /\ c.tokens = b.tokens /\ c.occurrences = b.occurrences
         /\ c.hasGraph = b.hasGraph /\ c.defining = b.defining \ occurrences
         /\ \A o \in Occurrences \ occurrences : c.edges[o] = b.edges[o]
  <1> DEFINE bare == DeleteAnswers(b, occurrences, kinds)
             c == DeleteEdges(bare, occurrences)
  <1>1. bare \in Databases /\ bare = [b EXCEPT !.answers = bare.answers]
    BY DeletesAnswers
  <1> HIDE DEF bare
  <1>2. /\ bare.tokens = b.tokens /\ bare.occurrences = b.occurrences
        /\ bare.edges = b.edges /\ bare.defining = b.defining
        /\ bare.hasGraph = b.hasGraph
    BY <1>1 DEF Databases
  <1>3. /\ c.tokens = bare.tokens /\ c.occurrences = bare.occurrences
        /\ c.hasGraph = bare.hasGraph /\ c.defining = bare.defining \ occurrences
        /\ \A o \in Occurrences \ occurrences : c.edges[o] = bare.edges[o]
    BY <1>1 DEF DeleteEdges, Databases
  <1> QED BY <1>2, <1>3 DEF bare

LEMMA ResetLeaves ==
  ASSUME NEW b \in Databases, NEW docs
  PROVE  LET c == resetDocumentOccurrences(b, docs) IN
         /\ c.tokens = b.tokens /\ c.occurrences = b.occurrences \ Of(docs)
         /\ c.hasGraph = b.hasGraph /\ c.defining = b.defining \ Of(docs)
         /\ \A o \in Occurrences \ Of(docs) : c.edges[o] = b.edges[o]
  <1> DEFINE e == DeleteEdges(DeleteAnswers(b, Of(docs), Kinds), Of(docs))
             c == resetDocumentOccurrences(b, docs)
  <1>1. c = [e EXCEPT !.occurrences = e.occurrences \ Of(docs)]
    BY DEF resetDocumentOccurrences
  <1>2. /\ e.tokens = b.tokens /\ e.occurrences = b.occurrences
        /\ e.hasGraph = b.hasGraph /\ e.defining = b.defining \ Of(docs)
        /\ \A o \in Occurrences \ Of(docs) : e.edges[o] = b.edges[o]
    BY DeletesLeave
  <1>3. e \in Databases
    BY DeletesBoth DEF Keeps
  <1> HIDE DEF e, c
  <1>4. /\ c.tokens = e.tokens /\ c.occurrences = e.occurrences \ Of(docs)
        /\ c.hasGraph = e.hasGraph /\ c.defining = e.defining /\ c.edges = e.edges
    BY <1>1, <1>3 DEF Databases
  <1> QED BY <1>2, <1>4 DEF c

LEMMA ClearLeaves ==
  ASSUME NEW b \in Databases, NEW docs
  PROVE  LET c == clearSymbolGraphForDocuments(b, docs) IN
         /\ c.tokens = b.tokens /\ c.occurrences = b.occurrences
         /\ c.hasGraph = b.hasGraph /\ c.defining \subseteq b.defining
         /\ b.hasGraph => /\ c.defining = b.defining \ Of(docs)
                          /\ \A o \in Of(docs) : c.edges[o] = NoSymbol
         /\ \A o \in Occurrences \ Of(docs) : c.edges[o] = b.edges[o]
  <1>1. CASE b.hasGraph
    <2> DEFINE kinds == {"definition", "declaration"}
               c     == DeleteEdges(DeleteAnswers(b, Of(docs), kinds), Of(docs))
    <2>1. Of(docs) \subseteq Occurrences
      BY DEF Of
    <2>2. /\ c.tokens = b.tokens /\ c.occurrences = b.occurrences
          /\ c.hasGraph = b.hasGraph /\ c.defining = b.defining \ Of(docs)
          /\ \A o \in Occurrences \ Of(docs) : c.edges[o] = b.edges[o]
      BY DeletesLeave
    <2>3. \A o \in Occurrences \cap Of(docs) : c.edges[o] = NoSymbol
      BY DeletesBoth
    <2>4. clearSymbolGraphForDocuments(b, docs) = c
      BY <1>1 DEF clearSymbolGraphForDocuments
    <2> HIDE DEF c
    <2> QED BY <2>1, <2>2, <2>3, <2>4
  <1>2. CASE ~ b.hasGraph
    BY <1>2 DEF clearSymbolGraphForDocuments
  <1> QED BY <1>1, <1>2

LEMMA AppendLeaves ==
  ASSUME NEW b \in Databases, NEW docs, NEW world, NEW symbols, ChunkOf(world, docs, symbols),
         NEW defining, NEW defined
  PROVE  LET c == appendSymbolGraph(b, symbols, defining, defined) IN
         /\ c.tokens = b.tokens /\ c.hasGraph
         /\ c.occurrences = b.occurrences \cup (Named(world) \cap Of(docs))
         /\ c.defining = b.defining \cup defining
         /\ \A o \in Occurrences :
              c.edges[o] = IF o \in Named(world) \cap Of(docs)
                             THEN TokenAt(world, o).symbol ELSE b.edges[o]
  <1>1. /\ DOMAIN symbols = Named(world) \cap Of(docs)
        /\ \A o \in Named(world) \cap Of(docs) : symbols[o] = TokenAt(world, o).symbol
    BY DEF ChunkOf
  <1> QED BY <1>1 DEF appendSymbolGraph, Databases

LEMMA NamesASymbol ==
  ASSUME NEW world \in Files, NEW o \in Named(world)
  PROVE  TokenAt(world, o).symbol \in Symbols
  <1>1. /\ o[1] \in Docs /\ o[2] \in Positions /\ TokenAt(world, o) # NoToken
        /\ TokenAt(world, o) = IF world[o[1]] = Absent THEN NoToken ELSE world[o[1]][o[2]]
    BY DEF Named, TokenAt, Occurrences
  <1>2. world[o[1]] \in Contents /\ world[o[1]][o[2]] \in Tokens \cup {NoToken}
    BY <1>1, CrawlDatabaseAssumption DEF Files
  <1> QED BY <1>1, <1>2 DEF Tokens

LEMMA EndedIsDone ==
  ASSUME crawl'.phase \in {"idle", "failed"}, work' = [d \in Docs |-> NoWork]
  PROVE  DoneInv'
  <1>1. \A d \in Docs : work'[d].stage = "none"
    BY NoWorkIsWork
  <1>2. \A d \in Docs : StageFits(d)'
    BY <1>1 DEF StageFits
  <1> QED BY <1>2 DEF DoneInv, Promising, Running, FinishedComplete

LEMMA StartDone ==
  ASSUME FrameInv, StartCrawl
  PROVE  DoneInv'
  <1>1. PICK provider \in BOOLEAN :
           crawl' = [NoCrawl EXCEPT !.phase = "discover", !.provider = provider]
    BY CrawlerAssumption DEF StartCrawl
  <1>2. crawl'.phase = "discover" /\ crawl'.processed = {}
    BY <1>1 DEF NoCrawl
  <1>3. /\ files' = files
        /\ \A d \in Docs : /\ work'[d].stage \in {"none", "waiting"}
                           /\ files[d] # Absent => work'[d].stage = "waiting"
    BY DEF StartCrawl, NoWork
  <1>4. ASSUME NEW d \in Docs PROVE StageFits(d)' /\ Done(d)'
    BY <1>2, <1>3
    DEF StageFits, Done, Discovered, Charted, TokensTaken, Captured, Probed
  <1> QED BY <1>2, <1>4 DEF DoneInv, FinishedComplete

LEMMA ResetDone ==
  ASSUME FrameInv, DoneInv, ResetProvided
  PROVE  DoneInv'
  <1>1. /\ crawl.phase = "discover" /\ crawl' = [crawl EXCEPT !.phase = "clear"]
        /\ \A d \in InCrawl : work[d].stage \in {"ready", "unprepared"}
        /\ db' = resetDocumentOccurrences(db, Provided)
        /\ UNCHANGED <<files, work, budget>>
    BY DEF ResetProvided
  <1>2. /\ crawl'.phase = "clear" /\ crawl'.provider = crawl.provider
        /\ crawl'.processed = crawl.processed /\ crawl'.failed = crawl.failed
        /\ crawl'.disturbed = crawl.disturbed
    BY <1>1 DEF FrameInv, TypeInv, CrawlRecord
  <1>3. db'.tokens = db.tokens /\ db'.occurrences = db.occurrences \ Of(Provided)
    BY <1>1, ResetLeaves DEF FrameInv, TypeInv
  <1>4. \A d \in Docs : work[d].stage \in {"none", "ready", "unprepared"}
    BY <1>1 DEF InCrawl
  <1>5. \A d \in Docs : StageFits(d)'
    BY <1>1, <1>2, <1>4 DEF StageFits
  <1>6. crawl.processed = {}
    BY <1>1 DEF DoneInv
  <1>7. ASSUME Promising, NEW d \in Docs PROVE Done(d)'
    <2>1. Done(d)
      BY <1>7 DEF DoneInv
    <2>2. ~ IsProvided(d) => \A p : <<d, p>> \notin Of(Provided)
      BY DEF IsProvided, Provided, Of
    <2>3. Discovered(d)'
      BY <1>1, <1>2, <1>3, <2>1, <2>2, <1>4 DEF Done, Discovered, IsProvided
    <2>4. Charted(d)' /\ TokensTaken(d)' /\ Probed(d)'
      BY <1>2, <1>6 DEF Charted, TokensTaken, Captured, Probed
    <2> QED BY <1>1, <2>1, <2>3, <2>4 DEF Done
  <1> QED BY <1>1, <1>2, <1>5, <1>6, <1>7 DEF DoneInv, Promising, Running, FinishedComplete

LEMMA ClearDone ==
  ASSUME FrameInv, DoneInv, ClearStandard
  PROVE  DoneInv'
  <1> DEFINE phase == IF crawl.provider THEN "graph" ELSE "probe"
  <1>1. /\ crawl.phase = "clear"
        /\ crawl' = [crawl EXCEPT !.left = Provided, !.phase = phase]
        /\ db' = clearSymbolGraphForDocuments(db, Standard)
        /\ UNCHANGED <<files, work, budget>>
    BY DEF ClearStandard
  <1>2. /\ phase \in {"graph", "probe"} /\ (phase = "probe" => ~ crawl.provider)
    OBVIOUS
  <1> HIDE DEF phase
  <1>3. /\ crawl'.phase = phase /\ crawl'.provider = crawl.provider
        /\ crawl'.left = Provided
        /\ crawl'.processed = crawl.processed /\ crawl'.failed = crawl.failed
        /\ crawl'.disturbed = crawl.disturbed
    BY <1>1 DEF FrameInv, TypeInv, CrawlRecord
  <1>4. db'.tokens = db.tokens /\ db'.occurrences = db.occurrences
    BY <1>1, ClearLeaves DEF FrameInv, TypeInv
  <1>5. \A d \in Docs : StageFits(d)
    BY DEF DoneInv
  <1>6. \A d \in Docs : StageFits(d)'
    BY <1>1, <1>2, <1>3, <1>5 DEF StageFits, IsProvided
  <1>7. crawl.processed = {}
    BY <1>1 DEF DoneInv
  <1>8. ASSUME Promising, NEW d \in Docs PROVE Done(d)'
    <2>1. Done(d)
      BY <1>8 DEF DoneInv
    <2>2. Discovered(d)'
      BY <1>1, <1>3, <1>4, <2>1 DEF Done, Discovered, IsProvided
    <2>3. Charted(d)'
      BY <1>1, <1>2, <1>3, <1>7 DEF Charted, IsProvided, Provided, Prepared, InCrawl
    <2>4. TokensTaken(d)' /\ Probed(d)'
      BY <1>1, <1>3, <1>5, <1>7 DEF TokensTaken, Captured, Probed, StageFits
    <2> QED BY <1>1, <2>1, <2>2, <2>3, <2>4 DEF Done
  <1> QED BY <1>1, <1>2, <1>3, <1>6, <1>8 DEF DoneInv, Promising, Running, FinishedComplete

LEMMA ChunkDone ==
  ASSUME FrameInv, DoneInv, GraphChunk
  PROVE  DoneInv'
  <1>1. PICK chunk \in SUBSET crawl.left, missing \in SUBSET OutsideSolution :
          LET found == chunk \ missing IN
          /\ Appendable(db, Edges(found))
          /\ db' = appendSymbolGraph(db, Edges(found),
                       {o \in DOMAIN Edges(found) : TokenAt(files, o).isDefinition},
                       [s \in Symbols |-> Definitions(files, s)])
          /\ crawl' = [crawl EXCEPT !.left = @ \ chunk, !.processed = @ \cup found]
          /\ UNCHANGED work
    BY ChunkAppended
  <1> DEFINE found == chunk \ missing
             symbols == Edges(found)
             defining == {o \in DOMAIN symbols : TokenAt(files, o).isDefinition}
             defined == [s \in Symbols |-> Definitions(files, s)]
  <1>2. crawl.phase = "graph" /\ files' = files
    BY DEF GraphChunk
  <1>3. CASE /\ db' = appendSymbolGraph(db, symbols, defining, defined)
             /\ crawl' = [crawl EXCEPT !.left = crawl.left \ chunk,
                                       !.processed = crawl.processed \cup found]
             /\ work' = work
    <2>1. ChunkOf(files, found, symbols) /\ db \in Databases /\ files \in Files
      BY DEF ChunkOf, Edges, FrameInv, TypeInv
    <2> HIDE DEF symbols, defining, defined, found
    <2>2. /\ db'.tokens = db.tokens
          /\ db'.occurrences = db.occurrences \cup (Named(files) \cap Of(found))
          /\ \A o \in Occurrences :
               db'.edges[o] = IF o \in Named(files) \cap Of(found)
                                THEN TokenAt(files, o).symbol ELSE db.edges[o]
      <3> DEFINE c == appendSymbolGraph(db, symbols, defining, defined)
      <3>1. /\ c.tokens = db.tokens
            /\ c.occurrences = db.occurrences \cup (Named(files) \cap Of(found))
            /\ \A o \in Occurrences :
                 c.edges[o] = IF o \in Named(files) \cap Of(found)
                                THEN TokenAt(files, o).symbol ELSE db.edges[o]
        BY <2>1, AppendLeaves
      <3>2. db' = c
        BY <1>3
      <3> HIDE DEF c
      <3> QED BY <3>1, <3>2
    <2>3. /\ crawl'.phase = "graph" /\ crawl'.provider = crawl.provider
          /\ crawl'.left = crawl.left \ chunk
          /\ crawl'.processed = crawl.processed \cup found
          /\ crawl'.failed = crawl.failed /\ crawl'.graphFailed = crawl.graphFailed
          /\ crawl'.disturbed = crawl.disturbed
      BY <1>2, <1>3 DEF FrameInv, TypeInv, CrawlRecord
    <2>4. \A d \in Docs : StageFits(d) /\ StageFits(d)'
      BY <1>2, <1>3, <2>3 DEF DoneInv, StageFits, IsProvided
    <2>5. \A o \in Named(files) : TokenAt(files, o).symbol # NoSymbol /\ o \in Occurrences
      BY <2>1, NamesASymbol, CrawlDatabaseAssumption DEF Named
    <2>6. ASSUME Promising, NEW d \in Docs PROVE Done(d)'
      <3>1. Done(d)
        BY <2>6 DEF DoneInv
      <3>2. Discovered(d)'
        BY <1>2, <1>3, <2>2, <2>3, <3>1 DEF Done, Discovered, IsProvided
      <3>3. ASSUME IsProvided(d), d \in Prepared, ~ crawl.graphFailed
            PROVE  d \in crawl'.left \cup crawl'.processed \cup OutsideSolution
        <4>1. d \in crawl.left \cup crawl.processed \cup OutsideSolution
          BY <1>2, <3>1, <3>3 DEF Done, Charted
        <4> QED BY <2>3, <4>1 DEF found
      <3>4. ASSUME d \in crawl'.processed, NEW o \in Named(files) \cap Of({d})
            PROVE  o \in db'.occurrences /\ db'.edges[o] # NoSymbol
        <4>1. CASE d \in found
          <5>1. o \in Of(found)
            BY <4>1 DEF Of
          <5> QED BY <2>2, <2>5, <5>1
        <4>2. CASE d \in crawl.processed
          <5>1. o \in db.occurrences /\ db.edges[o] # NoSymbol
            BY <3>1, <4>2 DEF Done, Charted
          <5> QED BY <2>2, <2>5, <5>1
        <4> QED BY <2>3, <3>4, <4>1, <4>2
      <3>5. Charted(d)'
        BY <1>2, <1>3, <2>3, <3>3, <3>4
        DEF Charted, IsProvided, Prepared, InCrawl, Named, TokenAt
      <3>6. TokensTaken(d)' /\ Probed(d)'
        BY <1>2, <1>3, <2>3, <2>4 DEF TokensTaken, Probed, StageFits
      <3> QED BY <1>2, <1>3, <3>1, <3>2, <3>5, <3>6 DEF Done
    <2> QED BY <1>2, <2>3, <2>4, <2>6 DEF DoneInv, Promising, Running, FinishedComplete
  <1> QED BY <1>1, <1>3

LEMMA ChunkDocumentDone ==
  ASSUME FrameInv, DoneInv, ChunkDocumentFails
  PROVE  DoneInv'
  <1>1. PICK d \in crawl.left :
          crawl' = [crawl EXCEPT !.left = crawl.left \ {d}, !.graphFailed = TRUE,
                                 !.hindered = TRUE]
    BY DEF ChunkDocumentFails
  <1>2. crawl.phase = "graph" /\ UNCHANGED <<files, db, work>>
    BY DEF ChunkDocumentFails
  <1>3. /\ crawl'.phase = "graph" /\ crawl'.provider = crawl.provider /\ crawl'.graphFailed
        /\ crawl'.processed = crawl.processed /\ crawl'.failed = crawl.failed
        /\ crawl'.disturbed = crawl.disturbed
    BY <1>1, <1>2 DEF FrameInv, TypeInv, CrawlRecord
  <1>4. \A e \in Docs : StageFits(e) /\ StageFits(e)'
    BY <1>2, <1>3 DEF DoneInv, StageFits, IsProvided
  <1>5. ASSUME Promising, NEW e \in Docs PROVE Done(e)'
    <2>1. Done(e)
      BY <1>5 DEF DoneInv
    <2>2. Discovered(e)' /\ Charted(e)'
      BY <1>2, <1>3, <2>1 DEF Done, Discovered, Charted, IsProvided, Named, TokenAt
    <2>3. TokensTaken(e)' /\ Probed(e)'
      BY <1>2, <1>3, <1>4 DEF TokensTaken, Probed, StageFits
    <2> QED BY <1>2, <2>1, <2>2, <2>3 DEF Done
  <1> QED BY <1>2, <1>3, <1>4, <1>5 DEF DoneInv, Promising, Running, FinishedComplete

LEMMA GraphEndsDone ==
  ASSUME FrameInv, DoneInv, GraphEnds
  PROVE  DoneInv'
  <1>1. CASE GraphFails
    <2>1. crawl'.phase = "failed" /\ work' = [d \in Docs |-> NoWork]
      BY <1>1 DEF GraphFails, FrameInv, TypeInv, CrawlRecord
    <2> QED BY <2>1, EndedIsDone
  <1>2. CASE /\ ~ crawl.graphFailed /\ crawl' = [crawl EXCEPT !.phase = "capture"]
             /\ UNCHANGED <<db, work>>
    <2>1. crawl.phase = "graph" /\ crawl.left = {} /\ files' = files
      BY DEF GraphEnds
    <2>2. /\ crawl'.phase = "capture" /\ crawl'.provider = crawl.provider
          /\ crawl'.processed = crawl.processed /\ crawl'.failed = crawl.failed
          /\ crawl'.disturbed = crawl.disturbed
      BY <1>2 DEF FrameInv, TypeInv, CrawlRecord
    <2>3. \A d \in Docs : StageFits(d) /\ StageFits(d)'
      BY <1>2, <2>1, <2>2 DEF DoneInv, StageFits, IsProvided
    <2>4. ASSUME Promising, NEW d \in Docs PROVE Done(d)'
      <3>1. Done(d)
        BY <2>4 DEF DoneInv
      <3>2. Discovered(d)'
        BY <1>2, <2>1, <2>2, <3>1 DEF Done, Discovered, IsProvided
      <3>3. Charted(d)'
        BY <1>2, <2>1, <2>2, <3>1
        DEF Done, Charted, IsProvided, Prepared, InCrawl, Named, TokenAt
      <3>4. TokensTaken(d)' /\ Probed(d)'
        BY <1>2, <2>1, <2>2, <2>3 DEF TokensTaken, Probed, StageFits
      <3> QED BY <1>2, <2>1, <3>1, <3>2, <3>3, <3>4 DEF Done
    <2> QED BY <2>1, <2>2, <2>3, <2>4 DEF DoneInv, Promising, Running, FinishedComplete
  <1> QED BY <1>1, <1>2 DEF GraphEnds

LEMMA CaptureEndsDone ==
  ASSUME FrameInv, DoneInv, CaptureEnds
  PROVE  DoneInv'
  <1>1. /\ crawl.phase = "capture" /\ UNCHANGED <<files, db, work>>
        /\ \A d \in Captured : work[d].stage = "done"
        /\ crawl' = [crawl EXCEPT !.phase = "probe"]
    BY DEF CaptureEnds
  <1>2. /\ crawl'.phase = "probe" /\ crawl'.provider = crawl.provider
        /\ crawl'.processed = crawl.processed /\ crawl'.failed = crawl.failed
        /\ crawl'.disturbed = crawl.disturbed
    BY <1>1 DEF FrameInv, TypeInv, CrawlRecord
  <1>3. Captured' = Captured
    BY <1>1, <1>2 DEF Captured, Provided, Prepared, InCrawl
  <1>5. \A d \in Docs : StageFits(d)'
    BY <1>1, <1>2 DEF DoneInv, StageFits, IsProvided
  <1>6. ASSUME Promising, NEW d \in Docs PROVE Done(d)'
    <2>1. Done(d)
      BY <1>6 DEF DoneInv
    <2>2. Discovered(d)'
      BY <1>1, <1>2, <2>1 DEF Done, Discovered, IsProvided
    <2>3. Charted(d)'
      BY <1>1, <1>2, <2>1 DEF Done, Charted, IsProvided, Prepared, InCrawl, Named, TokenAt
    <2>4. TokensTaken(d)'
      BY <1>1, <1>3, <2>1 DEF Done, TokensTaken
    <2>5. Probed(d)'
      BY <1>1, <1>2 DEF Probed, DoneInv, StageFits, IsProvided
    <2> QED BY <1>1, <2>1, <2>2, <2>3, <2>4, <2>5 DEF Done
  <1> QED BY <1>1, <1>2, <1>5, <1>6 DEF DoneInv, Promising, Running, FinishedComplete

\* A crawl that ends well has done all there was to do.
LEMMA ProbeEndsDone ==
  ASSUME FrameInv, DoneInv, ProbeEnds
  PROVE  DoneInv'
  <1>1. /\ crawl.phase = "probe" /\ \A d \in Standard : work[d].stage = "done"
        /\ crawl' = [crawl EXCEPT !.phase = IF crawl.failed THEN "failed" ELSE "finished"]
        /\ work' = [d \in Docs |-> NoWork]
        /\ UNCHANGED <<files, db>>
    BY DEF ProbeEnds
  <1>2. CASE crawl.failed
    <2>1. crawl'.phase = "failed"
      BY <1>1, <1>2 DEF FrameInv, TypeInv, CrawlRecord
    <2> QED BY <1>1, <2>1, EndedIsDone
  <1>3. CASE ~ crawl.failed
    <2>1. /\ crawl'.phase = "finished" /\ crawl'.provider = crawl.provider
          /\ crawl'.processed = crawl.processed /\ crawl'.disturbed = crawl.disturbed
      BY <1>1, <1>3 DEF FrameInv, TypeInv, CrawlRecord
    <2>2. \A d \in Docs : StageFits(d)'
      BY <1>1, <2>1, NoWorkIsWork DEF StageFits
    <2>3. ASSUME ~ crawl.disturbed PROVE FinishedComplete'
      <3>1. db.documents = files
        BY <1>1, <2>3 DEF FrameInv, Undisturbed, Running
      <3>2. \A d \in Docs : Done(d) /\ StageFits(d)
        BY <1>1, <1>3, <2>3 DEF DoneInv, Promising, Running
      <3>3. ASSUME NEW o \in Named(files), o[1] \notin UnsupportedDocs
            PROVE  LET isProvided == crawl.provider /\ o[1] \in ProviderDocs IN
                   \/ isProvided /\ o[1] \in OutsideSolution \ crawl.processed
                   \/ /\ db.tokens[o[1]] = files[o[1]]
                      /\ o \in db.occurrences
                      /\ IF isProvided THEN db.edges[o] # NoSymbol
                         ELSE \A kind \in Kinds \ Unanswerable :
                                 hasCompleteAnswer(db, o, kind)
        <4> DEFINE d == o[1]
        <4>1. /\ d \in Docs /\ o \in Of({d}) /\ files[d] # Absent
              /\ o = <<d, o[2]>> /\ o[2] \in Identifiers(files[d])
          BY DEF Named, Occurrences, TokenAt, Of, Identifiers
        <4> HIDE DEF d
        <4>2. Done(d) /\ StageFits(d) /\ d \in Prepared
          BY <1>1, <3>2, <4>1 DEF Done, StageFits, Prepared, InCrawl
        <4>3. CASE IsProvided(d)
          <5>1. d \in crawl.processed \cup OutsideSolution
            BY <1>1, <4>2, <4>3 DEF Done, Charted
          <5>2. CASE d \in crawl.processed
            <6>1. d \in Captured
              BY <4>2, <4>3, <5>2 DEF Captured, Provided, IsProvided
            <6>2. db.tokens[d] = files[d]
              BY <1>1, <4>2, <6>1 DEF Done, TokensTaken
            <6>3. o \in db.occurrences /\ db.edges[o] # NoSymbol
              BY <4>1, <4>2, <5>2 DEF Done, Charted
            <6> QED BY <4>3, <6>2, <6>3 DEF IsProvided, d
          <5> QED BY <4>3, <5>1, <5>2 DEF IsProvided, d
        <4>4. CASE ~ IsProvided(d)
          <5>1. d \in Standard /\ work[d].stage = "done"
            BY <1>1, <4>2, <4>4 DEF Standard, Provided, IsProvided
          <5>2. /\ db.tokens[d] = files[d]
                /\ {d} \X Identifiers(files[d]) \subseteq db.occurrences
            BY <3>3, <4>2, <4>4, <5>1 DEF Done, Discovered, d
          <5>3. o \in db.occurrences
            BY <4>1, <5>2
          <5>4. \A kind \in Kinds \ Unanswerable : hasCompleteAnswer(db, o, kind)
            BY <1>1, <4>1, <4>2, <4>4, <5>1, <5>3 DEF Done, Probed
          <5> QED BY <4>4, <5>2, <5>3, <5>4 DEF IsProvided, d
        <4> QED BY <4>3, <4>4
      <3>4. \A o \in Named(db.documents) \ Of(UnsupportedDocs) :
               o \in Named(files) /\ o[1] \notin UnsupportedDocs
        BY <3>1 DEF Of, Named
      <3>5. \A o \in Named(db.documents) \ Of(UnsupportedDocs) :
               LET isProvided == crawl.provider /\ o[1] \in ProviderDocs IN
               \/ isProvided /\ o[1] \in OutsideSolution \ crawl.processed
               \/ /\ db.tokens[o[1]] = db.documents[o[1]]
                  /\ o \in db.occurrences
                  /\ IF isProvided THEN db.edges[o] # NoSymbol
                     ELSE \A kind \in Kinds \ Unanswerable :
                             hasCompleteAnswer(db, o, kind)
        BY <3>1, <3>3, <3>4
      <3>6. /\ db' = db
            /\ crawl'.provider = crawl.provider /\ crawl'.processed = crawl.processed
        BY <1>1, <2>1
      <3> QED BY <3>5, <3>6 DEF FinishedComplete, hasCompleteAnswer, Complete,
                                Named, TokenAt, Of
    <2> QED BY <2>1, <2>2, <2>3 DEF DoneInv, Promising, Running
  <1> QED BY <1>2, <1>3

LEMMA EditDone ==
  ASSUME FrameInv, DoneInv, Edit
  PROVE  DoneInv'
  <1>1. /\ crawl' = [crawl EXCEPT !.disturbed = crawl.disturbed \/ Running]
        /\ UNCHANGED <<db, work>>
    BY DEF Edit
  <1>2. PICK disturbed \in BOOLEAN : disturbed = (crawl.disturbed \/ Running)
    OBVIOUS
  <1>3. crawl' = [crawl EXCEPT !.disturbed = disturbed]
    BY <1>1, <1>2
  <1>4. /\ crawl'.phase = crawl.phase /\ crawl'.provider = crawl.provider
        /\ crawl'.processed = crawl.processed /\ crawl'.disturbed = disturbed
    BY <1>3 DEF FrameInv, TypeInv, CrawlRecord
  <1>5. \A d \in Docs : StageFits(d)'
    BY <1>1, <1>4 DEF DoneInv, StageFits, IsProvided
  <1>6. ~ Promising'
    BY <1>2, <1>4 DEF Promising, Running
  <1>7. ~ disturbed /\ FinishedComplete => FinishedComplete'
    BY <1>1, <1>4 DEF FinishedComplete
  <1> QED BY <1>2, <1>4, <1>5, <1>6, <1>7 DEF DoneInv

LEMMA StutterDone ==
  ASSUME DoneInv, UNCHANGED vars
  PROVE  DoneInv'
  <1>1. UNCHANGED <<files, db, crawl, work>>
    BY DEF vars
  <1>2. \A d \in Docs : StageFits(d) => StageFits(d)'
    BY <1>1 DEF StageFits, IsProvided
  <1>3. ASSUME NEW d \in Docs, Done(d) PROVE Done(d)'
    <2>1. Prepared' = Prepared /\ Captured' = Captured
      BY <1>1 DEF Captured, Provided, Prepared, InCrawl
    <2>2. Discovered(d)'
      BY <1>1, <1>3 DEF Done, Discovered, IsProvided
    <2>3. Charted(d)'
      BY <1>1, <1>3, <2>1 DEF Done, Charted, IsProvided, Named, TokenAt
    <2>4. TokensTaken(d)'
      BY <1>1, <1>3, <2>1 DEF Done, TokensTaken
    <2>5. Probed(d)'
      BY <1>1, <1>3 DEF Done, Probed, IsProvided, hasCompleteAnswer, Complete
    <2> QED BY <1>1, <1>3, <2>2, <2>3, <2>4, <2>5 DEF Done
  <1>4. FinishedComplete => FinishedComplete'
    BY <1>1 DEF FinishedComplete
  <1> QED BY <1>1, <1>2, <1>3, <1>4 DEF DoneInv, Promising, Running

LEMMA DoneInit == Init => DoneInv
  <1> SUFFICES ASSUME Init PROVE DoneInv
    OBVIOUS
  <1>1. crawl.phase = "idle" /\ \A d \in Docs : work[d].stage = "none"
    BY NoWorkIsWork DEF Init, NoCrawl
  <1> QED BY <1>1 DEF DoneInv, StageFits, Promising, Running, FinishedComplete

LEMMA DoneStep == FrameInv /\ DoneInv /\ [Next]_vars => DoneInv'
  <1> SUFFICES ASSUME FrameInv, DoneInv, [Next]_vars PROVE DoneInv'
    OBVIOUS
  <1>1. CASE Crash
    <2>1. crawl'.phase = "idle" /\ work' = [d \in Docs |-> NoWork]
      BY <1>1 DEF Crash, NoCrawl
    <2> QED BY <2>1, EndedIsDone
  <1>2. CASE GraphRequestFails
    <2>1. crawl'.phase = "failed" /\ work' = [d \in Docs |-> NoWork]
      BY <1>2 DEF GraphRequestFails, FrameInv, TypeInv, CrawlRecord
    <2> QED BY <2>1, EndedIsDone
  <1>3. CASE Graph
    BY <1>2, <1>3, ChunkDone, ChunkDocumentDone, GraphEndsDone DEF Graph
  <1> QED BY <1>1, <1>3, StartDone, WorkersDone, ResetDone, ClearDone, CaptureEndsDone,
             ProbeEndsDone, EditDone, StutterDone DEF Next

LEMMA DoneHolds == Spec => []DoneInv
  BY DoneInit, FrameHolds, DoneStep, PTL DEF Spec

\* A crawl during which no file changes and that reports success has left no
\* identifier out and none of its answers open (exitCode 0 in runCrawler).
LEMMA SuccessIsComplete == Spec => [](~ crawl.disturbed => FinishedComplete)
  <1>1. DoneInv => (~ crawl.disturbed => FinishedComplete)
    BY DEF DoneInv
  <1> QED BY <1>1, DoneHolds, PTL

\* As long as no file is edited during a crawl, each crawl that reports success
\* has found every identifier of the files and has for each of them either the
\* graph's edge or an answer to every question that can be asked, whatever
\* earlier crawls that died or failed had left.
THEOREM FinishedIsComplete ==
  ASSUME MaxLiveEdits = 0
  PROVE  Spec => []FinishedComplete
  <1>1. SoundInv => ~ crawl.disturbed
    BY DEF SoundInv
  <1> QED BY <1>1, SuccessIsComplete, SoundHolds, PTL
-----------------------------------------------------------------------------
(***************************************************************************)
(* What an index serves after a crawl that succeeded                        *)
(***************************************************************************)
\* Where there are edges there are the tables of the graph, and an edge is marked
\* as a definition where there is one.
EdgesKnown(b) ==
    \A o \in Occurrences :
        /\ b.edges[o] # NoSymbol => b.hasGraph
        /\ o \in b.defining <=>
              b.edges[o] # NoSymbol /\ o \in Definitions(b.documents, b.edges[o])

\* Only documents of the provider are processed.
ChunksFit ==
    crawl.left \cup crawl.processed \subseteq IF crawl.provider THEN ProviderDocs ELSE {}

\* The graph of earlier crawls is cleared, and nothing has failed since.
Charting ==
    \/ Promising /\ crawl.phase \in {"graph", "capture", "probe"}
    \/ crawl.phase = "finished"

EdgesOfCrawl ==
    Charting => \A o \in Occurrences : db.edges[o] # NoSymbol => o[1] \in crawl.processed

ServeInv == EdgesKnown(db) /\ ChunksFit /\ EdgesOfCrawl

\* Edges are left alone or go.
Withdraws(b, c) ==
    /\ c.documents = b.documents /\ c.hasGraph = b.hasGraph
    /\ \A o \in Occurrences :
          \/ c.edges[o] = b.edges[o] /\ (o \in c.defining <=> o \in b.defining)
          \/ c.edges[o] = NoSymbol /\ o \notin c.defining

LEMMA WithdrawnKnown ==
  ASSUME NEW b, NEW c, Withdraws(b, c), EdgesKnown(b)
  PROVE  EdgesKnown(c)
  BY DEF Withdraws, EdgesKnown

LEMMA AnswersSameEdges ==
  ASSUME NEW b \in Databases, NEW c, c = [b EXCEPT !.answers = c.answers]
  PROVE  SameEdges(b, c)
  BY DEF SameEdges, Databases

LEMMA ResetWithdraws ==
  ASSUME NEW b \in Databases, NEW docs
  PROVE  Withdraws(b, resetDocumentOccurrences(b, docs))
  <1> DEFINE c == resetDocumentOccurrences(b, docs)
  <1>1. /\ c.documents = b.documents /\ c.hasGraph = b.hasGraph
        /\ c.defining = b.defining \ Of(docs)
        /\ \A o \in Of(docs) : c.edges[o] = NoSymbol
        /\ \A o \in Occurrences \ Of(docs) : c.edges[o] = b.edges[o]
    BY ResetsOccurrences, ResetLeaves DEF Keeps
  <1> QED BY <1>1 DEF Withdraws, c

LEMMA ClearWithdraws ==
  ASSUME NEW b \in Databases, NEW docs
  PROVE  Withdraws(b, clearSymbolGraphForDocuments(b, docs))
  <1> DEFINE c == clearSymbolGraphForDocuments(b, docs)
  <1>1. CASE ~ b.hasGraph
    BY <1>1, ClearsGraph DEF Withdraws
  <1>2. CASE b.hasGraph
    <2>1. /\ c.documents = b.documents /\ c.hasGraph = b.hasGraph
          /\ c.defining = b.defining \ Of(docs)
          /\ \A o \in Of(docs) : c.edges[o] = NoSymbol
          /\ \A o \in Occurrences \ Of(docs) : c.edges[o] = b.edges[o]
      BY <1>2, ClearsGraph, ClearLeaves DEF Keeps
    <2> QED BY <2>1 DEF Withdraws, c
  <1> QED BY <1>1, <1>2

LEMMA NothingIsKnown ==
  ASSUME NEW b, \A o \in Occurrences : b.edges[o] = NoSymbol /\ o \notin b.defining
  PROVE  EdgesKnown(b)
  BY DEF EdgesKnown

LEMMA SynchronizeKnows ==
  ASSUME NEW b \in Databases, NEW world \in Files, EdgesKnown(b), Good(b)
  PROVE  EdgesKnown(synchronizeDocuments(b, world))
  <1> DEFINE gone == Changed(b, world) \cup {d \in Docs : world[d] = Absent}
             kept == [b EXCEPT !.documents = world, !.decoded = {},
                               !.occurrences = b.occurrences \ Of(gone)]
             c == synchronizeDocuments(b, world)
  <1>1. c = IF Invalidates(b, world)
              THEN [DeleteEdges(DeleteAnswers(kept, Occurrences, Kinds), Occurrences)
                      EXCEPT !.tokens = [d \in Docs |-> Absent]]
              ELSE kept
    BY DEF synchronizeDocuments
  <1>2. b.occurrences \ Of(gone) \in SUBSET Occurrences
        /\ world \in [Docs -> Contents \cup {Absent}]
    BY DatabaseShape DEF Files
  <1>3. /\ kept \in Databases /\ kept.documents = world
        /\ SameEdges(b, kept)
    <2> HIDE DEF gone
    <2> QED BY <1>2 DEF Databases, SameEdges
  <1> HIDE DEF kept
  <1>4. CASE Invalidates(b, world)
    <2> DEFINE none == DeleteEdges(DeleteAnswers(kept, Occurrences, Kinds), Occurrences)
    <2>1. /\ none \in Databases /\ none.defining = kept.defining \ Occurrences
          /\ \A o \in Occurrences \cap Occurrences : none.edges[o] = NoSymbol
      BY <1>3, DeletesLeave, DeletesBoth DEF Keeps
    <2>2. c = [none EXCEPT !.tokens = [d \in Docs |-> Absent]]
      BY <1>1, <1>4
    <2> HIDE DEF none, c
    <2>3. c.edges = none.edges /\ c.defining = none.defining
      BY <2>1, <2>2 DEF Databases
    <2> QED BY <2>1, <2>3, NothingIsKnown DEF c
  <1>5. CASE ~ Invalidates(b, world)
    <2>1. c = kept
      BY <1>1, <1>5
    <2> HIDE DEF c
    <2>2. CASE Recorded(b) = {}
      <3>1. \A d \in Docs : b.documents[d] = Absent
        BY <2>2 DEF Recorded
      <3>2. Named(b.documents) = {}
        BY <3>1 DEF Named, TokenAt, Occurrences
      <3>3. \A s : Mentions(b.documents, s) = {}
        BY <3>2, Mentioned
      <3>4. \A o \in Occurrences : b.edges[o] = NoSymbol
        BY <3>3 DEF Good, Sound, EdgesSound
      <3>5. \A o \in Occurrences : o \notin b.defining
        BY <3>4 DEF EdgesKnown
      <3> QED BY <1>3, <2>1, <3>4, <3>5, NothingIsKnown DEF c, SameEdges
    <2>3. CASE Recorded(b) # {}
      <3>1. Changed(b, world) = {} /\ {d \in Docs : world[d] # Absent} = Recorded(b)
        BY <1>5, <2>3 DEF Invalidates
      <3>2. \A d \in Docs : world[d] = b.documents[d]
        BY <3>1 DEF Changed, Recorded
      <3>3. world = b.documents
        BY <1>2, <3>2, DatabaseShape
      <3>4. Withdraws(b, kept)
        BY <1>3, <3>3 DEF Withdraws, SameEdges
      <3> QED BY <2>1, <3>4, WithdrawnKnown DEF c
    <2> QED BY <2>2, <2>3
  <1> QED BY <1>4, <1>5

LEMMA AppendKnows ==
  ASSUME NEW b \in Databases, NEW docs, NEW world \in Files,
         NEW symbols, ChunkOf(world, docs, symbols),
         NEW defining, defining = {o \in DOMAIN symbols : TokenAt(world, o).isDefinition},
         NEW defined, b.documents = world, EdgesKnown(b), Appendable(b, symbols)
  PROVE  LET c == appendSymbolGraph(b, symbols, defining, defined) IN
         c.documents = world => EdgesKnown(c)
  <1> DEFINE c == appendSymbolGraph(b, symbols, defining, defined)
             new == Named(world) \cap Of(docs)
  <1>1. /\ c.hasGraph /\ c.defining = b.defining \cup defining
        /\ \A o \in Occurrences :
              c.edges[o] = IF o \in Named(world) \cap Of(docs)
                             THEN TokenAt(world, o).symbol ELSE b.edges[o]
    BY AppendLeaves
  <1>2. DOMAIN symbols = new /\ new \subseteq Named(world)
    BY DEF ChunkOf
  <1> HIDE DEF c
  <1>3. ASSUME NEW o \in Occurrences, c.documents = world
        PROVE  o \in c.defining <=>
                 c.edges[o] # NoSymbol /\ o \in Definitions(world, c.edges[o])
    <2>1. CASE o \in new
      <3> DEFINE s == TokenAt(world, o).symbol
      <3>1. s \in Symbols /\ s # NoSymbol /\ c.edges[o] = s
        BY <1>1, <1>2, <2>1, NamesASymbol, CrawlDatabaseAssumption
      <3>2. o \notin b.defining
        BY <1>2, <2>1 DEF Appendable, EdgesKnown
      <3>3. o \in Mentions(world, s)
        BY <1>2, <2>1, Mentioned
      <3>4. o \in Definitions(world, s) <=> TokenAt(world, o).isDefinition
        BY <3>3 DEF Definitions
      <3> QED BY <1>1, <1>2, <2>1, <3>1, <3>2, <3>4
    <2>2. CASE o \notin new
      <3>1. o \notin defining
        BY <1>2, <2>2
      <3> QED BY <1>1, <2>2, <3>1 DEF EdgesKnown
    <2> QED BY <2>1, <2>2
  <1> QED BY <1>1, <1>3 DEF EdgesKnown, c

\* No worker touches the graph, whatever it is answered.
WorkerSpares == SameEdges(db, db') /\ (crawl' = crawl \/ crawl'.failed)

LEMMA FailureFails ==
  ASSUME TypeInv, Failure
  PROVE  crawl'.failed
  BY DEF TypeInv, CrawlRecord, Failure

LEMMA RowsSpare ==
  ASSUME NEW b \in Databases, NEW d, NEW content, NEW positions
  PROVE  /\ SameEdges(b, upsertDocument(b, d, content))
         /\ SameEdges(b, saveSemanticTokens(b, d, content))
         /\ SameEdges(b, upsertOccurrences(b, d, positions))
  BY DEF SameEdges, upsertDocument, saveSemanticTokens, upsertOccurrences, Databases

LEMMA PassOverSpares ==
  ASSUME NEW d \in Docs, NEW b \in Databases, NEW base \in Databases, SameEdges(b, base),
         NEW items \in SUBSET Items
  PROVE  SameEdges(b, PassOver(d, base, items).db)
  <1> DEFINE c == PassOver(d, base, items).db
  <1>1. c = [base EXCEPT !.answers = c.answers]
    BY PassesOver DEF Passed
  <1> HIDE DEF c
  <1>2. SameEdges(base, c)
    BY <1>1, AnswersSameEdges
  <1> QED BY <1>2 DEF SameEdges, c

LEMMA AdvanceSpares ==
  ASSUME NEW d \in Docs, db \in Databases, NEW base \in Databases, SameEdges(db, base),
         NEW items \in SUBSET Items, Advance(d, base, items)
  PROVE  SameEdges(db, db')
  <1>1. db' = PassOver(d, base, items).db
    BY DEF Advance
  <1> QED BY <1>1, PassOverSpares DEF SameEdges

LEMMA BaseSpares ==
  ASSUME FrameInv, NEW d \in Docs, crawl.phase = "probe", work[d].stage = "probe",
         NEW b, AnswerBase(d, b)
  PROVE  b \in Databases /\ SameEdges(db, b)
  <1> DEFINE item == NextOf(work[d].queue)
             o    == <<d, item[1]>>
             kind == item[2]
  <1>1. /\ o \in Occurrences /\ kind \in Kinds /\ kind \in AllKinds
        /\ db \in Databases
    BY NextIsItem, CrawlDatabaseAssumption DEF FrameInv, TypeInv
  <1>2. b = db \/ \E locations \in SUBSET Occurrences : b = saveAnswer(db, o, kind, locations)
    BY <1>1, TruthIsPlaces DEF AnswerBase
  <1> HIDE DEF item, o, kind
  <1>3. CASE b = db
    BY <1>1, <1>3 DEF SameEdges
  <1>4. CASE \E locations \in SUBSET Occurrences : b = saveAnswer(db, o, kind, locations)
    <2>1. PICK locations \in SUBSET Occurrences : b = saveAnswer(db, o, kind, locations)
      BY <1>4
    <2>2. b \in Databases /\ b = [db EXCEPT !.answers = b.answers]
      BY <1>1, <2>1, SavesAnswer
    <2> QED BY <1>1, <2>2, AnswersSameEdges
  <1> QED BY <1>2, <1>3, <1>4

LEMMA AnsweredSpares ==
  ASSUME FrameInv, NEW d \in Docs, Answered(d)
  PROVE  WorkerSpares
  <1> DEFINE item == NextOf(work[d].queue)
             o    == <<d, item[1]>>
             kind == item[2]
             rest == work[d].queue \ {item}
  <1>1. /\ crawl.phase = "probe" /\ work[d].stage = "probe"
        /\ TypeInv /\ db \in Databases
    BY DEF Answered, FrameInv, TypeInv
  <1>2. o \in Occurrences /\ kind \in Kinds /\ rest \in SUBSET Items
    BY <1>1, NextIsItem
  <1>3. \/ \E b : AnswerBase(d, b) /\ Advance(d, b, rest) /\ UNCHANGED <<crawl, budget>>
        \/ /\ Failure
           /\ Advance(d, saveAnswerError(db, o, kind), rest)
    BY DEF Answered, AnswerBase
  <1> HIDE DEF item, o, kind, rest
  <1>4. CASE \E b : AnswerBase(d, b) /\ Advance(d, b, rest) /\ UNCHANGED <<crawl, budget>>
    <2>1. PICK b : AnswerBase(d, b) /\ Advance(d, b, rest) /\ UNCHANGED <<crawl, budget>>
      BY <1>4
    <2>2. b \in Databases /\ SameEdges(db, b)
      BY <1>1, <2>1, BaseSpares
    <2> QED BY <1>1, <1>2, <2>1, <2>2, AdvanceSpares DEF WorkerSpares
  <1>5. CASE Failure /\ Advance(d, saveAnswerError(db, o, kind), rest)
    <2> DEFINE b == saveAnswerError(db, o, kind)
    <2>1. b \in Databases
      BY <1>1, <1>2, SavesError DEF Keeps
    <2>2. SameEdges(db, b)
      BY <1>1 DEF saveAnswerError, SameEdges, Databases
    <2>3. Advance(d, b, rest)
      BY <1>5
    <2> HIDE DEF b
    <2> QED BY <1>1, <1>2, <1>5, <2>1, <2>2, <2>3, AdvanceSpares, FailureFails
            DEF WorkerSpares
  <1> QED BY <1>3, <1>4, <1>5

LEMMA WorkersSpare ==
  ASSUME FrameInv, NEW d \in Docs, Worker(d)
  PROVE  WorkerSpares
  <1>1. TypeInv /\ db \in Databases /\ SameEdges(db, db)
    BY DEF FrameInv, TypeInv, SameEdges
  <1>2. CASE ReadDocument(d)
    BY <1>1, <1>2, RowsSpare DEF ReadDocument, WorkerSpares
  <1>3. CASE ReadFails(d)
    BY <1>1, <1>3, FailureFails DEF ReadFails, WorkerSpares, SameEdges
  <1>4. CASE TokensAnswered(d)
    <2>1. \/ db' = saveSemanticTokens(db, d, work[d].text) /\ crawl' = crawl
          \/ db' = db /\ (crawl' = crawl \/ Failure)
      BY <1>4 DEF TokensAnswered
    <2> QED BY <1>1, <2>1, RowsSpare, FailureFails DEF WorkerSpares, SameEdges
  <1>5. CASE SymbolsAnswered(d)
    <2>1. /\ \E rows : db' = upsertOccurrences(db, d, rows)
          /\ crawl' = crawl \/ Failure
      BY <1>5 DEF SymbolsAnswered
    <2> QED BY <1>1, <2>1, RowsSpare, FailureFails DEF WorkerSpares
  <1>6. CASE ReadForTokens(d)
    <2>1. db' = db /\ (crawl' = crawl \/ crawl' = [crawl EXCEPT !.failed = TRUE])
      BY <1>6 DEF ReadForTokens
    <2> QED BY <1>1, <2>1 DEF WorkerSpares, SameEdges, TypeInv, CrawlRecord
  <1>7. CASE TokensCaptured(d)
    <2>1. \/ db' = saveSemanticTokens(db, d, work[d].text) /\ crawl' = crawl
          \/ db' = db /\ Failure
      BY <1>7 DEF TokensCaptured
    <2> QED BY <1>1, <2>1, RowsSpare, FailureFails DEF WorkerSpares, SameEdges
  <1>8. CASE StartProbe(d)
    <2>1. listOccurrences(d) \in SUBSET Items
      BY DEF listOccurrences, Items
    <2> QED BY <1>1, <1>8, <2>1, AdvanceSpares DEF StartProbe, WorkerSpares
  <1> QED BY <1>2, <1>3, <1>4, <1>5, <1>6, <1>7, <1>8, AnsweredSpares DEF Worker

LEMMA CommittedSpares ==
  ASSUME FrameInv, NEW d \in Docs, NEW b \in Committed(d)
  PROVE  SameEdges(db, b) /\ b.documents = db.documents
  <1>1. db \in Databases /\ SameEdges(db, db)
    BY DEF FrameInv, TypeInv, SameEdges
  <1>2. CASE crawl.phase = "discover" /\ work[d].stage = "symbols"
    <2>1. \E rows : b = upsertOccurrences(db, d, rows)
      BY <1>2 DEF Committed
    <2>2. b.documents = db.documents
      BY <1>1, <2>1 DEF upsertOccurrences, Databases
    <2> QED BY <1>1, <2>1, <2>2, RowsSpare
  <1>3. ASSUME NEW base \in Databases, SameEdges(db, base), base.documents = db.documents,
               NEW items \in SUBSET Items, b = PassOver(d, base, items).db
        PROVE  SameEdges(db, b) /\ b.documents = db.documents
    <2>1. b = [base EXCEPT !.answers = b.answers]
      BY <1>3, PassesOver DEF Passed
    <2>2. b.documents = base.documents
      BY <2>1 DEF Databases
    <2> QED BY <1>1, <1>3, <2>2, PassOverSpares
  <1>4. CASE crawl.phase = "probe" /\ work[d].stage = "ready" /\ d \in Standard /\ Free
    <2>1. PICK items \in Beginnings(listOccurrences(d)) : b = PassOver(d, db, items).db
      BY <1>4 DEF Committed
    <2>2. items \in SUBSET Items
      <3>1. listOccurrences(d) \in SUBSET Items
        BY DEF listOccurrences, Items
      <3>2. items \subseteq listOccurrences(d)
        BY DEF Beginnings
      <3> QED BY <3>1, <3>2
    <2> QED BY <1>1, <1>3, <2>1, <2>2
  <1>5. CASE crawl.phase = "probe" /\ work[d].stage = "probe"
    <2> DEFINE item == NextOf(work[d].queue)
               o    == <<d, item[1]>>
               kind == item[2]
               base == saveAnswer(db, o, kind, Truth(view, o, kind))
    <2>1. PICK items \in Beginnings(work[d].queue \ {item}) :
            b = PassOver(d, base, items).db
      BY <1>5 DEF Committed
    <2>2. items \in SUBSET Items
      BY <1>5, NextIsItem DEF Beginnings
    <2>3. AnswerBase(d, base)
      BY DEF AnswerBase
    <2> HIDE DEF base
    <2>4. base \in Databases /\ base.documents = db.documents /\ SameEdges(db, base)
      BY <1>5, <2>3, BaseKeeps, BaseSpares
    <2> QED BY <1>3, <2>1, <2>2, <2>4
  <1> QED BY <1>2, <1>4, <1>5 DEF Committed

LEMMA WithdrawServes ==
  ASSUME ServeInv, Withdraws(db, db'), ChunksFit',
         Charting' => Charting /\ crawl'.processed = crawl.processed
  PROVE  ServeInv'
  <1>1. EdgesKnown(db')
    BY WithdrawnKnown DEF ServeInv
  <1>2. EdgesOfCrawl'
    BY DEF ServeInv, EdgesOfCrawl, Withdraws
  <1> QED BY <1>1, <1>2 DEF ServeInv

LEMMA StartServes ==
  ASSUME FrameInv, SoundInv, ServeInv, StartCrawl
  PROVE  ServeInv'
  <1>1. EdgesKnown(db')
    BY SynchronizeKnows DEF StartCrawl, FrameInv, TypeInv, SoundInv, ServeInv
  <1>2. PICK provider \in Providers :
          crawl' = [NoCrawl EXCEPT !.phase = "discover", !.provider = provider]
    BY DEF StartCrawl
  <1>3. crawl'.phase = "discover" /\ crawl'.left = {} /\ crawl'.processed = {}
    BY <1>2 DEF NoCrawl
  <1> QED BY <1>1, <1>3 DEF ServeInv, ChunksFit, EdgesOfCrawl, Charting

LEMMA WorkersServe ==
  ASSUME FrameInv, SoundInv, ServeInv, NEW d \in Docs, Worker(d)
  PROVE  ServeInv'
  <1>1. PICK w : WorkerStep(d, w)
    BY WorkersKeep DEF WorkerKeeps
  <1>2. db'.documents = db.documents
    BY <1>1 DEF WorkerStep, FrameInv, SoundInv, Undisturbed, Running
  <1>3. SameEdges(db, db') /\ (crawl' = crawl \/ crawl'.failed)
    BY WorkersSpare DEF WorkerSpares
  <1>4. Withdraws(db, db')
    BY <1>2, <1>3 DEF Withdraws, SameEdges
  <1>5. /\ crawl'.phase = crawl.phase /\ crawl'.processed = crawl.processed
        /\ crawl'.left = crawl.left /\ crawl'.provider = crawl.provider
    BY <1>1 DEF WorkerStep, CrawlGoesOn, FrameInv, TypeInv, CrawlRecord
  <1>6. ChunksFit'
    BY <1>5 DEF ServeInv, ChunksFit
  <1>7. Charting' => Charting
    BY <1>3, <1>5 DEF Charting, Promising, Running
  <1> QED BY <1>4, <1>5, <1>6, <1>7, WithdrawServes

LEMMA ResetServes ==
  ASSUME FrameInv, ServeInv, ResetProvided
  PROVE  ServeInv'
  <1>1. /\ db' = resetDocumentOccurrences(db, Provided) /\ db \in Databases
        /\ crawl' = [crawl EXCEPT !.phase = "clear"]
    BY DEF ResetProvided, FrameInv, TypeInv
  <1>2. Withdraws(db, db')
    BY <1>1, ResetWithdraws
  <1>3. /\ crawl'.phase = "clear" /\ crawl'.processed = crawl.processed
        /\ crawl'.left = crawl.left /\ crawl'.provider = crawl.provider
    BY <1>1 DEF FrameInv, TypeInv, CrawlRecord
  <1>4. ChunksFit' /\ ~ Charting'
    BY <1>3 DEF ServeInv, ChunksFit, Charting
  <1> QED BY <1>2, <1>4, WithdrawServes

\* The documents of the crawl are those of the provider, which are emptied, and the
\* others, which leave the graph; what is not recorded has no edges.
LEMMA ClearServes ==
  ASSUME FrameInv, SoundInv, DoneInv, ServeInv, ClearStandard
  PROVE  ServeInv'
  <1>1. /\ crawl.phase = "clear" /\ db \in Databases
        /\ db' = clearSymbolGraphForDocuments(db, Standard)
        /\ crawl' = [crawl EXCEPT !.left = Provided,
                              !.phase = IF crawl.provider THEN "graph" ELSE "probe"]
    BY DEF ClearStandard, FrameInv, TypeInv
  <1>2. Withdraws(db, db')
    BY <1>1, ClearWithdraws
  <1>3. /\ crawl'.phase \in {"graph", "probe"} /\ crawl'.processed = crawl.processed
        /\ crawl'.left = Provided /\ crawl'.provider = crawl.provider
        /\ crawl'.failed = crawl.failed /\ crawl'.disturbed = crawl.disturbed
    BY <1>1 DEF FrameInv, TypeInv, CrawlRecord
  <1>4. ChunksFit'
    BY <1>3 DEF ServeInv, ChunksFit, Provided
  <1>5. ASSUME Charting', NEW o \in Occurrences
        PROVE  db'.edges[o] = NoSymbol
    <2>1. Promising
      BY <1>1, <1>3, <1>5 DEF Charting, Promising, Running
    <2>2. o[1] \in Docs
      BY DEF Occurrences
    <2>3. CASE db.edges[o] = NoSymbol
      BY <1>2, <2>3 DEF Withdraws
    <2>4. CASE db.edges[o] # NoSymbol /\ o[1] \in Standard
      <3>1. db.hasGraph /\ o \in Of(Standard)
        BY <2>4 DEF ServeInv, EdgesKnown, Of
      <3> QED BY <1>1, <3>1, ClearLeaves
    <2>5. CASE db.edges[o] # NoSymbol /\ o[1] \notin Standard
      <3>1. o \in Named(db.documents)
        BY <2>5, Mentioned DEF SoundInv, Good, Sound, EdgesSound
      <3>2. files[o[1]] # Absent
        BY <1>1, <3>1 DEF Named, TokenAt, FrameInv, SoundInv, Undisturbed, Running
      <3>3. Done(o[1]) /\ StageFits(o[1])
        BY <2>1, <2>2 DEF DoneInv
      <3>4. o[1] \in Prepared
        BY <1>1, <2>2, <3>2, <3>3 DEF Done, StageFits, Prepared, InCrawl
      <3>5. o \in Of(Provided)
        BY <2>5, <3>4 DEF Standard, Of
      <3> QED BY <1>1, <2>5, <3>5 DEF FrameInv, Cleared
    <2> QED BY <2>3, <2>4, <2>5
  <1>6. EdgesKnown(db')
    BY <1>2, WithdrawnKnown DEF ServeInv
  <1> QED BY <1>4, <1>5, <1>6 DEF ServeInv, EdgesOfCrawl

LEMMA ChunkServes ==
  ASSUME FrameInv, SoundInv, ServeInv, GraphChunk
  PROVE  ServeInv'
  <1>1. PICK chunk \in SUBSET crawl.left, missing \in SUBSET OutsideSolution :
          LET found == chunk \ missing IN
          /\ Appendable(db, Edges(found))
          /\ db' = appendSymbolGraph(db, Edges(found),
                       {o \in DOMAIN Edges(found) : TokenAt(files, o).isDefinition},
                       [s \in Symbols |-> Definitions(files, s)])
          /\ crawl' = [crawl EXCEPT !.left = @ \ chunk, !.processed = @ \cup found]
          /\ UNCHANGED work
    BY ChunkAppended
  <1> DEFINE found == chunk \ missing
             symbols == Edges(found)
             defining == {o \in DOMAIN symbols : TokenAt(files, o).isDefinition}
             defined == [s \in Symbols |-> Definitions(files, s)]
  <1>2. crawl.phase = "graph" /\ db \in Databases /\ files \in Files
    BY DEF GraphChunk, FrameInv, TypeInv
  <1>3. /\ Appendable(db, symbols)
        /\ db' = appendSymbolGraph(db, symbols, defining, defined)
        /\ crawl' = [crawl EXCEPT !.left = crawl.left \ chunk,
                                  !.processed = crawl.processed \cup found]
    BY <1>1
  <1>4. ChunkOf(files, found, symbols) /\ found \subseteq chunk /\ chunk \subseteq crawl.left
    BY DEF ChunkOf, Edges
  <1>5. defining = {o \in DOMAIN symbols : TokenAt(files, o).isDefinition}
    OBVIOUS
  <1>6. db.documents = files /\ db'.documents = db.documents
    BY <1>2, GraphChunkMoves DEF CrawlMoves, FrameInv, SoundInv, Undisturbed, Running
  <1> HIDE DEF symbols, defining, defined, found
  <1>7. /\ EdgesKnown(db')
        /\ \A o \in Occurrences : o[1] \notin found => db'.edges[o] = db.edges[o]
    <2> DEFINE c == appendSymbolGraph(db, symbols, defining, defined)
    <2>1. c.documents = files => EdgesKnown(c)
      BY <1>2, <1>3, <1>4, <1>5, <1>6, AppendKnows DEF ServeInv
    <2>2. \A o \in Occurrences : c.edges[o] =
             IF o \in Named(files) \cap Of(found)
               THEN TokenAt(files, o).symbol ELSE db.edges[o]
      BY <1>2, <1>4, AppendLeaves
    <2>3. db' = c
      BY <1>3
    <2> HIDE DEF c
    <2> QED BY <1>6, <2>1, <2>2, <2>3 DEF Of
  <1>8. /\ crawl'.phase = "graph" /\ crawl'.provider = crawl.provider
         /\ crawl'.left = crawl.left \ chunk
         /\ crawl'.processed = crawl.processed \cup found
         /\ crawl'.failed = crawl.failed /\ crawl'.disturbed = crawl.disturbed
    BY <1>2, <1>3 DEF FrameInv, TypeInv, CrawlRecord
  <1>9. ChunksFit'
    BY <1>4, <1>8 DEF ServeInv, ChunksFit
  <1>10. Charting' => Charting
    BY <1>2, <1>8 DEF Charting, Promising, Running
  <1>11. EdgesOfCrawl'
    BY <1>7, <1>8, <1>10 DEF ServeInv, EdgesOfCrawl
  <1> QED BY <1>7, <1>9, <1>11 DEF ServeInv

\* A crawl that fails claims nothing.
LEMMA FailedServes ==
  ASSUME ServeInv, Withdraws(db, db'), crawl'.phase = "failed",
         crawl'.left = crawl.left, crawl'.processed = crawl.processed,
         crawl'.provider = crawl.provider
  PROVE  ServeInv'
  <1>1. ~ Charting'
    BY DEF Charting, Promising, Running
  <1>2. ChunksFit'
    BY DEF ServeInv, ChunksFit
  <1> QED BY <1>1, <1>2, WithdrawServes

LEMMA SparedServes ==
  ASSUME ServeInv, db' = db, ChunksFit',
         Charting' => Charting /\ crawl'.processed = crawl.processed
  PROVE  ServeInv'
  <1>1. Withdraws(db, db')
    BY DEF Withdraws
  <1> QED BY <1>1, WithdrawServes

LEMMA ChunkDocumentServes ==
  ASSUME FrameInv, ServeInv, ChunkDocumentFails
  PROVE  ServeInv'
  <1>1. PICK d \in crawl.left :
          crawl' = [crawl EXCEPT !.left = crawl.left \ {d}, !.graphFailed = TRUE,
                                 !.hindered = TRUE]
    BY DEF ChunkDocumentFails
  <1>2. db' = db
    BY DEF ChunkDocumentFails
  <1>3. /\ crawl'.left \subseteq crawl.left /\ crawl'.processed = crawl.processed
        /\ crawl'.provider = crawl.provider /\ crawl'.phase = crawl.phase
        /\ crawl'.failed = crawl.failed /\ crawl'.disturbed = crawl.disturbed
    BY <1>1 DEF FrameInv, TypeInv, CrawlRecord
  <1>4. ChunksFit' /\ (Charting' => Charting)
    BY <1>3 DEF ServeInv, ChunksFit, Charting, Promising, Running
  <1> QED BY <1>2, <1>3, <1>4, SparedServes

LEMMA GraphRequestServes ==
  ASSUME FrameInv, ServeInv, GraphRequestFails
  PROVE  ServeInv'
  <1>1. /\ db' = clearSymbolGraphForDocuments(db, Provided) /\ db \in Databases
        /\ crawl' = [crawl EXCEPT !.phase = "failed", !.failed = TRUE, !.hindered = TRUE]
    BY DEF GraphRequestFails, FrameInv, TypeInv
  <1>2. Withdraws(db, db')
    BY <1>1, ClearWithdraws
  <1>3. /\ crawl'.phase = "failed" /\ crawl'.left = crawl.left
        /\ crawl'.processed = crawl.processed /\ crawl'.provider = crawl.provider
    BY <1>1 DEF FrameInv, TypeInv, CrawlRecord
  <1> QED BY <1>2, <1>3, FailedServes

LEMMA GraphEndsServes ==
  ASSUME FrameInv, ServeInv, GraphEnds
  PROVE  ServeInv'
  <1>1. CASE GraphFails
    <2>1. /\ db' = clearSymbolGraphForDocuments(db, Provided) /\ db \in Databases
          /\ crawl' = [crawl EXCEPT !.phase = "failed", !.failed = TRUE]
      BY <1>1 DEF GraphFails, FrameInv, TypeInv
    <2>2. Withdraws(db, db')
      BY <2>1, ClearWithdraws
    <2>3. /\ crawl'.phase = "failed" /\ crawl'.left = crawl.left
          /\ crawl'.processed = crawl.processed /\ crawl'.provider = crawl.provider
      BY <2>1 DEF FrameInv, TypeInv, CrawlRecord
    <2> QED BY <2>2, <2>3, FailedServes
  <1>2. CASE crawl' = [crawl EXCEPT !.phase = "capture"] /\ db' = db
    <2>1. /\ crawl'.left = crawl.left /\ crawl'.processed = crawl.processed
          /\ crawl'.provider = crawl.provider /\ crawl'.phase = "capture"
          /\ crawl'.failed = crawl.failed /\ crawl'.disturbed = crawl.disturbed
      BY <1>2 DEF FrameInv, TypeInv, CrawlRecord
    <2>2. crawl.phase = "graph"
      BY DEF GraphEnds
    <2>3. ChunksFit' /\ (Charting' => Charting)
      BY <2>1, <2>2 DEF ServeInv, ChunksFit, Charting, Promising, Running
    <2> QED BY <1>2, <2>1, <2>3, SparedServes
  <1> QED BY <1>1, <1>2 DEF GraphEnds

LEMMA EndsServe ==
  ASSUME FrameInv, SoundInv, ServeInv, CaptureEnds \/ ProbeEnds
  PROVE  ServeInv'
  <1>1. db' = db
    BY DEF CaptureEnds, ProbeEnds
  <1>2. PICK phase \in {"probe", "failed", "finished"} :
          /\ crawl' = [crawl EXCEPT !.phase = phase]
          /\ crawl.phase \in {"capture", "probe"}
          /\ phase = "finished" => ~ crawl.failed
    BY DEF CaptureEnds, ProbeEnds
  <1>3. /\ crawl'.left = crawl.left /\ crawl'.processed = crawl.processed
        /\ crawl'.provider = crawl.provider /\ crawl'.phase = phase
        /\ crawl'.failed = crawl.failed /\ crawl'.disturbed = crawl.disturbed
    BY <1>2 DEF FrameInv, TypeInv, CrawlRecord
  <1>4. ChunksFit' /\ (Charting' => Charting)
    BY <1>2, <1>3 DEF SoundInv, ServeInv, ChunksFit, Charting, Promising, Running
  <1> QED BY <1>1, <1>3, <1>4, SparedServes

LEMMA CrashServes ==
  ASSUME FrameInv, ServeInv, Crash
  PROVE  ServeInv'
  <1>1. SameEdges(db, db') /\ db'.documents = db.documents
    <2>1. CASE db' = db
      BY <2>1 DEF SameEdges
    <2>2. CASE \E d \in Docs : db' \in Committed(d)
      BY <2>2, CommittedSpares
    <2> QED BY <2>1, <2>2 DEF Crash
  <1>2. Withdraws(db, db')
    BY <1>1 DEF Withdraws, SameEdges
  <1>3. crawl'.phase = "idle" /\ crawl'.left = {} /\ crawl'.processed = {}
    BY DEF Crash, NoCrawl
  <1>4. ChunksFit' /\ ~ Charting'
    BY <1>3 DEF ChunksFit, Charting
  <1> QED BY <1>2, <1>4, WithdrawServes

LEMMA EditServes ==
  ASSUME FrameInv, ServeInv, Edit
  PROVE  ServeInv'
  <1>1. db' = db /\ crawl' = [crawl EXCEPT !.disturbed = crawl.disturbed \/ Running]
    BY DEF Edit
  <1>2. PICK disturbed \in BOOLEAN : disturbed = (crawl.disturbed \/ Running)
    OBVIOUS
  <1>3. crawl' = [crawl EXCEPT !.disturbed = disturbed]
    BY <1>1, <1>2
  <1>4. /\ crawl'.left = crawl.left /\ crawl'.processed = crawl.processed
        /\ crawl'.provider = crawl.provider /\ crawl'.phase = crawl.phase
        /\ crawl'.failed = crawl.failed /\ crawl'.disturbed = disturbed
    BY <1>3 DEF FrameInv, TypeInv, CrawlRecord
  <1>5. ChunksFit'
    BY <1>4 DEF ServeInv, ChunksFit
  <1>6. Charting' => Charting
    BY <1>2, <1>4 DEF Charting, Promising, Running
  <1> QED BY <1>1, <1>4, <1>5, <1>6, SparedServes

LEMMA ServeInit == Init => ServeInv
  <1> SUFFICES ASSUME Init PROVE ServeInv
    OBVIOUS
  <1>1. /\ \A o \in Occurrences : db.edges[o] = NoSymbol /\ o \notin db.defining
        /\ crawl.left = {} /\ crawl.processed = {} /\ crawl.phase = "idle"
    BY DEF Init, NoCrawl, emptyDatabase
  <1> QED BY <1>1, NothingIsKnown DEF ServeInv, ChunksFit, EdgesOfCrawl, Charting

LEMMA ServeStep == FrameInv /\ SoundInv /\ DoneInv /\ ServeInv /\ [Next]_vars => ServeInv'
  <1> SUFFICES ASSUME FrameInv, SoundInv, DoneInv, ServeInv, [Next]_vars PROVE ServeInv'
    OBVIOUS
  <1>1. CASE UNCHANGED vars
    <2>1. db' = db /\ crawl' = crawl
      BY <1>1 DEF vars
    <2>2. ChunksFit' /\ (Charting' => Charting)
      BY <2>1 DEF ServeInv, ChunksFit, Charting, Promising, Running
    <2> QED BY <2>1, <2>2, SparedServes
  <1>2. CASE Graph
    BY <1>2, ChunkServes, ChunkDocumentServes, GraphRequestServes, GraphEndsServes DEF Graph
  <1> QED BY <1>1, <1>2, StartServes, WorkersServe, ResetServes, ClearServes, EndsServe,
             CrashServes, EditServes DEF Next

LEMMA ServeHolds ==
  ASSUME MaxLiveEdits = 0
  PROVE  Spec => []ServeInv
  BY ServeInit, FrameHolds, SoundHolds, DoneHolds, ServeStep, PTL DEF Spec

\* What is stored of an answer is the truth, or nothing.
LEMMA StoredAnswers ==
  ASSUME FrameInv, SoundInv, NEW o \in Occurrences, o[1] \notin RazorDocs,
         NEW kind \in {"references", "definition", "declaration"}
  PROVE  /\ AnswerLocations(Exported, o, kind) \in {{}, Truth(db.documents, o, kind)}
         /\ kind \in Kinds /\ Complete(db, o, kind) =>
               AnswerLocations(Exported, o, kind) = Truth(db.documents, o, kind)
  <1> DEFINE w == db.documents
  <1>1. db \in Databases /\ AnswersSound(w, db.answers)
    BY DEF FrameInv, TypeInv, SoundInv, Good, Sound
  <1>2. CASE ~ (kind \in Kinds /\ Complete(Exported, o, kind))
    <2>1. AnswerLocations(Exported, o, kind) = {}
      BY <1>2 DEF AnswerLocations
    <2>2. ~ (kind \in Kinds /\ Complete(db, o, kind))
      BY <1>1, <1>2, ExportsAnswers DEF Exported
    <2> QED BY <2>1, <2>2
  <1>3. CASE kind \in Kinds /\ Complete(Exported, o, kind)
    <2>1. AnswerLocations(Exported, o, kind) = Exported.answers[<<o, kind>>].locations
      BY <1>3 DEF AnswerLocations
    <2>2. Complete(db, o, kind) /\ Exported.answers[<<o, kind>>] = db.answers[<<o, kind>>]
      BY <1>1, <1>3, ExportsAnswers DEF Exported
    <2>3. db.answers[<<o, kind>>].status = "complete"
      BY <2>2 DEF Complete
    <2>4. TrueOf(w, o, kind, db.answers[<<o, kind>>].locations)
      BY <1>1, <1>3, <2>3 DEF AnswersSound
    <2> QED BY <2>1, <2>2, <2>4 DEF TrueOf
  <1> QED BY <1>2, <1>3

\* The edges of a symbol are its mentions in the documents that were processed.
LEMMA EdgesOfSymbol ==
  ASSUME FrameInv, SoundInv, ServeInv, FinishedComplete, crawl.phase = "finished",
         NEW o \in Occurrences, db.edges[o] # NoSymbol
  PROVE  LET s == db.edges[o] IN
         /\ SameSymbol(db, o) = Mentions(db.documents, s) \cap Of(crawl.processed)
         /\ SameSymbol(db, o) \ db.defining =
               SameSymbol(db, o) \ Definitions(db.documents, s)
  <1> DEFINE w == db.documents
             s == db.edges[o]
  <1>1. SameSymbol(db, o) = {x \in db.occurrences : db.edges[x] = s}
    BY DEF SameSymbol
  <1>2. db.occurrences \subseteq Occurrences
    BY DatabaseShape DEF FrameInv, TypeInv
  <1>3. \A x \in Occurrences : db.edges[x] # NoSymbol =>
           x \in Mentions(w, db.edges[x]) /\ x[1] \in crawl.processed
    BY DEF SoundInv, Good, Sound, EdgesSound, ServeInv, EdgesOfCrawl, Charting
  <1>4. ASSUME NEW x \in Mentions(w, s), x[1] \in crawl.processed
        PROVE  x \in db.occurrences /\ db.edges[x] = s
    <2>1. crawl.provider /\ x[1] \in ProviderDocs
      BY <1>4 DEF ServeInv, ChunksFit
    <2>2. x \in Named(w) /\ x \in Occurrences /\ TokenAt(w, x).symbol = s
      BY <1>4, Mentioned
    <2>3. x[1] \notin UnsupportedDocs
      BY <2>1, CrawlerAssumption
    <2>4. x \in Named(w) \ Of(UnsupportedDocs)
      BY <2>2, <2>3 DEF Of
    <2>5. x \in db.occurrences /\ db.edges[x] # NoSymbol
      BY <1>4, <2>1, <2>4 DEF FinishedComplete
    <2>6. x \in Mentions(w, db.edges[x])
      BY <1>3, <2>2, <2>5
    <2> QED BY <2>2, <2>5, <2>6, Mentioned
  <1>5. Mentions(w, s) \subseteq Occurrences
    BY Mentioned
  <1>6. \A x \in Occurrences : db.edges[x] = s => (x \in db.defining <=> x \in Definitions(w, s))
    BY DEF ServeInv, EdgesKnown
  <1> HIDE DEF s, w
  <1>7. s # NoSymbol
    BY DEF s
  <1>8. SameSymbol(db, o) = Mentions(w, s) \cap Of(crawl.processed)
    BY <1>1, <1>2, <1>3, <1>4, <1>5, <1>7 DEF Of
  <1>9. SameSymbol(db, o) \ db.defining = SameSymbol(db, o) \ Definitions(w, s)
    BY <1>1, <1>2, <1>6
  <1> QED BY <1>8, <1>9 DEF s, w

\* After a crawl that reports success, in which no file was edited, the index has
\* every definition and every reference that there is, provided that the server
\* can be asked for both.
THEOREM IndexServesAll ==
  ASSUME MaxLiveEdits = 0, {"references", "definition"} \subseteq Kinds \ Unanswerable
  PROVE  Spec => []ServesAll
  <1>1. FrameInv /\ SoundInv /\ ServeInv /\ FinishedComplete => ServesAll
    <2> SUFFICES ASSUME FrameInv, SoundInv, ServeInv, FinishedComplete,
                        crawl.phase = "finished",
                        NEW o \in Named(db.documents) \ Of(UnsupportedDocs \cup RazorDocs)
                 PROVE
            LET inGraph   == crawl.provider /\ o[1] \in ProviderDocs
                defined   == Truth(db.documents, o, "definition")
                mentioned == Truth(db.documents, o, "references")
                expected  == IF inGraph
                               THEN (mentioned \cap Of(crawl.processed)) \cup defined
                               ELSE mentioned
            IN  \/ inGraph /\ o[1] \in OutsideSolution \ crawl.processed
                \/ /\ definition(Exported, o) = defined
                   /\ references(Exported, o, TRUE) = expected
                   /\ references(Exported, o, FALSE) = expected \ defined
      BY DEF ServesAll
    <2> DEFINE w         == db.documents
               s         == TokenAt(w, o).symbol
               inGraph   == crawl.provider /\ o[1] \in ProviderDocs
               defined   == Definitions(w, s)
               mentioned == Mentions(w, s)
    <2>1. /\ o \in Occurrences /\ o[1] \notin RazorDocs
          /\ o \in Named(w) \ Of(UnsupportedDocs)
      BY DEF Named, Of
    <2>2. /\ Truth(w, o, "references") = mentioned
          /\ Truth(w, o, "definition") = defined
          /\ Truth(w, o, "declaration") = defined
          /\ defined \subseteq mentioned
      <3>1. o \in Named(w)
        BY <2>1
      <3>2. /\ Truth(w, o, "references") = mentioned
            /\ Truth(w, o, "definition") = defined
            /\ Truth(w, o, "declaration") = defined
        <4> HIDE DEF w
        <4> QED BY <3>1, TruthOfKinds
      <3>3. defined \subseteq mentioned
        BY Mentioned
      <3> QED BY <3>2, <3>3
    <2>3. /\ AnswerLocations(Exported, o, "definition") \in {{}, defined}
          /\ AnswerLocations(Exported, o, "declaration") \in {{}, defined}
          /\ Complete(db, o, "definition") =>
                AnswerLocations(Exported, o, "definition") = defined
          /\ Complete(db, o, "references") =>
                AnswerLocations(Exported, o, "references") = mentioned
      BY <2>1, <2>2, StoredAnswers
    <2>4. /\ SameEdges(db, Exported)
          /\ Exported.definitions = db.definitions /\ Exported.occurrences = db.occurrences
      BY ExportsAnswers DEF Exported, FrameInv, TypeInv
    <2>5. CASE inGraph /\ o[1] \in OutsideSolution \ crawl.processed
      BY <2>5
    <2>6. CASE ~ (inGraph /\ o[1] \in OutsideSolution \ crawl.processed)
      <3>1. /\ o \in db.occurrences
            /\ inGraph => db.edges[o] # NoSymbol
            /\ ~ inGraph => \A kind \in Kinds \ Unanswerable : hasCompleteAnswer(db, o, kind)
        BY <2>1, <2>6 DEF FinishedComplete
      <3>2. CASE db.edges[o] # NoSymbol
        <4>1. HasSymbol(Exported, o)
          BY <2>1, <2>4, <3>2 DEF HasSymbol, SameEdges, ServeInv, EdgesKnown
        <4>2. o \in Mentions(w, db.edges[o])
              /\ db.definitions[db.edges[o]] = Definitions(w, db.edges[o])
          BY <2>1, <3>2 DEF SoundInv, Good, Sound, EdgesSound, DefinitionsSound
        <4>3. db.edges[o] = s
          BY <4>2, Mentioned
        <4>4. SymbolDefinitions(Exported, o) = defined
          BY <2>4, <4>1, <4>2, <4>3 DEF SymbolDefinitions, SameEdges
        <4>5. inGraph
          BY <2>1, <3>2 DEF ServeInv, EdgesOfCrawl, Charting, ChunksFit
        <4>6. SameSymbol(Exported, o) = SameSymbol(db, o)
          BY <2>4 DEF SameSymbol, SameEdges
        <4>7. /\ SameSymbol(Exported, o) = mentioned \cap Of(crawl.processed)
              /\ SameSymbol(Exported, o) \ Exported.defining =
                    SameSymbol(Exported, o) \ defined
          BY <2>1, <2>4, <3>2, <4>3, <4>6, EdgesOfSymbol DEF SameEdges
        <4> HIDE DEF inGraph, defined, mentioned, w, s
        <4>8. definition(Exported, o) = defined
          BY <2>3, <2>4, <3>1, <4>4 DEF definition
        <4>9. references(Exported, o, TRUE) =
                 (mentioned \cap Of(crawl.processed)) \cup defined
          BY <2>4, <3>1, <4>1, <4>4, <4>7 DEF references, SymbolReferences
        <4>10. references(Exported, o, FALSE) =
                 (mentioned \cap Of(crawl.processed)) \ defined
          BY <2>4, <3>1, <4>1, <4>7 DEF references, SymbolReferences
        <4> QED BY <2>2, <4>5, <4>8, <4>9, <4>10 DEF inGraph, w
      <3>3. CASE db.edges[o] = NoSymbol
        <4>1. ~ inGraph
          BY <3>1, <3>3
        <4>2. Complete(db, o, "definition") /\ Complete(db, o, "references")
          BY <3>1, <3>3, <4>1 DEF hasCompleteAnswer
        <4>3. ~ HasSymbol(Exported, o) /\ SymbolDefinitions(Exported, o) = {}
          BY <2>4, <3>3 DEF HasSymbol, SymbolDefinitions, SameEdges
        <4> HIDE DEF inGraph, defined, mentioned, w, s
        <4>4. definition(Exported, o) = defined
          BY <2>3, <2>4, <3>1, <4>2, <4>3 DEF definition
        <4>5. references(Exported, o, TRUE) = mentioned
          BY <2>3, <2>4, <3>1, <4>2, <4>3 DEF references
        <4>6. references(Exported, o, FALSE) = mentioned \ defined
          BY <2>3, <2>4, <3>1, <4>2, <4>3 DEF references
        <4> QED BY <2>2, <4>1, <4>4, <4>5, <4>6 DEF inGraph, w
      <3> QED BY <3>2, <3>3
    <2> QED BY <2>5, <2>6
  <1> QED BY <1>1, FrameHolds, SoundHolds, ServeHolds, FinishedIsComplete, PTL
=============================================================================
