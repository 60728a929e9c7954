---------------------------- MODULE DocumentProofs ----------------------------
(***************************************************************************)
(* What holds of the buffer store and of the inlay-hint cache over it, for *)
(* any number of URIs, editors and readers, any texts and versions, any    *)
(* computations and dependency closures.                                   *)
(*                                                                         *)
(* The argument: revisions are handed out once, every document object and  *)
(* every parse cell in use is named by a revision already handed out, and  *)
(* no two objects share a cell.  So a cell is filled with the text of the  *)
(* one object that owns it, or of nobody any more.                         *)
(*                                                                         *)
(* An object that is open is the entry of one URI, or an open of one URI   *)
(* has replaced it and is about to retire it (Placed), and whoever looked  *)
(* it up while it is open still finds it there.  So what a read returns is *)
(* live or leaving, and each step that writes an open object is a step of  *)
(* Buffers, of its live buffer or of one being replaced.                   *)
(*                                                                         *)
(* No buffer becomes live under a name it had before.  So an attempt that  *)
(* comes to nothing has seen one live parse more than when it began.       *)
(*                                                                         *)
(* Whatever a computation of hints read stays what it read for as long as  *)
(* the counter shows its stamp.  An edit draws a revision as it changes    *)
(* the buffer.  A close changes it first and draws one last, and no lookup *)
(* comes in between.  An open draws one first, and leaves behind a buffer  *)
(* nobody has edited.  So the invariant speaks of every view, of a         *)
(* computation in progress as of an entry, and names the two cases in      *)
(* which the buffer is another one already: a close that has yet to        *)
(* advance the counter, and a document just opened.                        *)
(***************************************************************************)
EXTENDS HintsCache, FiniteSetTheorems, TLAPS

(* The document objects created so far.                                      *)
Objects == {d \in Revision : heap[d] \in Document}

(* Objects that exist and cells in use have names below next_revision.       *)
Allocated ==
    /\ \A d \in Objects : d < next_revision /\ heap[d].parse < next_revision
    /\ \A c \in Revision : cell[c] # Null => c < next_revision
    /\ \A u \in Uri : documents[u] # Null => documents[u] \in Objects

(* What an editor's call remembers at each of its steps.                     *)
EditorsHold ==
    \A e \in Editor :
        /\ editor[e].pc # "idle" => editor[e].uri \in Uri
        /\ editor[e].pc \in {"insert", "retire", "edit", "flag", "remove"}
           => editor[e].doc \in Objects
        /\ editor[e].pc = "edit" => editor[e].version \in Version /\ editor[e].text \in Text

(* What a reader's call remembers at each of its steps.                      *)
ReadersHold ==
    \A r \in Reader :
        /\ reader[r].pc # "idle" => reader[r].uri \in Uri
        /\ reader[r].pc \in {"read", "recheck", "commit"} => reader[r].doc \in Objects
        /\ reader[r].pc \in {"init", "parsing", "again", "recheck", "some", "commit"}
           => reader[r].parse \in Revision /\ reader[r].parse < next_revision
        /\ reader[r].pc \in {"init", "parsing"} => reader[r].text \in Text

Shape == TypeOK /\ Allocated /\ EditorsHold /\ ReadersHold

(* A parse cell belongs to one object.                                       *)
CellsOwned == \A d1, d2 \in Objects : heap[d1].parse = heap[d2].parse => d1 = d2

(* A reader about to fill a cell holds the text of the object that owns it.  *)
TextsHeld ==
    \A r \in Reader, d \in Objects :
        reader[r].pc \in {"init", "parsing"} /\ heap[d].parse = reader[r].parse
        => heap[d].text = reader[r].text

(* The parse in a cell is of the text of the object that owns the cell.      *)
Filled == \A d \in Objects : cell[heap[d].parse] # Null => cell[heap[d].parse] = heap[d].text

-----------------------------------------------------------------------------

(* The initial state has the shape.                                          *)
LEMMA InitShape == Init => Shape
<1> SUFFICES ASSUME Init PROVE Shape
  OBVIOUS
<1> USE MaxRevisionAssumption, NullAssumption
<1>1. TypeOK
  BY DEF Init, TypeOK, Revision, EditorIdle, ReaderIdle, EditorState, ReaderState
<1>2. Objects = {}
  BY DEF Init, Objects, Document
<1>3. Allocated /\ EditorsHold /\ ReadersHold
  BY <1>2 DEF Init, Allocated, EditorsHold, ReadersHold, EditorIdle, ReaderIdle
<1> QED
  BY <1>1, <1>3 DEF Shape

(* The call an action starts or goes on with is of the right type.           *)
LEMMA IdleTypes == EditorIdle \in EditorState /\ ReaderIdle \in ReaderState
BY DEF EditorIdle, ReaderIdle, EditorState, ReaderState

(* What Witness records is a set of cells and Null.                          *)
LEMMA WitnessType ==
    ASSUME Shape, Witness,
           documents' \in [Uri -> Revision \cup {Null}],
           heap' \in [Revision -> Document \cup {Null}],
           \A u \in Uri : documents'[u] # Null => heap'[documents'[u]] \in Document
    PROVE  since' \in [Reader -> SUBSET (Revision \cup {Null})]
<1>1. \A u \in Uri : LiveIn(documents', heap', u) \in Revision \cup {Null}
  BY DEF LiveIn, Document
<1>2. \A r \in Reader : reader[r].pc \in Resolving => reader[r].uri \in Uri
  BY DEF Shape, ReadersHold, Resolving
<1> QED
  BY <1>1, <1>2 DEF Witness, Shape, TypeOK

(* Writing one object leaves the others as they are.                         *)
LEMMA HeapWrite ==
    ASSUME TypeOK, NEW d \in Revision, NEW new \in Document,
           heap' = [heap EXCEPT ![d] = new]
    PROVE  /\ heap' \in [Revision -> Document \cup {Null}]
           /\ Objects' = Objects \cup {d}
           /\ heap'[d] = new
           /\ \A x \in Objects \ {d} : heap'[x] = heap[x]
BY DEF TypeOK, Objects

(* A step that writes no call of a reader keeps what the readers hold.       *)
LEMMA ReadersKept ==
    ASSUME Shape, reader' = reader, Objects \subseteq Objects',
           next_revision' \in Nat, next_revision <= next_revision'
    PROVE  ReadersHold'
<1>1. next_revision \in Nat /\ Revision \subseteq Nat
  BY MaxRevisionAssumption DEF Shape, TypeOK, Revision
<1>2. \A c \in Revision : c < next_revision => c < next_revision'
  BY <1>1
<1> QED
  BY <1>2 DEF Shape, ReadersHold

(* A step that writes one editor's call keeps what the others hold.          *)
LEMMA EditorsKept ==
    ASSUME Shape, NEW e \in Editor, NEW call \in EditorState,
           editor' = [editor EXCEPT ![e] = call], Objects \subseteq Objects',
           call.pc # "idle" => call.uri \in Uri,
           call.pc \in {"insert", "retire", "edit", "flag", "remove"}
              => call.doc \in Objects',
           call.pc = "edit" => call.version \in Version /\ call.text \in Text
    PROVE  EditorsHold' /\ editor' \in [Editor -> EditorState]
BY DEF Shape, TypeOK, EditorsHold

(* A step that retires an object by clearing its flag keeps the shape.       *)
LEMMA FlagCleared ==
    ASSUME Shape, NEW d \in Objects, heap' = [heap EXCEPT ![d].open = FALSE],
           Witness, UNCHANGED << next_revision, documents, cell, reader, overlay >>,
           EditorsHold', editor' \in [Editor -> EditorState]
    PROVE  Shape'
<1> DEFINE new == [heap[d] EXCEPT !.open = FALSE]
<1>1. new \in Document /\ new.parse = heap[d].parse /\ d \in Revision
  BY DEF Objects, Document
<1>2. heap' = [heap EXCEPT ![d] = new]
  BY <1>1 DEF Shape, TypeOK
<1> HIDE DEF new
<1>3. /\ heap' \in [Revision -> Document \cup {Null}]
      /\ Objects' = Objects
      /\ heap'[d] = new
      /\ \A x \in Objects \ {d} : heap'[x] = heap[x]
  <2>1. TypeOK /\ Objects = Objects \cup {d}
    BY DEF Shape
  <2> QED
    BY <1>1, <1>2, <2>1, HeapWrite
<1>4. since' \in [Reader -> SUBSET (Revision \cup {Null})]
  BY <1>3, WitnessType DEF Shape, TypeOK, Allocated, Objects
<1>5. TypeOK'
  BY <1>3, <1>4 DEF Shape, TypeOK
<1>6. Allocated'
  BY <1>1, <1>3 DEF Shape, TypeOK, Allocated
<1>7. ReadersHold'
  BY <1>3, ReadersKept, MaxRevisionAssumption DEF Shape, TypeOK
<1> QED
  BY <1>5, <1>6, <1>7 DEF Shape

(* Writing an object under a freshly drawn revision keeps the shape.         *)
LEMMA FreshlyWritten ==
    ASSUME Shape, NEW d \in Revision, NEW new \in Document,
           heap' = [heap EXCEPT ![d] = new], d <= next_revision,
           next_revision < MaxRevision, next_revision' = next_revision + 1,
           new.parse = next_revision,
           UNCHANGED << documents, cell, reader, overlay >>,
           since' \in [Reader -> SUBSET (Revision \cup {Null})],
           EditorsHold', editor' \in [Editor -> EditorState]
    PROVE  Shape'
<1>1. next_revision \in Nat /\ next_revision' \in 1 .. MaxRevision /\ Revision \subseteq Nat
  BY MaxRevisionAssumption DEF Shape, TypeOK, Revision
<1>2. /\ heap' \in [Revision -> Document \cup {Null}]
      /\ Objects' = Objects \cup {d}
      /\ heap'[d] = new
      /\ \A x \in Objects \ {d} : heap'[x] = heap[x]
  BY HeapWrite DEF Shape
<1>3. TypeOK'
  BY <1>1, <1>2 DEF Shape, TypeOK
<1>4. Allocated'
  <2>1. \A x \in Objects' : x < next_revision' /\ heap'[x].parse < next_revision'
    <3> SUFFICES ASSUME NEW x \in Objects'
                 PROVE  x < next_revision' /\ heap'[x].parse < next_revision'
      OBVIOUS
    <3>1. CASE x = d
      BY <1>1, <1>2, <3>1
    <3>2. CASE x # d
      <4>1. x \in Objects /\ heap'[x] = heap[x] /\ x \in Nat /\ heap[x].parse \in Nat
        BY <1>1, <1>2, <3>2 DEF Objects, Document
      <4> QED
        BY <1>1, <4>1 DEF Shape, Allocated
    <3> QED
      BY <3>1, <3>2
  <2>2. \A c \in Revision : cell'[c] # Null => c < next_revision'
    BY <1>1 DEF Shape, Allocated
  <2>3. \A u \in Uri : documents'[u] # Null => documents'[u] \in Objects'
    BY <1>2 DEF Shape, Allocated
  <2> QED
    BY <2>1, <2>2, <2>3 DEF Allocated
<1>5. ReadersHold'
  BY <1>1, <1>2, ReadersKept
<1> QED
  BY <1>3, <1>4, <1>5 DEF Shape

(* A step that writes calls and histories only keeps the rest of the shape.  *)
LEMMA CallsOnly ==
    ASSUME Shape, UNCHANGED << next_revision, documents, heap >>,
           cell' \in [Revision -> Text \cup {Null}],
           \A c \in Revision : cell'[c] # Null => c < next_revision,
           editor' \in [Editor -> EditorState], reader' \in [Reader -> ReaderState],
           overlay' \in [Uri -> [version : Version, parse : Revision] \cup {Null}],
           since' \in [Reader -> SUBSET (Revision \cup {Null})],
           EditorsHold', ReadersHold'
    PROVE  Shape'
BY DEF Shape, TypeOK, Allocated, Objects

(* Every step of an editor keeps the shape.                                  *)
LEMMA EditorShape ==
    ASSUME Shape, NEW e \in Editor, EditorCall(e) \/ EditorStep(e)
    PROVE  Shape'
<1> USE MaxRevisionAssumption
<1>e. /\ editor[e] \in EditorState
      /\ editor[e].pc # "idle" => editor[e].uri \in Uri
      /\ editor[e].pc \in {"insert", "retire", "edit", "flag", "remove"}
         => editor[e].doc \in Objects
      /\ editor[e].pc = "edit" => editor[e].version \in Version /\ editor[e].text \in Text
  BY DEF Shape, TypeOK, EditorsHold
<1>o. \A d \in Objects : d \in Revision /\ heap[d] \in Document
  BY DEF Objects
<1>u. \A u \in Uri : documents[u] # Null => documents[u] \in Objects
  BY DEF Shape, Allocated
<1>1. ASSUME NEW u \in Uri, NEW v \in Version, NEW t \in Text, Open(e, u, v, t)
      PROVE  Shape'
  <2> DEFINE new == [open |-> TRUE, version |-> v, text |-> t,
                     revision |-> next_revision, parse |-> next_revision]
             call == [EditorIdle EXCEPT !.pc = "insert", !.uri = u, !.doc = next_revision]
  <2>1. next_revision \in Revision /\ next_revision < MaxRevision
    BY <1>1 DEF Open, Shape, TypeOK, Revision
  <2>2. new \in Document /\ new.parse = next_revision
    BY <2>1 DEF Document
  <2>3. call \in EditorState /\ call.pc = "insert" /\ call.uri = u /\ call.doc = next_revision
    BY <2>1 DEF EditorState, EditorIdle
  <2>4. /\ heap' = [heap EXCEPT ![next_revision] = new]
        /\ editor' = [editor EXCEPT ![e] = call]
        /\ next_revision' = next_revision + 1
        /\ UNCHANGED << documents, cell, reader, overlay, since >>
    BY <1>1 DEF Open
  <2> HIDE DEF new, call
  <2>5. Objects' = Objects \cup {next_revision}
    BY <2>1, <2>2, <2>4, HeapWrite DEF Shape
  <2>6. EditorsHold' /\ editor' \in [Editor -> EditorState]
    BY <2>3, <2>4, <2>5, EditorsKept
  <2>7. next_revision <= next_revision
    BY <2>1 DEF Revision
  <2> QED
    BY <2>1, <2>2, <2>4, <2>6, <2>7, FreshlyWritten DEF Shape, TypeOK
<1>2. ASSUME NEW u \in Uri, NEW v \in Version, NEW t \in Text, Change(e, u, v, t)
      PROVE  Shape'
  <2> DEFINE call == [pc |-> "edit", uri |-> u, doc |-> documents[u],
                      version |-> v, text |-> t]
  <2>1. documents[u] \in Objects
    BY <1>2, <1>u DEF Change
  <2>2. call \in EditorState
    BY <2>1, <1>o DEF EditorState
  <2>3. /\ editor' = [editor EXCEPT ![e] = call]
        /\ UNCHANGED << next_revision, documents, heap, cell, reader, overlay, since >>
    BY <1>2 DEF Change
  <2>4. Objects' = Objects
    BY <2>3 DEF Objects
  <2>5. EditorsHold' /\ editor' \in [Editor -> EditorState]
    BY <2>1, <2>2, <2>3, <2>4, EditorsKept
  <2>6. ReadersHold'
    BY <2>3, <2>4, ReadersKept DEF Shape, TypeOK
  <2> QED
    BY <2>3, <2>5, <2>6, CallsOnly DEF Shape, TypeOK, Allocated
<1>3. ASSUME NEW u \in Uri, Close(e, u)
      PROVE  Shape'
  <2> DEFINE call == [EditorIdle EXCEPT !.pc = "flag", !.uri = u, !.doc = documents[u]]
  <2>1. documents[u] \in Objects
    BY <1>3, <1>u DEF Close
  <2>2. call \in EditorState /\ call.pc = "flag" /\ call.uri = u /\ call.doc = documents[u]
    BY <2>1, <1>o DEF EditorState, EditorIdle
  <2>3. /\ editor' = [editor EXCEPT ![e] = call]
        /\ UNCHANGED << next_revision, documents, heap, cell, reader, overlay, since >>
    BY <1>3 DEF Close
  <2> HIDE DEF call
  <2>4. Objects' = Objects
    BY <2>3 DEF Objects
  <2>5. EditorsHold' /\ editor' \in [Editor -> EditorState]
    BY <2>1, <2>2, <2>3, <2>4, EditorsKept
  <2>6. ReadersHold'
    BY <2>3, <2>4, ReadersKept DEF Shape, TypeOK
  <2> QED
    BY <2>3, <2>5, <2>6, CallsOnly DEF Shape, TypeOK, Allocated
<1>4. CASE OpenInsert(e)
  <2> DEFINE u == editor[e].uri
             call == IF documents[u] = Null THEN EditorIdle
                     ELSE [editor[e] EXCEPT !.pc = "retire", !.doc = documents[u]]
  <2>1. u \in Uri /\ editor[e].doc \in Objects
    BY <1>4, <1>e DEF OpenInsert
  <2>2. /\ call \in EditorState
        /\ call.pc \in {"idle", "retire"}
        /\ call.pc = "retire" => call.uri \in Uri /\ call.doc \in Objects
    BY <2>1, <1>e, <1>o, <1>u DEF EditorState, EditorIdle
  <2>3. /\ editor' = [editor EXCEPT ![e] = call]
        /\ documents' = [documents EXCEPT ![u] = editor[e].doc]
        /\ UNCHANGED << next_revision, heap, cell, reader, overlay >>
        /\ Witness
    BY <1>4 DEF OpenInsert
  <2> HIDE DEF call
  <2>4. Objects' = Objects
    BY <2>3 DEF Objects
  <2>5. EditorsHold' /\ editor' \in [Editor -> EditorState]
    BY <2>2, <2>3, <2>4, EditorsKept
  <2>6. ReadersHold'
    BY <2>3, <2>4, ReadersKept DEF Shape, TypeOK
  <2>7. documents' \in [Uri -> Revision \cup {Null}]
        /\ \A x \in Uri : documents'[x] # Null => documents'[x] \in Objects
    BY <2>1, <2>3, <1>o, <1>u DEF Shape, TypeOK
  <2>8. since' \in [Reader -> SUBSET (Revision \cup {Null})]
    BY <2>3, <2>7, <1>o, WitnessType DEF Shape, TypeOK
  <2>9. TypeOK'
    BY <2>3, <2>5, <2>7, <2>8 DEF Shape, TypeOK
  <2>10. Allocated'
    BY <2>3, <2>4, <2>7 DEF Shape, Allocated
  <2> QED
    BY <2>5, <2>6, <2>9, <2>10 DEF Shape
<1>5. CASE OpenRetire(e)
  <2>1. editor[e].doc \in Objects
    BY <1>5, <1>e DEF OpenRetire
  <2>2. /\ editor' = [editor EXCEPT ![e] = EditorIdle]
        /\ heap' = [heap EXCEPT ![editor[e].doc].open = FALSE]
        /\ UNCHANGED << next_revision, documents, cell, reader, overlay >>
        /\ Witness
    BY <1>5 DEF OpenRetire
  <2>3. Objects \subseteq Objects'
    BY <2>1, <2>2, <1>o DEF Shape, TypeOK, Objects, Document
  <2>4. EditorIdle.pc = "idle" /\ EditorIdle \in EditorState
    BY IdleTypes DEF EditorIdle
  <2>5. EditorsHold' /\ editor' \in [Editor -> EditorState]
    BY <2>2, <2>3, <2>4, EditorsKept
  <2> QED
    BY <2>1, <2>2, <2>5, FlagCleared
<1>6. CASE ChangeEdit(e)
  <2> DEFINE d == editor[e].doc
             new == Edited(heap[d], editor[e].version, editor[e].text)
  <2>1. d \in Objects /\ editor[e].version \in Version /\ editor[e].text \in Text
    BY <1>6, <1>e DEF ChangeEdit
  <2>2. /\ editor' = [editor EXCEPT ![e] = EditorIdle]
        /\ UNCHANGED << documents, cell, reader, overlay >>
        /\ Witness
    BY <1>6 DEF ChangeEdit
  <2>3. EditorIdle.pc = "idle" /\ EditorIdle \in EditorState
    BY IdleTypes DEF EditorIdle
  <2>4. CASE heap[d].open
    <3>1. /\ next_revision < MaxRevision /\ next_revision' = next_revision + 1
          /\ heap' = [heap EXCEPT ![d] = new]
      BY <1>6, <2>4 DEF ChangeEdit
    <3>2. next_revision \in Revision
      BY DEF Shape, TypeOK, Revision
    <3>3. new \in Document /\ new.parse = next_revision /\ d \in Revision
      BY <2>1, <3>2, <1>o DEF Edited, Document
    <3> HIDE DEF new
    <3>4. Objects' = Objects \cup {d} /\ heap' \in [Revision -> Document \cup {Null}]
      BY <3>1, <3>3, HeapWrite DEF Shape
    <3>5. EditorsHold' /\ editor' \in [Editor -> EditorState]
      BY <2>2, <2>3, <3>4, EditorsKept
    <3>6. since' \in [Reader -> SUBSET (Revision \cup {Null})]
      <4>1. \A u \in Uri : documents'[u] # Null => heap'[documents'[u]] \in Document
        BY <2>1, <2>2, <3>4, <1>u DEF Objects
      <4> QED
        BY <2>2, <3>4, <4>1, WitnessType DEF Shape, TypeOK
    <3>7. d <= next_revision
      BY <2>1, <3>2, <3>3 DEF Shape, Allocated, Revision
    <3> QED
      BY <2>2, <3>1, <3>3, <3>5, <3>6, <3>7, FreshlyWritten
  <2>5. CASE ~ heap[d].open
    <3>1. UNCHANGED << next_revision, heap >>
      BY <1>6, <2>5 DEF ChangeEdit
    <3>2. Objects' = Objects
      BY <3>1 DEF Objects
    <3>3. EditorsHold' /\ editor' \in [Editor -> EditorState]
      BY <2>2, <2>3, <3>2, EditorsKept
    <3>4. ReadersHold'
      BY <2>2, <3>1, <3>2, ReadersKept DEF Shape, TypeOK
    <3>5. since' \in [Reader -> SUBSET (Revision \cup {Null})]
      BY <2>2, <3>1, <1>o, <1>u, WitnessType DEF Shape, TypeOK
    <3> QED
      BY <2>2, <3>1, <3>3, <3>4, <3>5, CallsOnly DEF Shape, TypeOK, Allocated
  <2> QED
    BY <2>4, <2>5
<1>7. CASE CloseFlag(e)
  <2> DEFINE call == [editor[e] EXCEPT !.pc = "remove"]
  <2>1. editor[e].doc \in Objects /\ editor[e].uri \in Uri
    BY <1>7, <1>e DEF CloseFlag
  <2>2. call \in EditorState /\ call.pc = "remove" /\ call.doc = editor[e].doc
        /\ call.uri = editor[e].uri
    BY <1>e DEF EditorState
  <2>3. /\ editor' = [editor EXCEPT ![e] = call]
        /\ heap' = [heap EXCEPT ![editor[e].doc].open = FALSE]
        /\ UNCHANGED << next_revision, documents, cell, reader, overlay >>
        /\ Witness
    BY <1>7 DEF CloseFlag, Shape, TypeOK
  <2> HIDE DEF call
  <2>4. Objects \subseteq Objects'
    BY <2>1, <2>3, <1>o DEF Shape, TypeOK, Objects, Document
  <2>5. EditorsHold' /\ editor' \in [Editor -> EditorState]
    BY <2>1, <2>2, <2>3, <2>4, EditorsKept
  <2> QED
    BY <2>1, <2>3, <2>5, FlagCleared
<1>8. CASE CloseRemove(e)
  <2> DEFINE u == editor[e].uri
             call == [editor[e] EXCEPT !.pc = "bump"]
  <2>1. u \in Uri
    BY <1>8, <1>e DEF CloseRemove
  <2>2. call \in EditorState /\ call.pc = "bump" /\ call.uri = u
    BY <1>e DEF EditorState
  <2>3. /\ editor' = [editor EXCEPT ![e] = call]
        /\ documents' = [documents EXCEPT ![u] = IF @ = editor[e].doc THEN Null ELSE @]
        /\ UNCHANGED << next_revision, heap, cell, reader, overlay >>
        /\ Witness
    BY <1>8 DEF CloseRemove, Shape, TypeOK
  <2> HIDE DEF call
  <2>4. Objects' = Objects
    BY <2>3 DEF Objects
  <2>5. EditorsHold' /\ editor' \in [Editor -> EditorState]
    BY <2>1, <2>2, <2>3, <2>4, EditorsKept
  <2>6. ReadersHold'
    BY <2>3, <2>4, ReadersKept DEF Shape, TypeOK
  <2>7. documents' \in [Uri -> Revision \cup {Null}]
        /\ \A x \in Uri : documents'[x] # Null => documents'[x] \in Objects
    BY <2>1, <2>3, <1>u DEF Shape, TypeOK
  <2>8. since' \in [Reader -> SUBSET (Revision \cup {Null})]
    BY <2>3, <2>7, <1>o, WitnessType DEF Shape, TypeOK
  <2>9. TypeOK'
    BY <2>3, <2>5, <2>7, <2>8 DEF Shape, TypeOK
  <2>10. Allocated'
    BY <2>3, <2>4, <2>7 DEF Shape, Allocated
  <2> QED
    BY <2>5, <2>6, <2>9, <2>10 DEF Shape
<1>9. CASE CloseBump(e)
  <2>1. /\ editor' = [editor EXCEPT ![e] = EditorIdle]
        /\ next_revision < MaxRevision /\ next_revision' = next_revision + 1
        /\ UNCHANGED << documents, heap, cell, reader, overlay, since >>
    BY <1>9 DEF CloseBump
  <2>2. Objects' = Objects /\ EditorIdle.pc = "idle" /\ EditorIdle \in EditorState
    BY <2>1, IdleTypes DEF Objects, EditorIdle
  <2>3. EditorsHold' /\ editor' \in [Editor -> EditorState]
    BY <2>1, <2>2, EditorsKept
  <2>4. next_revision \in Nat /\ next_revision' \in 1 .. MaxRevision
        /\ next_revision <= next_revision'
    BY <2>1 DEF Shape, TypeOK
  <2>5. ReadersHold'
    BY <2>1, <2>2, <2>4, ReadersKept
  <2>6. TypeOK'
    BY <2>1, <2>3, <2>4 DEF Shape, TypeOK
  <2>7. Allocated'
    <3>1. \A n \in Revision : n < next_revision => n < next_revision'
      BY <2>1, <2>4 DEF Revision
    <3>2. \A d \in Objects : heap[d].parse \in Revision
      BY <1>o DEF Document
    <3> QED
      BY <2>1, <2>2, <3>1, <3>2, <1>o DEF Shape, Allocated
  <2> QED
    BY <2>3, <2>5, <2>6, <2>7 DEF Shape
<1> QED
  BY <1>1, <1>2, <1>3, <1>4, <1>5, <1>6, <1>7, <1>8, <1>9 DEF EditorCall, EditorStep

(* A step that writes one reader's call, and at most its history, the cell   *)
(* it fills and the overlay, keeps the shape.                                *)
LEMMA ReaderWritten ==
    ASSUME Shape, NEW r \in Reader, NEW call \in ReaderState,
           reader' = [reader EXCEPT ![r] = call],
           call.pc # "idle" => call.uri \in Uri,
           call.pc \in {"read", "recheck", "commit"} => call.doc \in Objects,
           call.pc \in {"init", "parsing", "again", "recheck", "some", "commit"}
              => call.parse \in Revision /\ call.parse < next_revision,
           call.pc \in {"init", "parsing"} => call.text \in Text,
           UNCHANGED << next_revision, documents, heap, editor >>,
           cell' \in [Revision -> Text \cup {Null}],
           \A c \in Revision : cell'[c] # Null => c < next_revision,
           overlay' \in [Uri -> [version : Version, parse : Revision] \cup {Null}],
           since' \in [Reader -> SUBSET (Revision \cup {Null})]
    PROVE  Shape'
<1>1. Objects' = Objects
  BY DEF Objects
<1>2. ReadersHold' /\ reader' \in [Reader -> ReaderState]
  BY <1>1 DEF Shape, TypeOK, ReadersHold
<1>3. EditorsHold'
  BY <1>1 DEF Shape, EditorsHold
<1> QED
  BY <1>2, <1>3, CallsOnly DEF Shape, TypeOK

(* A failed attempt keeps the shape.                                         *)
LEMMA FailShape ==
    ASSUME Shape, NEW r \in Reader, reader[r].pc # "idle", Fail(r)
    PROVE  Shape'
<1>1. reader[r] \in ReaderState /\ reader[r].uri \in Uri
  BY DEF Shape, TypeOK, ReadersHold
<1>2. /\ Failed(reader[r]) \in ReaderState
      /\ Failed(reader[r]).pc \in {"idle", "lookup"}
      /\ Failed(reader[r]).pc = "lookup" => Failed(reader[r]).uri \in Uri
  <2>1. CASE reader[r].pc \in Resolving /\ reader[r].attempt < reader[r].attempts
    <3>1. reader[r].attempt + 1 \in 1 .. 2
      BY <1>1, <2>1 DEF ReaderState
    <3> QED
      BY <1>1, <2>1, <3>1 DEF Failed, ReaderState, ReaderIdle
  <2>2. CASE ~ (reader[r].pc \in Resolving /\ reader[r].attempt < reader[r].attempts)
    BY <2>2, IdleTypes DEF Failed, ReaderIdle
  <2> QED
    BY <2>1, <2>2
<1>3. /\ reader' = [reader EXCEPT ![r] = Failed(reader[r])]
      /\ UNCHANGED << next_revision, documents, heap, cell, editor, overlay >>
      /\ since' \in [Reader -> SUBSET (Revision \cup {Null})]
  BY DEF Fail, store, Shape, TypeOK
<1> QED
  BY <1>2, <1>3, ReaderWritten DEF Shape, TypeOK, Allocated

(* The three lookups keep the shape.                                         *)
LEMMA LookupShape ==
    ASSUME Shape, NEW r \in Reader, NEW from, NEW to, Lookup(r, from, to),
           from \in {"lookup", "again", "some"},
           to = IF from = "lookup" THEN "read"
                ELSE IF from = "again" THEN "recheck" ELSE "commit"
    PROVE  Shape'
<1>1. /\ reader[r] \in ReaderState /\ reader[r].uri \in Uri
      /\ reader[r].pc \in {"again", "some"}
         => reader[r].parse \in Revision /\ reader[r].parse < next_revision
  BY DEF Lookup, Shape, TypeOK, ReadersHold
<1>2. CASE documents[reader[r].uri] = Null
  BY <1>2, FailShape DEF Lookup
<1>3. CASE documents[reader[r].uri] # Null
  <2> DEFINE call == [reader[r] EXCEPT !.pc = to, !.doc = documents[reader[r].uri]]
  <2>1. documents[reader[r].uri] \in Objects
    BY <1>1, <1>3 DEF Shape, Allocated
  <2>2. documents[reader[r].uri] \in Revision
    BY <2>1 DEF Objects
  <2>3. /\ call \in ReaderState /\ call.pc = to /\ call.uri \in Uri /\ call.doc \in Objects
        /\ call.parse = reader[r].parse
    BY <1>1, <2>1, <2>2 DEF ReaderState
  <2>4. to \in {"read", "recheck", "commit"}
        /\ (to \in {"recheck", "commit"} => reader[r].pc \in {"again", "some"})
    BY DEF Lookup
  <2>5. /\ reader' = [reader EXCEPT ![r] = call]
        /\ UNCHANGED << next_revision, documents, heap, cell, editor, overlay, since >>
    BY <1>3 DEF Lookup, store, Shape, TypeOK
  <2> HIDE DEF call
  <2> QED
    BY <1>1, <2>3, <2>4, <2>5, ReaderWritten DEF Shape, TypeOK, Allocated
<1> QED
  BY <1>2, <1>3

(* Every step of a reader keeps the shape.                                   *)
LEMMA ReaderShape ==
    ASSUME Shape, NEW r \in Reader, ReaderStep(r)
    PROVE  Shape'
<1>r. /\ reader[r] \in ReaderState
      /\ reader[r].pc # "idle" => reader[r].uri \in Uri
      /\ reader[r].pc \in {"read", "recheck", "commit"} => reader[r].doc \in Objects
      /\ reader[r].pc \in {"init", "parsing", "again", "recheck", "some", "commit"}
         => reader[r].parse \in Revision /\ reader[r].parse < next_revision
      /\ reader[r].pc \in {"init", "parsing"} => reader[r].text \in Text
  BY DEF Shape, TypeOK, ReadersHold
<1>o. \A d \in Objects : d \in Revision /\ heap[d] \in Document
                         /\ heap[d].parse < next_revision
  BY DEF Objects, Shape, Allocated
<1>c. \A c \in Revision : cell[c] # Null => c < next_revision
  BY DEF Shape, Allocated
<1>1. CASE Lookup(r, "lookup", "read") \/ Lookup(r, "again", "recheck")
           \/ LookupToCommit(r)
  BY <1>1, LookupShape DEF LookupToCommit
<1>2. CASE ParseRead(r)
  <2> DEFINE d == heap[reader[r].doc]
             hit == cell[d.parse] # Null
             call == [reader[r] EXCEPT !.doc = Null, !.parse = d.parse,
                         !.pc = IF hit THEN "some" ELSE "init",
                         !.text = IF hit THEN Null ELSE d.text]
  <2>1. reader[r].pc = "read" /\ d \in Document /\ d.parse < next_revision
    BY <1>2, <1>r, <1>o DEF ParseRead
  <2>2. CASE ~ d.open
    BY <1>2, <2>1, <2>2, FailShape DEF ParseRead
  <2>3. CASE d.open
    <3>1. d.parse \in Revision /\ d.text \in Text
      BY <2>1 DEF Document
    <3>2. /\ call \in ReaderState /\ call.pc = (IF hit THEN "some" ELSE "init")
          /\ call.uri = reader[r].uri /\ call.parse = d.parse
          /\ call.text = IF hit THEN Null ELSE d.text
      BY <1>r, <3>1 DEF ReaderState
    <3>3. /\ reader' = [reader EXCEPT ![r] = call]
          /\ UNCHANGED << next_revision, documents, heap, cell, editor, overlay, since >>
      BY <1>2, <2>3 DEF ParseRead, store, Shape, TypeOK
    <3> HIDE DEF call
    <3> QED
      BY <1>r, <1>c, <2>1, <3>1, <3>2, <3>3, ReaderWritten DEF Shape, TypeOK
  <2> QED
    BY <2>2, <2>3
<1>3. CASE InitBegin(r)
  <2> DEFINE call == [reader[r] EXCEPT !.pc = "parsing"]
  <2>1. /\ call \in ReaderState /\ call.pc = "parsing" /\ call.uri = reader[r].uri
        /\ call.parse = reader[r].parse /\ call.text = reader[r].text
    BY <1>r DEF ReaderState
  <2>2. /\ reader[r].pc = "init" /\ reader' = [reader EXCEPT ![r] = call]
        /\ UNCHANGED << next_revision, documents, heap, cell, editor, overlay, since >>
    BY <1>3 DEF InitBegin, store, Shape, TypeOK
  <2> HIDE DEF call
  <2> QED
    BY <1>r, <1>c, <2>1, <2>2, ReaderWritten DEF Shape, TypeOK
<1>4. CASE InitEnd(r) \/ InitJoin(r)
  <2> DEFINE call == [reader[r] EXCEPT !.pc = "again", !.text = Null]
  <2>1. /\ call \in ReaderState /\ call.pc = "again" /\ call.uri = reader[r].uri
        /\ call.parse = reader[r].parse
    BY <1>r DEF ReaderState
  <2>2. /\ reader[r].pc \in {"init", "parsing"} /\ reader' = [reader EXCEPT ![r] = call]
        /\ UNCHANGED << next_revision, documents, heap, editor, overlay, since >>
        /\ cell' = cell \/ cell' = [cell EXCEPT ![reader[r].parse] = reader[r].text]
    BY <1>4 DEF InitEnd, InitJoin, store, Shape, TypeOK
  <2>3. /\ cell' \in [Revision -> Text \cup {Null}]
        /\ \A c \in Revision : cell'[c] # Null => c < next_revision
    BY <1>r, <1>c, <2>2 DEF Shape, TypeOK
  <2> HIDE DEF call
  <2> QED
    BY <1>r, <2>1, <2>2, <2>3, ReaderWritten DEF Shape, TypeOK
<1>5. CASE Recheck(r)
  <2>1. CASE IsCurrent(heap[reader[r].doc], reader[r].parse)
    <3> DEFINE call == [reader[r] EXCEPT !.pc = "some", !.doc = Null]
    <3>1. /\ call \in ReaderState /\ call.pc = "some" /\ call.uri = reader[r].uri
          /\ call.parse = reader[r].parse
      BY <1>r DEF ReaderState
    <3>2. /\ reader[r].pc = "recheck" /\ reader' = [reader EXCEPT ![r] = call]
          /\ UNCHANGED << next_revision, documents, heap, cell, editor, overlay, since >>
      BY <1>5, <2>1 DEF Recheck, store, Shape, TypeOK
    <3> HIDE DEF call
    <3> QED
      BY <1>r, <1>c, <3>1, <3>2, ReaderWritten DEF Shape, TypeOK
  <2>2. CASE ~ IsCurrent(heap[reader[r].doc], reader[r].parse)
    BY <1>5, <2>2, FailShape DEF Recheck
  <2> QED
    BY <2>1, <2>2
<1>6. CASE Commit(r) \/ Drop(r)
  <2>1. /\ reader' = [reader EXCEPT ![r] = ReaderIdle]
        /\ UNCHANGED << next_revision, documents, heap, cell, editor >>
        /\ since' \in [Reader -> SUBSET (Revision \cup {Null})]
    BY <1>6 DEF Commit, Drop, store, Shape, TypeOK
  <2>2. ReaderIdle \in ReaderState /\ ReaderIdle.pc = "idle"
    BY IdleTypes DEF ReaderIdle
  <2>3. overlay' \in [Uri -> [version : Version, parse : Revision] \cup {Null}]
    <3>1. CASE Commit(r)
      <4>1. /\ heap[reader[r].doc] \in Document /\ reader[r].uri \in Uri
            /\ reader[r].parse \in Revision
        BY <1>r, <1>o, <3>1 DEF Commit
      <4>2. [version |-> heap[reader[r].doc].version, parse |-> reader[r].parse]
              \in [version : Version, parse : Revision]
        BY <4>1 DEF Document
      <4> QED
        BY <3>1, <4>2 DEF Commit, Shape, TypeOK
    <3>2. CASE Drop(r)
      BY <3>2 DEF Drop, Shape, TypeOK
    <3> QED
      BY <1>6, <3>1, <3>2
  <2> QED
    BY <1>c, <2>1, <2>2, <2>3, ReaderWritten DEF Shape, TypeOK
<1> QED
  BY <1>1, <1>2, <1>3, <1>4, <1>5, <1>6 DEF ReaderStep

(* A call of parse_result keeps the shape.                                   *)
LEMMA CallShape ==
    ASSUME Shape, NEW r \in Reader, NEW u \in Uri, NEW n \in 1 .. 2, ParseResult(r, u, n)
    PROVE  Shape'
<1> DEFINE call == [pc |-> "lookup", uri |-> u, doc |-> Null, parse |-> Null,
                    text |-> Null, attempts |-> n, attempt |-> 1]
<1>1. call \in ReaderState /\ call.pc = "lookup" /\ call.uri = u
  BY DEF ReaderState
<1>2. Live(u) \in Revision \cup {Null}
  <2>1. documents[u] # Null => heap[documents[u]] \in Document
    BY DEF Shape, Allocated, Objects
  <2>2. documents[u] # Null => heap[documents[u]].parse \in Revision
    BY <2>1 DEF Document
  <2> QED
    BY <2>2 DEF Live, LiveIn
<1>3. /\ reader' = [reader EXCEPT ![r] = call]
      /\ UNCHANGED << next_revision, documents, heap, cell, editor, overlay >>
      /\ since' \in [Reader -> SUBSET (Revision \cup {Null})]
  BY <1>2 DEF ParseResult, store, Shape, TypeOK
<1> HIDE DEF call
<1> QED
  BY <1>1, <1>3, ReaderWritten DEF Shape, TypeOK, Allocated

(* The shape is inductive.                                                   *)
LEMMA NextShape == Shape /\ [Next]_vars => Shape'
<1> SUFFICES ASSUME Shape, [Next]_vars PROVE Shape'
  OBVIOUS
<1>1. CASE Next
  BY <1>1, EditorShape, ReaderShape, CallShape DEF Next
<1>2. CASE UNCHANGED vars
  BY <1>2 DEF vars, Shape, TypeOK, Allocated, EditorsHold, ReadersHold, Objects
<1> QED
  BY <1>1, <1>2

(* Every variable of the store keeps to its type, for any number of actors,  *)
(* and calls in progress remember what the code's locals hold.               *)
THEOREM TypeCorrect == Spec => []TypeOK
<1>1. Shape => TypeOK
  BY DEF Shape
<1> QED
  BY <1>1, InitShape, NextShape, PTL DEF Spec

-----------------------------------------------------------------------------
(* Pairing: from the shape, cells have one owner and hold its text.          *)

Pairing == CellsOwned /\ TextsHeld /\ Filled

(* A state new under a revision just drawn owns a cell nobody knows yet.     *)
LEMMA FreshPairing ==
    ASSUME Shape, Pairing, NEW d \in Revision, NEW new \in Document,
           next_revision \in Revision, new.parse = next_revision,
           heap' = [heap EXCEPT ![d] = new], UNCHANGED << cell, reader >>
    PROVE  Pairing'
<1>1. /\ Objects' = Objects \cup {d}
      /\ heap'[d] = new
      /\ \A x \in Objects \ {d} : heap'[x] = heap[x]
  BY HeapWrite DEF Shape
<1>2. \A x \in Objects : heap[x].parse # next_revision
  <2>1. \A x \in Objects : heap[x].parse < next_revision /\ heap[x].parse \in Nat
    BY DEF Shape, Allocated, Objects, Document, Revision
  <2> QED
    BY <2>1
<1>3. cell[next_revision] = Null
  <2>1. ~ (next_revision < next_revision)
    BY DEF Revision
  <2> QED
    BY <2>1 DEF Shape, Allocated
<1>4. \A r \in Reader : reader[r].pc \in {"init", "parsing"} => reader[r].parse # next_revision
  <2>1. \A r \in Reader : reader[r].pc \in {"init", "parsing"}
                          => reader[r].parse < next_revision /\ reader[r].parse \in Nat
    BY DEF Shape, ReadersHold, Revision
  <2> QED
    BY <2>1
<1>5. CellsOwned'
  BY <1>1, <1>2 DEF Pairing, CellsOwned
<1>6. TextsHeld'
  BY <1>1, <1>4 DEF Pairing, TextsHeld
<1>7. Filled'
  BY <1>1, <1>3 DEF Pairing, Filled
<1> QED
  BY <1>5, <1>6, <1>7 DEF Pairing

(* Clearing a flag changes neither text nor cell of any object.              *)
LEMMA FlagPairing ==
    ASSUME Shape, Pairing, NEW d \in Objects, heap' = [heap EXCEPT ![d].open = FALSE],
           UNCHANGED << cell, reader >>
    PROVE  Pairing'
<1>1. /\ Objects' = Objects
      /\ \A x \in Objects : heap'[x].parse = heap[x].parse /\ heap'[x].text = heap[x].text
  BY DEF Shape, TypeOK, Objects, Document
<1> QED
  BY <1>1 DEF Pairing, CellsOwned, TextsHeld, Filled

(* A step that writes one reader's call keeps the pairing when what the call *)
(* is about to parse is the text of the object it read.                      *)
LEMMA ReaderPairing ==
    ASSUME Shape, Pairing, NEW r \in Reader, NEW call,
           reader' = [reader EXCEPT ![r] = call], UNCHANGED << heap, cell >>,
           \A d \in Objects : call.pc \in {"init", "parsing"} /\ heap[d].parse = call.parse
                              => heap[d].text = call.text
    PROVE  Pairing'
<1>1. Objects' = Objects
  BY DEF Objects
<1> QED
  BY <1>1 DEF Pairing, CellsOwned, TextsHeld, Filled, Shape, TypeOK

(* A failed attempt is about to parse nothing.                               *)
LEMMA FailPairing ==
    ASSUME Shape, Pairing, NEW r \in Reader, Fail(r)
    PROVE  Pairing'
<1>1. Failed(reader[r]).pc \in {"idle", "lookup"}
  BY DEF Failed, ReaderIdle
<1>2. reader' = [reader EXCEPT ![r] = Failed(reader[r])] /\ UNCHANGED << heap, cell >>
  BY DEF Fail, store
<1> QED
  BY <1>1, <1>2, ReaderPairing

(* Every step keeps the pairing.                                             *)
LEMMA NextPairing == Shape /\ Pairing /\ [Next]_vars => Pairing'
<1> SUFFICES ASSUME Shape, Pairing, [Next]_vars PROVE Pairing'
  OBVIOUS
<1>a. ASSUME UNCHANGED << heap, cell, reader >> PROVE Pairing'
  BY <1>a DEF Pairing, CellsOwned, TextsHeld, Filled, Objects
<1>1. ASSUME NEW e \in Editor, EditorCall(e) \/ EditorStep(e) PROVE Pairing'
  <2>e. editor[e].pc \in {"retire", "edit", "flag"} => editor[e].doc \in Objects
    BY DEF Shape, EditorsHold
  <2>1. CASE \E u \in Uri, v \in Version, t \in Text : Open(e, u, v, t)
    <3>1. PICK u \in Uri, v \in Version, t \in Text : Open(e, u, v, t)
      BY <2>1
    <3> DEFINE new == [open |-> TRUE, version |-> v, text |-> t,
                       revision |-> next_revision, parse |-> next_revision]
    <3>2. next_revision \in Revision
      BY DEF Shape, TypeOK, Revision
    <3>3. new \in Document /\ new.parse = next_revision
      BY <3>2 DEF Document
    <3>4. heap' = [heap EXCEPT ![next_revision] = new] /\ UNCHANGED << cell, reader >>
      BY <3>1 DEF Open
    <3> HIDE DEF new
    <3> QED
      BY <3>2, <3>3, <3>4, FreshPairing
  <2>2. CASE ChangeEdit(e) /\ heap[editor[e].doc].open
    <3> DEFINE d == editor[e].doc
               new == Edited(heap[d], editor[e].version, editor[e].text)
    <3>1. d \in Objects /\ editor[e].version \in Version /\ editor[e].text \in Text
      BY <2>2 DEF ChangeEdit, Shape, EditorsHold
    <3>2. next_revision \in Revision /\ d \in Revision
      BY <3>1 DEF Shape, TypeOK, Revision, Objects
    <3>3. new \in Document /\ new.parse = next_revision
      BY <3>1, <3>2 DEF Edited, Document, Objects
    <3>4. heap' = [heap EXCEPT ![d] = new] /\ UNCHANGED << cell, reader >>
      BY <2>2 DEF ChangeEdit
    <3> HIDE DEF new
    <3> QED
      BY <3>2, <3>3, <3>4, FreshPairing
  <2>3. CASE OpenRetire(e) \/ CloseFlag(e)
    <3>1. editor[e].doc \in Objects
      BY <2>3, <2>e DEF OpenRetire, CloseFlag
    <3> QED
      BY <2>3, <3>1, FlagPairing DEF OpenRetire, CloseFlag
  <2>4. CASE \/ \E u \in Uri, v \in Version, t \in Text : Change(e, u, v, t)
             \/ \E u \in Uri : Close(e, u)
             \/ OpenInsert(e) \/ CloseRemove(e) \/ CloseBump(e)
             \/ ChangeEdit(e) /\ ~ heap[editor[e].doc].open
    BY <2>4, <1>a DEF Change, Close, OpenInsert, CloseRemove, CloseBump, ChangeEdit
  <2> QED
    BY <1>1, <2>1, <2>2, <2>3, <2>4 DEF EditorCall, EditorStep
<1>2. ASSUME NEW r \in Reader, ReaderStep(r) PROVE Pairing'
  <2>1. ASSUME NEW from, NEW to, Lookup(r, from, to), to \in {"read", "recheck", "commit"}
        PROVE  Pairing'
    <3>1. CASE documents[reader[r].uri] = Null
      BY <2>1, <3>1, FailPairing DEF Lookup
    <3>2. CASE documents[reader[r].uri] # Null
      <4> DEFINE call == [reader[r] EXCEPT !.pc = to, !.doc = documents[reader[r].uri]]
      <4>1. reader' = [reader EXCEPT ![r] = call] /\ UNCHANGED << heap, cell >>
        BY <2>1, <3>2 DEF Lookup, store, Shape, TypeOK
      <4>2. call.pc = to
        BY DEF Shape, TypeOK, ReaderState
      <4> HIDE DEF call
      <4> QED
        BY <2>1, <4>1, <4>2, ReaderPairing
    <3> QED
      BY <3>1, <3>2
  <2>2. CASE ParseRead(r)
    <3> DEFINE d == heap[reader[r].doc]
               hit == cell[d.parse] # Null
               call == [reader[r] EXCEPT !.doc = Null, !.parse = d.parse,
                           !.pc = IF hit THEN "some" ELSE "init",
                           !.text = IF hit THEN Null ELSE d.text]
    <3>1. reader[r].doc \in Objects
      BY <2>2 DEF ParseRead, Shape, ReadersHold
    <3>2. CASE ~ d.open
      BY <2>2, <3>2, FailPairing DEF ParseRead
    <3>3. CASE d.open
      <4>1. reader' = [reader EXCEPT ![r] = call] /\ UNCHANGED << heap, cell >>
        BY <2>2, <3>3 DEF ParseRead, store, Shape, TypeOK
      <4>2. /\ call.pc = (IF hit THEN "some" ELSE "init")
            /\ call.parse = d.parse /\ call.text = (IF hit THEN Null ELSE d.text)
        BY DEF Shape, TypeOK, ReaderState
      <4> HIDE DEF call
      <4>3. \A x \in Objects : call.pc \in {"init", "parsing"} /\ heap[x].parse = call.parse
                               => heap[x].text = call.text
        BY <3>1, <4>2 DEF Pairing, CellsOwned
      <4> QED
        BY <4>1, <4>3, ReaderPairing
    <3> QED
      BY <3>2, <3>3
  <2>3. CASE InitBegin(r)
    <3> DEFINE call == [reader[r] EXCEPT !.pc = "parsing"]
    <3>1. reader[r].pc = "init" /\ reader' = [reader EXCEPT ![r] = call]
          /\ UNCHANGED << heap, cell >>
      BY <2>3 DEF InitBegin, store, Shape, TypeOK
    <3>2. call.parse = reader[r].parse /\ call.text = reader[r].text
      BY DEF Shape, TypeOK, ReaderState
    <3> HIDE DEF call
    <3>3. \A d \in Objects : heap[d].parse = call.parse => heap[d].text = call.text
      BY <3>1, <3>2 DEF Pairing, TextsHeld
    <3> QED
      BY <3>1, <3>3, ReaderPairing
  <2>4. CASE InitEnd(r)
    <3>1. /\ reader[r].pc = "parsing" /\ reader[r].parse \in Revision
          /\ cell' = [cell EXCEPT ![reader[r].parse] = reader[r].text]
          /\ heap' = heap /\ Objects' = Objects
      BY <2>4 DEF InitEnd, store, Shape, ReadersHold, Objects
    <3>2. \A x \in Reader : reader'[x].pc \in {"init", "parsing"} => reader'[x] = reader[x]
      BY <2>4 DEF InitEnd, Shape, TypeOK, ReaderState
    <3>3. CellsOwned' /\ TextsHeld'
      BY <3>1, <3>2 DEF Pairing, CellsOwned, TextsHeld
    <3>4. Filled'
      BY <3>1 DEF Pairing, TextsHeld, Filled, Shape, TypeOK
    <3> QED
      BY <3>3, <3>4 DEF Pairing
  <2>5. CASE InitJoin(r)
    <3> DEFINE call == [reader[r] EXCEPT !.pc = "again", !.text = Null]
    <3>1. reader' = [reader EXCEPT ![r] = call] /\ UNCHANGED << heap, cell >>
      BY <2>5 DEF InitJoin, store, Shape, TypeOK
    <3>2. call.pc = "again"
      BY DEF Shape, TypeOK, ReaderState
    <3> HIDE DEF call
    <3> QED
      BY <3>1, <3>2, ReaderPairing
  <2>6. CASE Recheck(r)
    <3>1. CASE ~ IsCurrent(heap[reader[r].doc], reader[r].parse)
      BY <2>6, <3>1, FailPairing DEF Recheck
    <3>2. CASE IsCurrent(heap[reader[r].doc], reader[r].parse)
      <4> DEFINE call == [reader[r] EXCEPT !.pc = "some", !.doc = Null]
      <4>1. reader' = [reader EXCEPT ![r] = call] /\ UNCHANGED << heap, cell >>
        BY <2>6, <3>2 DEF Recheck, store, Shape, TypeOK
      <4>2. call.pc = "some"
        BY DEF Shape, TypeOK, ReaderState
      <4> HIDE DEF call
      <4> QED
        BY <4>1, <4>2, ReaderPairing
    <3> QED
      BY <3>1, <3>2
  <2>7. CASE Commit(r) \/ Drop(r)
    <3>1. reader' = [reader EXCEPT ![r] = ReaderIdle] /\ UNCHANGED << heap, cell >>
      BY <2>7 DEF Commit, Drop, store
    <3>2. ReaderIdle.pc = "idle"
      BY DEF ReaderIdle
    <3> QED
      BY <3>1, <3>2, ReaderPairing
  <2> QED
    BY <1>2, <2>1, <2>2, <2>3, <2>4, <2>5, <2>6, <2>7 DEF ReaderStep, LookupToCommit
<1>3. ASSUME NEW r \in Reader, NEW u \in Uri, NEW n \in 1 .. 2, ParseResult(r, u, n)
      PROVE  Pairing'
  <2> DEFINE call == [pc |-> "lookup", uri |-> u, doc |-> Null, parse |-> Null,
                      text |-> Null, attempts |-> n, attempt |-> 1]
  <2>1. reader' = [reader EXCEPT ![r] = call] /\ UNCHANGED << heap, cell >>
    BY <1>3 DEF ParseResult, store
  <2>2. call.pc = "lookup"
    OBVIOUS
  <2> HIDE DEF call
  <2> QED
    BY <2>1, <2>2, ReaderPairing
<1>4. CASE UNCHANGED vars
  BY <1>4, <1>a DEF vars
<1> QED
  BY <1>1, <1>2, <1>3, <1>4 DEF Next

(* The initial state pairs texts and parses.                                 *)
LEMMA InitPairing == Init => Pairing
<1> SUFFICES ASSUME Init PROVE Pairing
  OBVIOUS
<1>1. Objects = {}
  BY NullAssumption DEF Init, Objects
<1> QED
  BY <1>1 DEF Pairing, CellsOwned, TextsHeld, Filled

(* A buffer's text and the parse in its cell are of one revision, in every   *)
(* reachable state: no reader pairs a text with another version's AST.       *)
THEOREM TextMatchesParse == Spec => []Paired
<1>1. Shape /\ Pairing => Paired
  BY DEF Shape, TypeOK, Pairing, Filled, Paired, Objects
<1> QED
  BY <1>1, InitShape, NextShape, InitPairing, NextPairing, PTL DEF Spec

-----------------------------------------------------------------------------
(* Where an object that is open can be found.                                *)

(* The object is the entry of the URI, or an open of the URI replaced it.    *)
At(u, d) ==
    \/ documents[u] = d
    \/ \E e \in Editor : editor[e].pc = "retire" /\ editor[e].uri = u /\ editor[e].doc = d

(* An object is the entry of one URI.                                        *)
EntriesOwned ==
    \A u, v \in Uri : documents[u] # Null /\ documents[u] = documents[v] => u = v

Holding == {"insert", "retire", "edit", "flag", "remove"}

(* Nobody else has seen an object that is not in the map yet.                *)
Unseen ==
    \A e \in Editor :
        editor[e].pc = "insert"
        => /\ heap[editor[e].doc].open /\ heap[editor[e].doc].parse = editor[e].doc
           /\ \A u \in Uri : documents[u] # editor[e].doc
           /\ \A f \in Editor \ {e} : editor[f].pc \in Holding => editor[f].doc # editor[e].doc

(* An object is replaced once, and is in the map no more.                    *)
Replaced ==
    \A e \in Editor :
        editor[e].pc = "retire"
        => /\ \A u \in Uri : documents[u] # editor[e].doc
           /\ \A f \in Editor \ {e} : editor[f].pc = "retire" => editor[f].doc # editor[e].doc

(* What an editor looked up is still there while it is open.                 *)
EditorsPlaced ==
    \A e \in Editor :
        /\ editor[e].pc \in {"edit", "flag"} /\ heap[editor[e].doc].open
           => At(editor[e].uri, editor[e].doc)
        /\ editor[e].pc = "remove" => ~ heap[editor[e].doc].open

(* And what a reader looked up.                                              *)
ReadersPlaced ==
    \A r \in Reader :
        reader[r].pc \in {"read", "recheck", "commit"} /\ heap[reader[r].doc].open
        => At(reader[r].uri, reader[r].doc)

Placed == EntriesOwned /\ Unseen /\ Replaced /\ EditorsPlaced /\ ReadersPlaced

(* A step that writes one editor's call loses track of no open object.       *)
LEMMA PlacesKept ==
    ASSUME Shape, Placed, NEW e \in Editor, NEW call,
           reader' = reader, editor' = [editor EXCEPT ![e] = call],
           \A d \in Objects : heap'[d].open => heap[d].open,
           \A u \in Uri, d \in Objects : At(u, d) /\ heap'[d].open => At(u, d)',
           call.pc \in {"edit", "flag"} /\ heap'[call.doc].open => At(call.uri, call.doc)',
           call.pc = "remove" => ~ heap'[call.doc].open
    PROVE  EditorsPlaced' /\ ReadersPlaced'
<1>1. EditorsPlaced'
  <2> SUFFICES ASSUME NEW f \in Editor
               PROVE  /\ editor'[f].pc \in {"edit", "flag"} /\ heap'[editor'[f].doc].open
                         => At(editor[f].uri, editor[f].doc)'
                      /\ editor'[f].pc = "remove" => ~ heap'[editor'[f].doc].open
    BY DEF EditorsPlaced
  <2>1. CASE f = e
    <3>1. editor'[f] = call
      BY <2>1 DEF Shape, TypeOK
    <3> QED
      BY <3>1 DEF At
  <2>2. CASE f # e
    <3>1. editor'[f] = editor[f]
      BY <2>2 DEF Shape, TypeOK
    <3>2. editor[f].pc \in {"edit", "flag", "remove"}
          => editor[f].doc \in Objects /\ editor[f].uri \in Uri
      BY DEF Shape, EditorsHold
    <3> QED
      BY <3>1, <3>2 DEF Placed, EditorsPlaced, At
  <2> QED
    BY <2>1, <2>2
<1>2. ReadersPlaced'
  <2>1. \A r \in Reader : reader[r].pc \in {"read", "recheck", "commit"}
                          => reader[r].doc \in Objects /\ reader[r].uri \in Uri
    BY DEF Shape, ReadersHold
  <2> QED
    BY <2>1 DEF Placed, ReadersPlaced, At
<1> QED
  BY <1>1, <1>2

(* An edit, or a flag that is cleared, touches nothing nobody has seen.      *)
LEMMA UnseenKept ==
    ASSUME Shape, Placed, NEW e \in Editor, NEW call, NEW d \in Revision, NEW new,
           editor[e].pc \in Holding \ {"insert"}, editor[e].doc = d,
           call.pc \in {"idle", "remove"}, call.doc \in {d, Null},
           editor' = [editor EXCEPT ![e] = call], heap' = [heap EXCEPT ![d] = new],
           documents' = documents
    PROVE  EntriesOwned' /\ Unseen' /\ Replaced'
<1>1. \A f \in Editor : editor'[f] = IF f = e THEN call ELSE editor[f]
  BY DEF Shape, TypeOK
<1>2. EntriesOwned'
  BY DEF Placed, EntriesOwned
<1>3. Unseen'
  <2> SUFFICES ASSUME NEW f \in Editor, editor'[f].pc = "insert"
               PROVE  /\ heap'[editor'[f].doc].open /\ heap'[editor'[f].doc].parse = editor'[f].doc
                      /\ \A u \in Uri : documents'[u] # editor'[f].doc
                      /\ \A g \in Editor \ {f} : editor'[g].pc \in Holding
                                                 => editor'[g].doc # editor'[f].doc
    BY DEF Unseen
  <2>1. f # e /\ editor'[f] = editor[f]
    BY <1>1
  <2>2. editor[f].doc # d
    BY <2>1 DEF Placed, Unseen, Holding
  <2>3. heap'[editor[f].doc] = heap[editor[f].doc]
    BY <2>1, <2>2 DEF Shape, TypeOK, EditorsHold, Objects
  <2>4. \A g \in Editor \ {f} : editor'[g].pc \in Holding => editor'[g].doc # editor[f].doc
    <3> SUFFICES ASSUME NEW g \in Editor \ {f}, editor'[g].pc \in Holding
                 PROVE  editor'[g].doc # editor[f].doc
      OBVIOUS
    <3>1. CASE g = e
      <4>1. call.pc = "remove" => call.doc \in {d, Null}
        OBVIOUS
      <4>2. editor[f].doc # Null
        BY <2>1, NullAssumption DEF Shape, EditorsHold, Objects, Revision
      <4> QED
        BY <1>1, <2>2, <3>1, <4>1, <4>2
    <3>2. CASE g # e
      BY <1>1, <2>1, <3>2 DEF Placed, Unseen
    <3> QED
      BY <3>1, <3>2
  <2> QED
    BY <2>1, <2>3, <2>4 DEF Placed, Unseen
<1>4. Replaced'
  BY <1>1 DEF Placed, Replaced
<1> QED
  BY <1>2, <1>3, <1>4

(* Every step of an editor keeps the objects placed.                         *)
LEMMA EditorPlaces ==
    ASSUME Shape, Placed, NEW e \in Editor, EditorCall(e) \/ EditorStep(e)
    PROVE  Placed'
<1>e. /\ editor[e].pc # "idle" => editor[e].uri \in Uri
      /\ editor[e].pc \in Holding => editor[e].doc \in Objects
      /\ editor[e] \in EditorState
  BY DEF Shape, TypeOK, EditorsHold, Holding
<1>o. \A d \in Objects : d \in Revision /\ d < next_revision /\ d # Null /\ heap[d] \in Document
  BY NullAssumption DEF Shape, Allocated, Objects, Revision
<1>u. \A u \in Uri : documents[u] # Null => documents[u] \in Objects
  BY DEF Shape, Allocated
<1>f. \A f \in Editor : editor[f].pc \in Holding => editor[f].doc \in Objects
  BY DEF Shape, EditorsHold, Holding
<1>1. ASSUME NEW u \in Uri, NEW v \in Version, NEW t \in Text, Open(e, u, v, t)
      PROVE  Placed'
  <2> DEFINE n == next_revision
             new == [open |-> TRUE, version |-> v, text |-> t, revision |-> n, parse |-> n]
             call == [EditorIdle EXCEPT !.pc = "insert", !.uri = u, !.doc = n]
  <2>1. n \in Revision /\ n \notin Objects /\ n # Null
    BY <1>o, NullAssumption DEF Shape, TypeOK, Revision
  <2>2. /\ heap' = [heap EXCEPT ![n] = new] /\ editor' = [editor EXCEPT ![e] = call]
        /\ editor[e].pc = "idle" /\ documents' = documents /\ reader' = reader
    BY <1>1 DEF Open
  <2>3. call.pc = "insert" /\ call.doc = n /\ new.open /\ new.parse = n
    BY DEF EditorIdle
  <2> HIDE DEF call, new, n
  <2>4. heap'[n] = new /\ \A d \in Objects : heap'[d] = heap[d]
    BY <2>1, <2>2 DEF Shape, TypeOK
  <2>5. \A f \in Editor : editor'[f] = IF f = e THEN call ELSE editor[f]
    BY <2>2 DEF Shape, TypeOK
  <2>6. EntriesOwned'
    BY <2>2 DEF Placed, EntriesOwned
  <2>7. Unseen'
    <3>1. \A x \in Uri : documents[x] # n
      BY <1>u, <2>1
    <3>2. \A f \in Editor \ {e} : editor[f].pc \in Holding => editor[f].doc # n
      BY <1>f, <2>1
    <3>3. \A f \in Editor \ {e} : editor[f].pc = "insert"
             => heap'[editor[f].doc] = heap[editor[f].doc] /\ editor[f].doc # n
      BY <1>f, <2>1, <2>4 DEF Holding
    <3> QED
      BY <2>2, <2>3, <2>4, <2>5, <3>1, <3>2, <3>3 DEF Placed, Unseen
  <2>8. Replaced'
    BY <2>2, <2>3, <2>5 DEF Placed, Replaced
  <2>9. \A x \in Uri, d \in Objects : At(x, d) => At(x, d)'
    BY <2>2, <2>5 DEF At
  <2> QED
    BY <2>2, <2>3, <2>4, <2>6, <2>7, <2>8, <2>9, PlacesKept DEF Placed
<1>2. ASSUME NEW u \in Uri, NEW call, documents[u] # Null, editor[e].pc = "idle",
             call.pc \in {"edit", "flag"}, call.uri = u, call.doc = documents[u],
             editor' = [editor EXCEPT ![e] = call], UNCHANGED << documents, heap, reader >>
      PROVE  Placed'
  <2>1. \A f \in Editor : editor'[f] = IF f = e THEN call ELSE editor[f]
    BY <1>2 DEF Shape, TypeOK
  <2>2. EntriesOwned' /\ Unseen' /\ Replaced'
    BY <1>2, <2>1 DEF Placed, EntriesOwned, Unseen, Replaced
  <2>3. \A x \in Uri, d \in Objects : At(x, d) => At(x, d)'
    BY <1>2, <2>1 DEF At
  <2>4. At(call.uri, call.doc)'
    BY <1>2 DEF At
  <2> QED
    BY <1>2, <2>2, <2>3, <2>4, PlacesKept DEF Placed
<1>3. CASE OpenInsert(e)
  <2> DEFINE u == editor[e].uri
             d == editor[e].doc
             call == IF documents[u] = Null THEN EditorIdle
                     ELSE [editor[e] EXCEPT !.pc = "retire", !.doc = documents[u]]
  <2>1. /\ editor[e].pc = "insert" /\ u \in Uri /\ d \in Objects
        /\ documents' = [documents EXCEPT ![u] = d]
        /\ editor' = [editor EXCEPT ![e] = call]
        /\ heap' = heap /\ reader' = reader
    BY <1>3, <1>e DEF OpenInsert, Holding
  <2>2. /\ documents[u] = Null => call.pc = "idle"
        /\ documents[u] # Null => call.pc = "retire" /\ call.uri = u /\ call.doc = documents[u]
    BY <1>e DEF EditorIdle, EditorState
  <2> HIDE DEF call
  <2>3. \A f \in Editor : editor'[f] = IF f = e THEN call ELSE editor[f]
    BY <2>1 DEF Shape, TypeOK
  <2>4. \A x \in Uri : documents'[x] = IF x = u THEN d ELSE documents[x]
    BY <2>1 DEF Shape, TypeOK
  <2>5. /\ \A x \in Uri : documents[x] # d
        /\ \A f \in Editor \ {e} : editor[f].pc \in Holding => editor[f].doc # d
    BY <2>1 DEF Placed, Unseen
  <2>6. EntriesOwned'
    BY <2>4, <2>5 DEF Placed, EntriesOwned
  <2>7. Unseen'
    <3> SUFFICES ASSUME NEW f \in Editor, editor'[f].pc = "insert"
                 PROVE  /\ heap'[editor'[f].doc].open
                        /\ heap'[editor'[f].doc].parse = editor'[f].doc
                        /\ \A x \in Uri : documents'[x] # editor'[f].doc
                        /\ \A g \in Editor \ {f} : editor'[g].pc \in Holding
                                                   => editor'[g].doc # editor'[f].doc
      BY DEF Unseen
    <3>1. f # e /\ editor'[f] = editor[f] /\ editor[f].pc = "insert"
      BY <2>2, <2>3
    <3>2. editor[f].doc # d
      BY <2>5, <3>1 DEF Holding
    <3>3. \A x \in Uri : documents'[x] # editor[f].doc
      BY <2>4, <3>1, <3>2 DEF Placed, Unseen
    <3>4. \A g \in Editor \ {f} : editor'[g].pc \in Holding => editor'[g].doc # editor[f].doc
      BY <2>1, <2>2, <2>3, <3>1 DEF Placed, Unseen, Holding
    <3> QED
      BY <2>1, <3>1, <3>3, <3>4 DEF Placed, Unseen
  <2>8. Replaced'
    <3>1. \A f \in Editor \ {e} : editor[f].pc = "retire"
             => /\ \A x \in Uri : documents'[x] # editor[f].doc
                /\ documents[u] # editor[f].doc
      BY <2>1, <2>4, <2>5 DEF Placed, Replaced, Holding
    <3>2. documents[u] # Null => \A x \in Uri : documents'[x] # documents[u]
      BY <2>1, <2>4, <2>5 DEF Placed, EntriesOwned
    <3> QED
      BY <2>1, <2>2, <2>3, <3>1, <3>2 DEF Placed, Replaced
  <2>9. \A x \in Uri, o \in Objects : At(x, o) => At(x, o)'
    <3> SUFFICES ASSUME NEW x \in Uri, NEW o \in Objects, At(x, o) PROVE At(x, o)'
      OBVIOUS
    <3>1. CASE documents[x] = o /\ x = u
      BY <1>o, <2>2, <2>3, <3>1 DEF At
    <3>2. CASE documents[x] = o /\ x # u
      BY <2>4, <3>2 DEF At
    <3>3. CASE documents[x] # o
      BY <2>1, <2>3, <3>3 DEF At
    <3> QED
      BY <3>1, <3>2, <3>3
  <2> QED
    BY <2>1, <2>2, <2>6, <2>7, <2>8, <2>9, PlacesKept DEF Placed
<1>4. CASE OpenRetire(e) \/ CloseFlag(e)
  <2> DEFINE d == editor[e].doc
             new == [heap[d] EXCEPT !.open = FALSE]
             call == IF editor[e].pc = "retire" THEN EditorIdle
                     ELSE [editor[e] EXCEPT !.pc = "remove"]
  <2>1. editor[e].pc \in {"retire", "flag"} /\ d \in Objects
    BY <1>4, <1>e DEF OpenRetire, CloseFlag, Holding
  <2>2. /\ heap' = [heap EXCEPT ![d] = new] /\ editor' = [editor EXCEPT ![e] = call]
        /\ UNCHANGED << documents, reader >>
    BY <1>4, <1>o, <2>1 DEF OpenRetire, CloseFlag, Shape, TypeOK
  <2>3. /\ ~ new.open
        /\ editor[e].pc = "retire" => call.pc = "idle" /\ call.doc = Null
        /\ editor[e].pc = "flag" => call.pc = "remove" /\ call.doc = d
    BY <1>e, <1>o, <2>1 DEF EditorIdle, EditorState, Document
  <2> HIDE DEF call, new
  <2>4. EntriesOwned' /\ Unseen' /\ Replaced'
    BY <1>o, <2>1, <2>2, <2>3, UnseenKept DEF Holding
  <2>5. \A o \in Objects : heap'[o] = IF o = d THEN new ELSE heap[o]
    BY <1>o, <2>2 DEF Shape, TypeOK
  <2>6. \A f \in Editor : editor'[f] = IF f = e THEN call ELSE editor[f]
    BY <2>2 DEF Shape, TypeOK
  <2>7. \A x \in Uri, o \in Objects : At(x, o) /\ heap'[o].open => At(x, o)'
    BY <2>2, <2>3, <2>5, <2>6 DEF At
  <2> QED
    BY <2>1, <2>2, <2>3, <2>4, <2>5, <2>7, PlacesKept DEF Placed
<1>5. CASE ChangeEdit(e)
  <2> DEFINE d == editor[e].doc
             new == IF heap[d].open THEN Edited(heap[d], editor[e].version, editor[e].text)
                    ELSE heap[d]
  <2>1. editor[e].pc = "edit" /\ d \in Objects
    BY <1>5, <1>e DEF ChangeEdit, Holding
  <2>2. /\ heap' = [heap EXCEPT ![d] = new] /\ editor' = [editor EXCEPT ![e] = EditorIdle]
        /\ UNCHANGED << documents, reader >>
    BY <1>5, <1>o, <2>1 DEF ChangeEdit, Shape, TypeOK
  <2>3. new.open = heap[d].open /\ EditorIdle.pc = "idle" /\ EditorIdle.doc = Null
    BY DEF EditorIdle, Edited
  <2> HIDE DEF new
  <2>4. EntriesOwned' /\ Unseen' /\ Replaced'
    BY <1>o, <2>1, <2>2, <2>3, UnseenKept DEF Holding
  <2>5. \A o \in Objects : heap'[o].open = heap[o].open
    BY <1>o, <2>2, <2>3 DEF Shape, TypeOK
  <2>6. \A f \in Editor : editor'[f] = IF f = e THEN EditorIdle ELSE editor[f]
    BY <2>2 DEF Shape, TypeOK
  <2>7. \A x \in Uri, o \in Objects : At(x, o) => At(x, o)'
    BY <2>1, <2>2, <2>6 DEF At
  <2> QED
    BY <2>2, <2>3, <2>4, <2>5, <2>7, PlacesKept DEF Placed
<1>6. CASE CloseRemove(e) \/ CloseBump(e)
  <2> DEFINE u == editor[e].uri
             d == editor[e].doc
             call == IF editor[e].pc = "remove" THEN [editor[e] EXCEPT !.pc = "bump"]
                     ELSE EditorIdle
  <2>1. /\ editor' = [editor EXCEPT ![e] = call] /\ UNCHANGED << heap, reader >>
        /\ editor[e].pc \in {"remove", "bump"}
    BY <1>6 DEF CloseRemove, CloseBump, Shape, TypeOK
  <2>2. call.pc \in {"bump", "idle"}
    BY <1>e, <2>1 DEF EditorIdle, EditorState
  <2> HIDE DEF call
  <2>3. \A f \in Editor : editor'[f] = IF f = e THEN call ELSE editor[f]
    BY <2>1 DEF Shape, TypeOK
  <2>4. \A x \in Uri : \/ documents'[x] = documents[x]
                       \/ documents'[x] = Null /\ documents[x] = d /\ ~ heap[d].open
    BY <1>6 DEF CloseRemove, CloseBump, Shape, TypeOK, Placed, EditorsPlaced
  <2>5. EntriesOwned'
    BY <2>4 DEF Placed, EntriesOwned
  <2>6. Unseen'
    <3>1. \A f \in Editor : editor'[f].pc \in Holding
                            => f # e /\ editor'[f] = editor[f] /\ editor[f].doc # Null
      BY <1>f, <1>o, <2>2, <2>3 DEF Holding
    <3> QED
      BY <2>1, <2>4, <3>1 DEF Placed, Unseen, Holding
  <2>7. Replaced'
    <3>1. \A f \in Editor : editor'[f].pc = "retire"
                            => f # e /\ editor'[f] = editor[f] /\ editor[f].doc # Null
      BY <1>f, <1>o, <2>2, <2>3 DEF Holding
    <3> QED
      BY <2>4, <3>1 DEF Placed, Replaced
  <2>8. \A x \in Uri, o \in Objects : At(x, o) /\ heap'[o].open => At(x, o)'
    BY <2>1, <2>3, <2>4 DEF At
  <2> QED
    BY <2>1, <2>2, <2>5, <2>6, <2>7, <2>8, PlacesKept DEF Placed
<1>7. ASSUME NEW u \in Uri, NEW v \in Version, NEW t \in Text, Change(e, u, v, t)
      PROVE  Placed'
  <2> DEFINE call == [pc |-> "edit", uri |-> u, doc |-> documents[u],
                      version |-> v, text |-> t]
  <2>1. /\ documents[u] # Null /\ editor[e].pc = "idle"
        /\ editor' = [editor EXCEPT ![e] = call] /\ UNCHANGED << documents, heap, reader >>
    BY <1>7 DEF Change
  <2>2. call.pc = "edit" /\ call.uri = u /\ call.doc = documents[u]
    OBVIOUS
  <2> HIDE DEF call
  <2> QED
    BY <2>1, <2>2, <1>2
<1>8. ASSUME NEW u \in Uri, Close(e, u)
      PROVE  Placed'
  <2> DEFINE call == [EditorIdle EXCEPT !.pc = "flag", !.uri = u, !.doc = documents[u]]
  <2>1. /\ documents[u] # Null /\ editor[e].pc = "idle"
        /\ editor' = [editor EXCEPT ![e] = call] /\ UNCHANGED << documents, heap, reader >>
    BY <1>8 DEF Close
  <2>2. call.pc = "flag" /\ call.uri = u /\ call.doc = documents[u]
    BY DEF EditorIdle
  <2> HIDE DEF call
  <2> QED
    BY <2>1, <2>2, <1>2
<1> QED
  BY <1>1, <1>3, <1>4, <1>5, <1>6, <1>7, <1>8 DEF EditorCall, EditorStep

(* A step that writes one reader's call keeps the objects placed if what the *)
(* call holds is.                                                            *)
LEMMA ReaderPlaces ==
    ASSUME Shape, Placed, NEW r \in Reader, NEW call,
           reader' = [reader EXCEPT ![r] = call], UNCHANGED << documents, heap, editor >>,
           call.pc \in {"read", "recheck", "commit"} /\ heap[call.doc].open
              => At(call.uri, call.doc)
    PROVE  Placed'
<1>1. \A x \in Reader : reader'[x] = IF x = r THEN call ELSE reader[x]
  BY DEF Shape, TypeOK
<1>2. EntriesOwned' /\ Unseen' /\ Replaced' /\ EditorsPlaced'
  BY DEF Placed, EntriesOwned, Unseen, Replaced, EditorsPlaced, At
<1>3. ReadersPlaced'
  BY <1>1 DEF Placed, ReadersPlaced, At
<1> QED
  BY <1>2, <1>3 DEF Placed

(* Every step keeps the objects placed.                                      *)
LEMMA NextPlaced == Shape /\ Placed /\ [Next]_vars => Placed'
<1> SUFFICES ASSUME Shape, Placed, [Next]_vars PROVE Placed'
  OBVIOUS
<1>1. ASSUME NEW r \in Reader, Fail(r) PROVE Placed'
  <2>1. Failed(reader[r]).pc \in {"idle", "lookup"}
    BY DEF Failed, ReaderIdle
  <2>2. reader' = [reader EXCEPT ![r] = Failed(reader[r])]
        /\ UNCHANGED << documents, heap, editor >>
    BY <1>1 DEF Fail, store
  <2> QED
    BY <2>1, <2>2, ReaderPlaces
<1>2. ASSUME NEW r \in Reader, NEW from, NEW to, Lookup(r, from, to) PROVE Placed'
  <2>1. CASE documents[reader[r].uri] = Null
    BY <1>1, <1>2, <2>1 DEF Lookup
  <2>2. CASE documents[reader[r].uri] # Null
    <3> DEFINE call == [reader[r] EXCEPT !.pc = to, !.doc = documents[reader[r].uri]]
    <3>1. /\ reader' = [reader EXCEPT ![r] = call]
          /\ UNCHANGED << documents, heap, editor >>
      BY <1>2, <2>2 DEF Lookup, store, Shape, TypeOK
    <3>2. call.uri = reader[r].uri /\ call.doc = documents[reader[r].uri]
      BY DEF Shape, TypeOK, ReaderState
    <3> HIDE DEF call
    <3>3. At(call.uri, call.doc)
      BY <3>2 DEF At
    <3> QED
      BY <3>1, <3>3, ReaderPlaces
  <2> QED
    BY <2>1, <2>2
<1>3. ASSUME NEW r \in Reader, ReaderStep(r) PROVE Placed'
  <2>r. reader[r] \in ReaderState
    BY DEF Shape, TypeOK
  <2>1. CASE \/ Lookup(r, "lookup", "read") \/ Lookup(r, "again", "recheck")
             \/ LookupToCommit(r)
    BY <1>2, <2>1 DEF LookupToCommit
  <2>2. CASE \/ ParseRead(r) /\ ~ heap[reader[r].doc].open
             \/ Recheck(r) /\ ~ IsCurrent(heap[reader[r].doc], reader[r].parse)
    BY <1>1, <2>2 DEF ParseRead, Recheck
  <2>3. ASSUME NEW call, reader' = [reader EXCEPT ![r] = call],
               UNCHANGED << documents, heap, editor >>,
               call.pc \notin {"read", "recheck", "commit"}
        PROVE  Placed'
    BY <2>3, ReaderPlaces
  <2>4. CASE ParseRead(r) /\ heap[reader[r].doc].open
    <3> DEFINE d == heap[reader[r].doc]
               hit == cell[d.parse] # Null
               call == [reader[r] EXCEPT !.doc = Null, !.parse = d.parse,
                           !.pc = IF hit THEN "some" ELSE "init",
                           !.text = IF hit THEN Null ELSE d.text]
    <3>1. reader' = [reader EXCEPT ![r] = call] /\ UNCHANGED << documents, heap, editor >>
      BY <2>4 DEF ParseRead, store, Shape, TypeOK
    <3>2. call.pc \in {"some", "init"}
      BY <2>r DEF ReaderState
    <3> QED
      BY <3>1, <3>2, <2>3
  <2>5. CASE \/ InitBegin(r) \/ InitEnd(r) \/ InitJoin(r)
             \/ Recheck(r) /\ IsCurrent(heap[reader[r].doc], reader[r].parse)
    <3>1. /\ reader'[r].pc \in {"parsing", "again", "some"}
          /\ reader' = [reader EXCEPT ![r] = reader'[r]]
          /\ UNCHANGED << documents, heap, editor >>
      BY <2>5, <2>r DEF InitBegin, InitEnd, InitJoin, Recheck, store, Shape, TypeOK, ReaderState
    <3> QED
      BY <3>1, <2>3
  <2>6. CASE Commit(r) \/ Drop(r)
    <3>1. reader' = [reader EXCEPT ![r] = ReaderIdle] /\ UNCHANGED << documents, heap, editor >>
      BY <2>6 DEF Commit, Drop, store
    <3>2. ReaderIdle.pc = "idle"
      BY DEF ReaderIdle
    <3> QED
      BY <3>1, <3>2, <2>3
  <2> QED
    BY <1>3, <2>1, <2>2, <2>4, <2>5, <2>6 DEF ReaderStep
<1>4. ASSUME NEW r \in Reader, NEW u \in Uri, NEW n \in 1 .. 2, ParseResult(r, u, n)
      PROVE  Placed'
  <2> DEFINE call == [pc |-> "lookup", uri |-> u, doc |-> Null, parse |-> Null,
                      text |-> Null, attempts |-> n, attempt |-> 1]
  <2>1. reader' = [reader EXCEPT ![r] = call] /\ UNCHANGED << documents, heap, editor >>
    BY <1>4 DEF ParseResult, store
  <2>2. call.pc = "lookup"
    OBVIOUS
  <2> HIDE DEF call
  <2> QED
    BY <2>1, <2>2, ReaderPlaces
<1>5. CASE UNCHANGED vars
  BY <1>5 DEF vars, Placed, EntriesOwned, Unseen, Replaced, EditorsPlaced, ReadersPlaced, At
<1> QED
  BY <1>3, <1>4, <1>5, EditorPlaces DEF Next


(* Nothing is open at first, and nobody holds anything.                      *)
LEMMA InitPlaced == Init => Placed
<1> SUFFICES ASSUME Init PROVE Placed
  OBVIOUS
<1>1. /\ \A e \in Editor : editor[e].pc = "idle"
      /\ \A r \in Reader : reader[r].pc = "idle"
      /\ \A u \in Uri : documents[u] = Null
  BY DEF Init, EditorIdle, ReaderIdle
<1> QED
  BY <1>1 DEF Placed, EntriesOwned, Unseen, Replaced, EditorsPlaced, ReadersPlaced

(* parse_result hands back the parse that is live as it returns, or that of  *)
(* a buffer a second open is replacing: never one that an edit, a close or a *)
(* finished open has overtaken.                                              *)
THEOREM ReadsFindLiveParses == Spec => ReadsAreFresh
<1> DEFINE Fresh(r) ==
        reader[r].pc # "some" /\ reader'[r].pc = "some"
        => LET u == reader[r].uri IN
           reader'[r].parse \in {Live(u)} \cup {heap[d].parse : d \in Leaving(u)}
<1>1. Shape /\ Placed /\ [Next]_vars => [\A r \in Reader : Fresh(r)]_vars
  <2> SUFFICES ASSUME Shape, Placed, Next, NEW r \in Reader,
                      reader[r].pc # "some", reader'[r].pc = "some"
               PROVE  reader'[r].parse \in {Live(reader[r].uri)}
                                \cup {heap[d].parse : d \in Leaving(reader[r].uri)}
    OBVIOUS
  <2> DEFINE d == reader[r].doc
             u == reader[r].uri
  <2>1. /\ reader[r].pc \in {"read", "recheck"} /\ heap[d].open
        /\ reader'[r].parse = heap[d].parse
    <3>1. ASSUME NEW q \in Reader, NEW call, reader' = [reader EXCEPT ![q] = call],
                 call.pc # "some"
          PROVE  FALSE
      BY <3>1 DEF Shape, TypeOK
    <3>2. ASSUME NEW q \in Reader, Fail(q) PROVE FALSE
      BY <3>1, <3>2 DEF Fail, Failed, ReaderIdle
    <3>3. ASSUME NEW q \in Reader, NEW from, NEW to, Lookup(q, from, to), to # "some"
          PROVE  FALSE
      <4>1. reader[q] \in ReaderState
        BY DEF Shape, TypeOK
      <4> QED
        BY <3>2, <3>3, <4>1 DEF Lookup, Shape, TypeOK, ReaderState
    <3>4. ASSUME NEW e \in Editor, EditorCall(e) \/ EditorStep(e) PROVE FALSE
      BY <3>4 DEF EditorCall, EditorStep, Open, Change, Close, OpenInsert, OpenRetire,
                  ChangeEdit, CloseFlag, CloseRemove, CloseBump
    <3>5. ASSUME NEW q \in Reader, NEW v \in Uri, NEW n \in 1 .. 2, ParseResult(q, v, n)
          PROVE  FALSE
      BY <3>5 DEF ParseResult, Shape, TypeOK
    <3>6. PICK q \in Reader : ReaderStep(q)
      BY <3>4, <3>5 DEF Next
    <3>7. reader[q] \in ReaderState
      BY DEF Shape, TypeOK
    <3>8. CASE ParseRead(q)
      BY <3>2, <3>7, <3>8 DEF ParseRead, Shape, TypeOK, ReaderState
    <3>9. CASE Recheck(q)
      BY <3>2, <3>7, <3>9 DEF Recheck, IsCurrent, Shape, TypeOK, ReaderState
    <3>10. CASE InitBegin(q) \/ InitEnd(q) \/ InitJoin(q) \/ Commit(q) \/ Drop(q)
      BY <3>7, <3>10 DEF InitBegin, InitEnd, InitJoin, Commit, Drop, ReaderIdle,
                         Shape, TypeOK, ReaderState
    <3> QED
      BY <3>3, <3>6, <3>8, <3>9, <3>10 DEF ReaderStep, LookupToCommit
  <2>2. At(u, d) /\ d \in Objects
    BY <2>1 DEF Placed, ReadersPlaced, Shape, ReadersHold
  <2>3. CASE documents[u] = d
    BY <2>1, <2>2, <2>3, NullAssumption DEF Live, LiveIn, Objects, Revision
  <2>4. CASE documents[u] # d
    <3>1. d \in Leaving(u)
      BY <2>1, <2>2, <2>4, NullAssumption DEF At, Leaving, Objects, Document
    <3> QED
      BY <2>1, <3>1
  <2> QED
    BY <2>3, <2>4
<1> QED
  BY <1>1, InitShape, NextShape, InitPlaced, NextPlaced, PTL DEF Spec, ReadsAreFresh

-----------------------------------------------------------------------------
(* The store implements Buffers.                                             *)

(* The initial state is the abstract one.                                    *)
LEMMA InitIsAbstract == Init => Abstract!Init
<1> SUFFICES ASSUME Init PROVE Abstract!Init
  OBVIOUS
<1>1. \A e \in Editor : editor[e].pc = "idle"
  BY DEF Init, EditorIdle
<1>2. \A u \in Uri : LiveState(u) = Null /\ Leaving(u) = {}
  BY <1>1 DEF Init, LiveState, Leaving
<1>3. Issued = {}
  BY DEF Init, Issued
<1> QED
  BY <1>2, <1>3 DEF Init, Abstract!Init

(* The state of every buffer, and of those replaced.                         *)
LiveStates == [u \in Uri |-> LiveState(u)]
LeavingStates == [u \in Uri |-> {StateOf(d) : d \in Leaving(u)}]

(* The objects that opens of a URI have replaced and not retired yet.        *)
RetiredFrom(u) ==
    {editor[e].doc : e \in {f \in Editor : editor[f].pc = "retire" /\ editor[f].uri = u}}

LEMMA AbstractVars ==
    /\ Abstract!vars = << LiveStates, LeavingStates, Issued, overlay >>
    /\ Abstract!vars' = << LiveStates', LeavingStates', Issued', overlay' >>
BY DEF Abstract!vars, LiveStates, LeavingStates

(* What Leaving says, of objects.                                            *)
LEMMA LeavingIsRetired ==
    /\ Shape => \A u \in Uri : Leaving(u) = {d \in Objects : heap[d].open /\ d \in RetiredFrom(u)}
    /\ Shape' => \A u \in Uri :
          Leaving(u)' = {d \in Objects' : heap'[d].open /\ d \in RetiredFrom(u)'}
BY NullAssumption DEF Leaving, RetiredFrom, Objects, Shape, TypeOK

(* A state is of its type, and is not Null.                                  *)
LEMMA StatesAreStates ==
    ASSUME NEW d \in Objects
    PROVE  StateOf(d) \in Abstract!State /\ StateOf(d) # Null
<1>1. heap[d] \in Document
  BY DEF Objects
<1>2. StateOf(d) \in [version : Version, text : Text, id : Revision]
  BY <1>1 DEF StateOf, Document
<1>3. Revision \subseteq Nat
  BY DEF Revision
<1>4. StateOf(d) \in [version : Version, text : Text, id : Nat]
  BY <1>2, <1>3 DEF StateOf
<1> QED
  BY <1>2, <1>4, NullAssumption DEF Abstract!State

(* An object that is open is the entry of its URI and of no other, and being *)
(* replaced in none, or it is being replaced in one and is nobody's entry.   *)
LEMMA OneHome ==
    ASSUME Shape, Placed, NEW u \in Uri, NEW d \in Objects, At(u, d)
    PROVE  \/ /\ documents[u] = d
              /\ \A v \in Uri : d \notin RetiredFrom(v)
              /\ \A v \in Uri \ {u} : documents[v] # d
           \/ /\ d \in RetiredFrom(u)
              /\ \A v \in Uri : documents[v] # d
              /\ \A v \in Uri \ {u} : d \notin RetiredFrom(v)
<1>n. d # Null
  BY NullAssumption DEF Objects, Revision
<1>1. CASE documents[u] = d
  BY <1>1, <1>n DEF Placed, EntriesOwned, Replaced, RetiredFrom
<1>2. CASE documents[u] # d
  <2>1. PICK e \in Editor : editor[e].pc = "retire" /\ editor[e].uri = u /\ editor[e].doc = d
    BY <1>2 DEF At
  <2>2. \A v \in Uri : documents[v] # d
    BY <2>1 DEF Placed, Replaced
  <2>3. \A f \in Editor \ {e} : editor[f].pc = "retire" => editor[f].doc # d
    BY <2>1 DEF Placed, Replaced
  <2> QED
    BY <2>1, <2>2, <2>3 DEF RetiredFrom
<1> QED
  BY <1>1, <1>2

(* The state that the fields of an object make.                              *)
StateIn(fields) == [version |-> fields.version, text |-> fields.text, id |-> fields.parse]

(* A step gives an object of a URI new fields: the live state changes, or    *)
(* that of a buffer being replaced.                                          *)
StateWritten(u, d, fields) ==
    \/ /\ documents[u] = d /\ LiveStates[u] = StateOf(d)
       /\ LiveStates' = [LiveStates EXCEPT ![u] = IF fields.open THEN StateIn(fields) ELSE Null]
       /\ LeavingStates' = LeavingStates
    \/ /\ StateOf(d) \in LeavingStates[u]
       /\ LiveStates' = LiveStates
       /\ LeavingStates' = [LeavingStates EXCEPT
                              ![u] = (@ \ {StateOf(d)})
                                     \cup IF fields.open THEN {StateIn(fields)} ELSE {}]

(* Writing an open object writes the state of its buffer, where it is live   *)
(* or being replaced, and no other.                                          *)
LEMMA OneStateWritten ==
    ASSUME Shape, Shape', Pairing, Placed, NEW u \in Uri, NEW d \in Objects, At(u, d),
           heap[d].open, NEW new \in Document, heap' = [heap EXCEPT ![d] = new],
           documents' = documents,
           \A v \in Uri : RetiredFrom(v)' \subseteq RetiredFrom(v),
           \A v \in Uri : RetiredFrom(v) \ {d} \subseteq RetiredFrom(v)',
           new.open => \A v \in Uri : d \in RetiredFrom(v) => d \in RetiredFrom(v)'
    PROVE  StateWritten(u, d, new)
<1> DEFINE s == StateIn(new)
<1>1. /\ Objects' = Objects /\ heap'[d] = new
      /\ \A x \in Objects \ {d} : heap'[x] = heap[x]
  <2>1. d \in Revision /\ Objects = Objects \cup {d} /\ TypeOK
    BY DEF Objects, Shape
  <2> QED
    BY <2>1, HeapWrite
<1>n. d # Null
  BY NullAssumption DEF Objects, Revision
<1>2. /\ StateOf(d)' = s
      /\ \A x \in Objects \ {d} : StateOf(x)' = StateOf(x) /\ StateOf(x) # StateOf(d)
  BY <1>1 DEF StateOf, StateIn, Pairing, CellsOwned
<1>3. \A v \in Uri : documents[v] # d => LiveState(v)' = LiveState(v)
  BY <1>1, <1>2 DEF LiveState, Shape, Allocated
<1>4. \A v \in Uri : d \notin RetiredFrom(v)
                     => Leaving(v)' = Leaving(v) /\ d \notin Leaving(v)
  <2> SUFFICES ASSUME NEW v \in Uri, d \notin RetiredFrom(v)
               PROVE  Leaving(v)' = Leaving(v) /\ d \notin Leaving(v)
    OBVIOUS
  <2>1. RetiredFrom(v)' = RetiredFrom(v)
    OBVIOUS
  <2>2. Leaving(v) = {x \in Objects : heap[x].open /\ x \in RetiredFrom(v)}
    BY LeavingIsRetired
  <2>3. Leaving(v)' = {x \in Objects : heap'[x].open /\ x \in RetiredFrom(v)}
    BY <1>1, <2>1, LeavingIsRetired
  <2> QED
    BY <1>1, <2>2, <2>3
<1>5. \A v \in Uri : d \notin RetiredFrom(v)
                     => {StateOf(x) : x \in Leaving(v)}' = {StateOf(x) : x \in Leaving(v)}
  BY <1>2, <1>4, LeavingIsRetired
<1>6. CASE /\ documents[u] = d
           /\ \A v \in Uri : d \notin RetiredFrom(v)
           /\ \A v \in Uri \ {u} : documents[v] # d
  <2>1. LeavingStates' = LeavingStates
    BY <1>5, <1>6 DEF LeavingStates
  <2>2. LiveState(u) = StateOf(d) /\ LiveState(u)' = IF new.open THEN s ELSE Null
    BY <1>n, <1>1, <1>6 DEF LiveState, StateOf, StateIn
  <2>3. LiveStates' = [LiveStates EXCEPT ![u] = IF new.open THEN s ELSE Null]
    <3> DEFINE after == IF new.open THEN s ELSE Null
    <3>1. \A v \in Uri : LiveState(v)' = IF v = u THEN after ELSE LiveState(v)
      BY <1>3, <1>6, <2>2
    <3> HIDE DEF after, s
    <3>2. [v \in Uri |-> LiveState(v)]' = [[v \in Uri |-> LiveState(v)] EXCEPT ![u] = after]
      BY <3>1
    <3> QED
      BY <3>2 DEF LiveStates, after
  <2> QED
    BY <1>6, <2>1, <2>2, <2>3 DEF LiveStates, StateWritten
<1>7. CASE /\ d \in RetiredFrom(u)
           /\ \A v \in Uri : documents[v] # d
           /\ \A v \in Uri \ {u} : d \notin RetiredFrom(v)
  <2>1. LiveStates' = LiveStates
    BY <1>3, <1>7 DEF LiveStates
  <2>2. /\ d \in Leaving(u)
        /\ Leaving(u)' = IF new.open THEN Leaving(u) ELSE Leaving(u) \ {d}
        /\ Leaving(u) \subseteq Objects
    <3>1. Leaving(u) = {x \in Objects : heap[x].open /\ x \in RetiredFrom(u)}
      BY LeavingIsRetired
    <3>2. Leaving(u)' = {x \in Objects : heap'[x].open /\ x \in RetiredFrom(u)'}
      BY <1>1, LeavingIsRetired
    <3>3. CASE new.open
      <4>1. RetiredFrom(u)' = RetiredFrom(u)
        BY <1>7, <3>3
      <4> QED
        BY <1>1, <1>7, <3>1, <3>2, <3>3, <4>1
    <3>4. CASE ~ new.open
      BY <1>1, <1>7, <3>1, <3>2, <3>4
    <3> QED
      BY <3>3, <3>4
  <2>3. {StateOf(x) : x \in Leaving(u)}'
        = ({StateOf(x) : x \in Leaving(u)} \ {StateOf(d)}) \cup IF new.open THEN {s} ELSE {}
    BY <1>2, <2>2
  <2>4. LeavingStates' = [LeavingStates EXCEPT
                            ![u] = (@ \ {StateOf(d)}) \cup IF new.open THEN {s} ELSE {}]
    BY <1>5, <1>7, <2>3 DEF LeavingStates
  <2> QED
    BY <2>1, <2>2, <2>4 DEF LeavingStates, StateWritten
<1> QED
  BY <1>6, <1>7, OneHome

(* The retired objects of a step that writes one editor's call.              *)
LEMMA RetiredByOne ==
    ASSUME Shape, NEW e \in Editor, NEW call, editor' = [editor EXCEPT ![e] = call],
           call.pc # "retire"
    PROVE  \A v \in Uri : /\ RetiredFrom(v)' \subseteq RetiredFrom(v)
                          /\ editor[e].pc # "retire" => RetiredFrom(v)' = RetiredFrom(v)
                          /\ RetiredFrom(v) \ {editor[e].doc} \subseteq RetiredFrom(v)'
<1>1. \A f \in Editor : editor'[f] = IF f = e THEN call ELSE editor[f]
  BY DEF Shape, TypeOK
<1> QED
  BY <1>1 DEF RetiredFrom

(* Revisions drawn and held by no open are issued.                           *)
LEMMA IssuedKept ==
    ASSUME Shape, NEW e \in Editor, NEW call, editor' = [editor EXCEPT ![e] = call],
           editor[e].pc # "insert", call.pc # "insert"
    PROVE  /\ next_revision' = next_revision => Issued' = Issued
           /\ next_revision' = next_revision + 1
              => Issued' = Issued \cup {next_revision} /\ next_revision \notin Issued
<1> DEFINE held == {editor[f].doc : f \in {g \in Editor : editor[g].pc = "insert"}}
<1>1. \A f \in Editor : editor'[f] = IF f = e THEN call ELSE editor[f]
  BY DEF Shape, TypeOK
<1>2. held' = held
  BY <1>1
<1>3. next_revision \in Nat /\ next_revision \notin held
  <2>1. next_revision \in Nat
    BY MaxRevisionAssumption DEF Shape, TypeOK
  <2>2. \A f \in Editor : editor[f].pc = "insert" => editor[f].doc < next_revision
    BY DEF Shape, EditorsHold, Allocated
  <2> QED
    BY <2>1, <2>2
<1>4. Issued = (1 .. next_revision - 1) \ held /\ Issued' = (1 .. next_revision' - 1) \ held'
  BY DEF Issued
<1> HIDE DEF held
<1>5. next_revision \notin 1 .. next_revision - 1
      /\ 1 .. (next_revision + 1) - 1 = (1 .. next_revision - 1) \cup {next_revision}
  <2>1. next_revision >= 1
    BY DEF Shape, TypeOK
  <2> QED
    BY <1>3, <2>1
<1> QED
  BY <1>2, <1>3, <1>4, <1>5

(* Clearing the flag of an object that is open closes its buffer, or ends    *)
(* one that was replaced.                                                    *)
LEMMA FlagIsAbstract ==
    ASSUME Shape, Shape', Pairing, Placed, NEW e \in Editor, NEW call,
           NEW d \in Objects, editor[e].doc = d, editor[e].uri \in Uri,
           editor[e].pc \in {"retire", "flag"}, call.pc \in {"idle", "remove"},
           At(editor[e].uri, d), heap[d].open,
           heap' = [heap EXCEPT ![d].open = FALSE], editor' = [editor EXCEPT ![e] = call],
           UNCHANGED << next_revision, documents, overlay >>
    PROVE  Abstract!Next
<1> DEFINE u == editor[e].uri
           new == [heap[d] EXCEPT !.open = FALSE]
<1>1. new \in Document /\ ~ new.open /\ heap' = [heap EXCEPT ![d] = new]
  BY DEF Objects, Document, Shape, TypeOK
<1> HIDE DEF new
<1>2. Issued' = Issued
  BY IssuedKept
<1>3. \A v \in Uri : /\ RetiredFrom(v)' \subseteq RetiredFrom(v)
                     /\ RetiredFrom(v) \ {d} \subseteq RetiredFrom(v)'
  BY RetiredByOne
<1>4. \/ /\ documents[u] = d /\ LiveStates[u] = StateOf(d)
         /\ LiveStates' = [LiveStates EXCEPT ![u] = Null]
         /\ LeavingStates' = LeavingStates
      \/ /\ StateOf(d) \in LeavingStates[u]
         /\ LiveStates' = LiveStates
         /\ LeavingStates' = [LeavingStates EXCEPT ![u] = @ \ {StateOf(d)}]
  <2>1. \A v \in Uri : RetiredFrom(v)' \subseteq RetiredFrom(v)
    BY <1>3
  <2>2. \A v \in Uri : RetiredFrom(v) \ {d} \subseteq RetiredFrom(v)'
    BY <1>3
  <2>3. new.open => \A v \in Uri : d \in RetiredFrom(v) => d \in RetiredFrom(v)'
    BY <1>1
  <2>4. StateWritten(u, d, new)
    BY <1>1, <2>1, <2>2, <2>3, OneStateWritten
  <2>5. (LeavingStates[u] \ {StateOf(d)}) \cup (IF new.open THEN {StateIn(new)} ELSE {})
        = LeavingStates[u] \ {StateOf(d)}
    BY <1>1
  <2> QED
    BY <1>1, <2>4, <2>5 DEF StateWritten
<1>5. StateOf(d) # Null
  BY StatesAreStates
<1>6. Abstract!CloseBuffer(u) \/ Abstract!Leave(u)
  BY <1>2, <1>4, <1>5 DEF Abstract!CloseBuffer, Abstract!Leave, LiveStates, LeavingStates
<1> QED
  BY <1>6 DEF Abstract!Next

(* A step that writes no object, and takes only a closed one off the map or  *)
(* off the replaced ones, changes no state.                                  *)
LEMMA StatesKept ==
    ASSUME Shape, Shape', \A x \in Objects : heap'[x] = heap[x],
           \A v \in Uri : \/ documents'[v] = documents[v]
                          \/ documents'[v] = Null /\ ~ heap[documents[v]].open,
           \A v \in Uri : RetiredFrom(v)' \subseteq RetiredFrom(v),
           \A v \in Uri : \A x \in RetiredFrom(v) : heap[x].open => x \in RetiredFrom(v)'
    PROVE  LiveStates' = LiveStates /\ LeavingStates' = LeavingStates
<1>1. \A x \in Objects : x \in Objects' /\ StateOf(x)' = StateOf(x)
  BY DEF Objects, StateOf
<1>2. \A v \in Uri : LiveState(v)' = LiveState(v)
  BY <1>1 DEF LiveState, Shape, Allocated
<1>3. \A v \in Uri : RetiredFrom(v) \subseteq Objects
  BY DEF Shape, EditorsHold, RetiredFrom
<1>4. \A v \in Uri : Leaving(v)' = Leaving(v) /\ Leaving(v) \subseteq Objects
  <2> SUFFICES ASSUME NEW v \in Uri
               PROVE  Leaving(v)' = Leaving(v) /\ Leaving(v) \subseteq Objects
    OBVIOUS
  <2>1. Leaving(v) = {x \in Objects : heap[x].open /\ x \in RetiredFrom(v)}
    BY LeavingIsRetired
  <2>2. Leaving(v)' = {x \in Objects' : heap'[x].open /\ x \in RetiredFrom(v)'}
    BY LeavingIsRetired
  <2>3. RetiredFrom(v)' \subseteq RetiredFrom(v) /\ RetiredFrom(v) \subseteq Objects
    BY <1>3
  <2> QED
    BY <1>1, <2>1, <2>2, <2>3
<1>5. \A v \in Uri : {StateOf(x) : x \in Leaving(v)}' = {StateOf(x) : x \in Leaving(v)}
  BY <1>1, <1>4
<1> QED
  BY <1>2, <1>5 DEF LiveStates, LeavingStates

(* Writing the call of an editor that is no retiring one keeps who retires.  *)
LEMMA CallStates ==
    ASSUME Shape, Shape', NEW e \in Editor, NEW call, editor' = [editor EXCEPT ![e] = call],
           editor[e].pc # "retire", call.pc # "retire",
           \A x \in Objects : heap'[x] = heap[x],
           \A v \in Uri : \/ documents'[v] = documents[v]
                          \/ documents'[v] = Null /\ ~ heap[documents[v]].open
    PROVE  LiveStates' = LiveStates /\ LeavingStates' = LeavingStates
<1>1. \A v \in Uri : RetiredFrom(v)' = RetiredFrom(v)
  BY RetiredByOne
<1>2. \A v \in Uri : RetiredFrom(v)' \subseteq RetiredFrom(v)
  BY <1>1
<1>3. \A v \in Uri : \A x \in RetiredFrom(v) : heap[x].open => x \in RetiredFrom(v)'
  BY <1>1
<1> QED
  BY <1>2, <1>3, StatesKept

(* An open that draws its revision shows nothing yet.                        *)
LEMMA OpenIsQuiet ==
    ASSUME Shape, Shape', NEW e \in Editor, NEW u \in Uri, NEW v \in Version, NEW t \in Text,
           Open(e, u, v, t)
    PROVE  UNCHANGED << LiveStates, LeavingStates, Issued, overlay >>
<1> DEFINE call == [EditorIdle EXCEPT !.pc = "insert", !.uri = u, !.doc = next_revision]
           held == {editor[f].doc : f \in {g \in Editor : editor[g].pc = "insert"}}
<1>1. /\ editor[e].pc = "idle" /\ call.pc = "insert" /\ call.doc = next_revision
      /\ editor' = [editor EXCEPT ![e] = call] /\ documents' = documents
      /\ next_revision' = next_revision + 1 /\ overlay' = overlay
  BY DEF Open, EditorIdle
<1>2. \A x \in Objects : heap'[x] = heap[x]
  BY DEF Open, Shape, TypeOK, Allocated, Objects
<1> HIDE DEF call
<1>3. LiveStates' = LiveStates /\ LeavingStates' = LeavingStates
  BY <1>1, <1>2, CallStates
<1>4. held' = held \cup {next_revision}
  <2>1. \A f \in Editor : editor'[f] = IF f = e THEN call ELSE editor[f]
    BY <1>1 DEF Shape, TypeOK
  <2> QED
    BY <1>1, <2>1
<1>5. Issued = (1 .. next_revision - 1) \ held /\ Issued' = (1 .. next_revision' - 1) \ held'
  BY DEF Issued
<1> HIDE DEF held
<1>6. next_revision' - 1 = next_revision /\ next_revision \in Nat
  <2>1. next_revision \in Nat
    BY MaxRevisionAssumption DEF Shape, TypeOK
  <2>2. next_revision' = next_revision + 1
    BY <1>1
  <2> QED
    BY <2>1, <2>2
<1>7. (1 .. next_revision) \ (held \cup {next_revision}) = (1 .. next_revision - 1) \ held
  BY <1>6
<1> QED
  BY <1>1, <1>3, <1>4, <1>5, <1>6, <1>7

(* The insert is the abstract open.                                          *)
LEMMA InsertIsAbstract ==
    ASSUME Shape, Shape', Placed, NEW e \in Editor, OpenInsert(e)
    PROVE  Abstract!Next
<1> DEFINE u == editor[e].uri
           d == editor[e].doc
           old == documents[u]
           call == IF old = Null THEN EditorIdle
                   ELSE [editor[e] EXCEPT !.pc = "retire", !.doc = old]
           held == {editor[f].doc : f \in {g \in Editor : editor[g].pc = "insert"}}
<1>1. /\ u \in Uri /\ d \in Objects /\ editor[e].pc = "insert"
      /\ documents' = [documents EXCEPT ![u] = d]
      /\ UNCHANGED << next_revision, heap, overlay >>
      /\ Objects' = Objects /\ \A x \in Objects : StateOf(x)' = StateOf(x)
  BY DEF OpenInsert, Shape, EditorsHold, Objects, StateOf
<1>2. /\ heap[d].open /\ heap[d].parse = d /\ d # Null /\ d \in Revision
      /\ \A f \in Editor \ {e} : editor[f].pc = "insert" => editor[f].doc # d
  BY <1>1, NullAssumption DEF Placed, Unseen, Holding, Objects, Revision
<1>3. \A f \in Editor : editor'[f] = IF f = e THEN call ELSE editor[f]
  BY DEF OpenInsert, Shape, TypeOK
<1>4. IF old = Null THEN call.pc = "idle"
      ELSE call.pc = "retire" /\ call.doc = old /\ call.uri = u
  BY DEF EditorIdle, Shape, TypeOK, EditorState
<1>5. old # Null => old \in Objects
  BY <1>1 DEF Shape, Allocated
<1> HIDE DEF call
<1>6. Issued' = Issued \cup {d} /\ d \notin Issued
  <2>1. held' = held \ {d} /\ d \in held
    BY <1>1, <1>2, <1>3, <1>4
  <2>2. Issued = (1 .. next_revision - 1) \ held /\ Issued' = (1 .. next_revision - 1) \ held'
    BY <1>1 DEF Issued
  <2> HIDE DEF held
  <2>3. d \in 1 .. next_revision - 1
    <3>1. d \in Nat /\ d >= 1
      BY <1>2 DEF Revision
    <3>2. d < next_revision
      BY <1>1 DEF Shape, Allocated
    <3>3. next_revision \in Nat
      BY MaxRevisionAssumption DEF Shape, TypeOK
    <3> HIDE DEF d
    <3> QED
      BY <3>1, <3>2, <3>3
  <2> QED
    BY <2>1, <2>2, <2>3
<1>7. \A v \in Uri : LiveState(v)' = IF v = u THEN StateOf(d) ELSE LiveState(v)
  BY <1>1, <1>2 DEF LiveState, Shape, Allocated, TypeOK
<1>8. \A v \in Uri : RetiredFrom(v)' = RetiredFrom(v)
                                     \cup IF v = u /\ old # Null THEN {old} ELSE {}
  BY <1>1, <1>3, <1>4 DEF RetiredFrom
<1>9. \A v \in Uri : Leaving(v)' = Leaving(v) \cup
          IF v = u /\ old # Null /\ heap[old].open THEN {old} ELSE {}
  <2> SUFFICES ASSUME NEW v \in Uri
               PROVE  Leaving(v)' = Leaving(v) \cup
                          IF v = u /\ old # Null /\ heap[old].open THEN {old} ELSE {}
    OBVIOUS
  <2>1. Leaving(v) = {x \in Objects : heap[x].open /\ x \in RetiredFrom(v)}
    BY LeavingIsRetired
  <2>2. Leaving(v)' = {x \in Objects : heap[x].open /\ x \in RetiredFrom(v)'}
    BY <1>1, LeavingIsRetired
  <2> QED
    BY <1>5, <1>8, <2>1, <2>2
<1>10. \A v \in Uri : {StateOf(x) : x \in Leaving(v)}' = {StateOf(x) : x \in Leaving(v)}
                          \cup IF v = u THEN {LiveState(u)} \ {Null} ELSE {}
  <2> SUFFICES ASSUME NEW v \in Uri
               PROVE  {StateOf(x) : x \in Leaving(v)}' = {StateOf(x) : x \in Leaving(v)}
                          \cup IF v = u THEN {LiveState(u)} \ {Null} ELSE {}
    OBVIOUS
  <2>1. Leaving(v) \subseteq Objects
    BY LeavingIsRetired
  <2>2. {LiveState(u)} \ {Null}
        = IF old # Null /\ heap[old].open THEN {StateOf(old)} ELSE {}
    BY <1>5, StatesAreStates DEF LiveState
  <2> QED
    BY <1>1, <1>5, <1>9, <2>1, <2>2
<1>11. LiveStates' = [LiveStates EXCEPT ![u] = StateOf(d)]
  <2> HIDE DEF u, d
  <2> QED
    BY <1>7 DEF LiveStates
<1>12. LeavingStates' = [LeavingStates EXCEPT ![u] = @ \cup ({LiveStates[u]} \ {Null})]
  <2> HIDE DEF u, d, old
  <2> QED
    BY <1>1, <1>10 DEF LiveStates, LeavingStates
<1>13. StateOf(d) \in Abstract!State /\ StateOf(d).id = d
  BY <1>1, <1>2, StatesAreStates DEF StateOf
<1>14. Abstract!OpenBuffer(u)
  <2> HIDE DEF u, d
  <2> QED
    BY <1>1, <1>6, <1>11, <1>12, <1>13
       DEF Abstract!OpenBuffer, Abstract!Write, LiveStates, LeavingStates
<1> QED
  BY <1>1, <1>14 DEF Abstract!Next

(* An edit of an object that is open edits its buffer, live or replaced; of  *)
(* one that is closed, nothing.                                              *)
LEMMA EditIsAbstract ==
    ASSUME Shape, Shape', Pairing, Placed, NEW e \in Editor, ChangeEdit(e)
    PROVE  Abstract!Next \/ UNCHANGED << LiveStates, LeavingStates, Issued, overlay >>
<1>1. /\ editor[e].pc = "edit" /\ overlay' = overlay /\ documents' = documents
      /\ editor' = [editor EXCEPT ![e] = EditorIdle] /\ EditorIdle.pc = "idle"
      /\ editor[e].uri \in Uri /\ editor[e].doc \in Objects
  BY DEF ChangeEdit, EditorIdle, Shape, EditorsHold
<1>2. CASE ~ heap[editor[e].doc].open
  <2>1. heap' = heap /\ next_revision' = next_revision
    BY <1>2 DEF ChangeEdit
  <2>2. LiveStates' = LiveStates /\ LeavingStates' = LeavingStates
    BY <1>1, <2>1, CallStates
  <2> QED
    BY <1>1, <2>1, <2>2, IssuedKept
<1>3. CASE heap[editor[e].doc].open
  <2> SUFFICES ASSUME NEW d \in Objects, NEW u \in Uri, editor[e].doc = d, editor[e].uri = u
               PROVE  Abstract!Next
    BY <1>1
  <2> DEFINE new == Edited(heap[d], editor[e].version, editor[e].text)
  <2>1. /\ heap' = [heap EXCEPT ![d] = new] /\ next_revision' = next_revision + 1
        /\ At(u, d) /\ heap[d].open
    BY <1>1, <1>3 DEF ChangeEdit, Placed, EditorsPlaced
  <2>2. /\ new \in Document /\ new.open /\ StateIn(new).id = next_revision
        /\ StateIn(new) \in Abstract!State
    BY <1>1, <1>3 DEF Edited, Document, StateIn, Abstract!State, Shape, TypeOK, EditorsHold,
                      Revision
  <2> HIDE DEF new
  <2>3. \A v \in Uri : RetiredFrom(v)' = RetiredFrom(v)
    BY <1>1, RetiredByOne
  <2>4. StateWritten(u, d, new)
    <3>1. \A v \in Uri : RetiredFrom(v)' \subseteq RetiredFrom(v)
      BY <2>3
    <3>2. \A v \in Uri : RetiredFrom(v) \ {d} \subseteq RetiredFrom(v)'
      BY <2>3
    <3>3. new.open => \A v \in Uri : d \in RetiredFrom(v) => d \in RetiredFrom(v)'
      BY <2>3
    <3> QED
      BY <1>1, <2>1, <2>2, <3>1, <3>2, <3>3, OneStateWritten
  <2>5. Issued' = Issued \cup {next_revision} /\ next_revision \notin Issued
    BY <1>1, <2>1, IssuedKept
  <2>6. StateOf(d) # Null
    BY StatesAreStates
  <2>7. Abstract!EditBuffer(u) \/ Abstract!EditLeaving(u)
    <3>1. LiveStates' = [LiveStates EXCEPT ![u] = IF new.open THEN StateIn(new) ELSE Null]
          => LiveStates' = [LiveStates EXCEPT ![u] = StateIn(new)]
      BY <2>2
    <3>2. (LeavingStates[u] \ {StateOf(d)}) \cup (IF new.open THEN {StateIn(new)} ELSE {})
          = (LeavingStates[u] \ {StateOf(d)}) \cup {StateIn(new)}
      BY <2>2
    <3>3. CASE /\ LiveStates[u] = StateOf(d)
               /\ LiveStates' = [LiveStates EXCEPT ![u] = StateIn(new)]
               /\ LeavingStates' = LeavingStates
      <4>1. Abstract!EditBuffer(u)
        BY <1>1, <2>2, <2>5, <2>6, <3>3
           DEF Abstract!EditBuffer, Abstract!Write, LiveStates, LeavingStates
      <4> QED
        BY <4>1
    <3>4. CASE /\ StateOf(d) \in LeavingStates[u] /\ LiveStates' = LiveStates
               /\ LeavingStates' = [LeavingStates EXCEPT
                                      ![u] = (LeavingStates[u] \ {StateOf(d)})
                                             \cup {StateIn(new)}]
      <4>1. Abstract!EditLeaving(u)
        BY <1>1, <2>2, <2>5, <3>4 DEF Abstract!EditLeaving, LiveStates, LeavingStates
      <4> QED
        BY <4>1
    <3> QED
      BY <2>4, <3>1, <3>2, <3>3, <3>4 DEF StateWritten
  <2> QED
    BY <2>7 DEF Abstract!Next
<1> QED
  BY <1>2, <1>3

(* Retiring a replaced object ends its buffer, if nobody has ended it yet.   *)
(* A close clears the same flag of the object it looked up.                  *)
LEMMA RetireIsAbstract ==
    ASSUME Shape, Shape', Pairing, Placed, NEW e \in Editor, OpenRetire(e) \/ CloseFlag(e)
    PROVE  Abstract!Next \/ UNCHANGED << LiveStates, LeavingStates, Issued, overlay >>
<1>1. PICK call : /\ editor' = [editor EXCEPT ![e] = call] /\ call.pc \in {"idle", "remove"}
                  /\ OpenRetire(e) => call.pc = "idle"
  <2>1. CASE OpenRetire(e)
    <3>1. EditorIdle.pc = "idle"
      BY DEF EditorIdle
    <3> QED
      BY <2>1, <3>1 DEF OpenRetire
  <2>2. CASE CloseFlag(e) /\ ~ OpenRetire(e)
    BY <2>2 DEF CloseFlag, Shape, TypeOK, EditorState
  <2> QED
    BY <2>1, <2>2
<1>2. /\ editor[e].pc \in {"retire", "flag"} /\ editor[e].uri \in Uri
      /\ editor[e].doc \in Objects /\ heap' = [heap EXCEPT ![editor[e].doc].open = FALSE]
      /\ UNCHANGED << next_revision, documents, overlay >>
  BY DEF OpenRetire, CloseFlag, Shape, EditorsHold
<1>3. CASE heap[editor[e].doc].open
  <2>1. At(editor[e].uri, editor[e].doc)
    BY <1>2, <1>3 DEF Placed, EditorsPlaced, At
  <2> SUFFICES ASSUME NEW d \in Objects, editor[e].doc = d PROVE Abstract!Next
    BY <1>2
  <2> QED
    BY <1>1, <1>2, <1>3, <2>1, FlagIsAbstract
<1>4. CASE ~ heap[editor[e].doc].open
  <2>1. \A x \in Objects : heap'[x] = heap[x]
    BY <1>2, <1>4 DEF Objects, Document, Shape, TypeOK
  <2>2. \A v \in Uri : /\ RetiredFrom(v)' \subseteq RetiredFrom(v)
                       /\ RetiredFrom(v) \ {editor[e].doc} \subseteq RetiredFrom(v)'
    BY <1>1, RetiredByOne
  <2>3. \A v \in Uri : \A x \in RetiredFrom(v) : heap[x].open => x \in RetiredFrom(v)'
    BY <1>4, <2>2
  <2>4. LiveStates' = LiveStates /\ LeavingStates' = LeavingStates
    <3>1. \A v \in Uri : RetiredFrom(v)' \subseteq RetiredFrom(v)
      BY <2>2
    <3>2. \A v \in Uri : documents'[v] = documents[v]
      BY <1>2
    <3> QED
      BY <2>1, <2>3, <3>1, <3>2, StatesKept
  <2>5. Issued' = Issued
    BY <1>1, <1>2, IssuedKept
  <2> QED
    BY <1>2, <2>4, <2>5
<1> QED
  BY <1>3, <1>4

(* Every step of the store is a step of Buffers, or none.                    *)
LEMMA NextIsAbstract ==
    Shape /\ Shape' /\ Pairing /\ Placed /\ [Next]_vars => [Abstract!Next]_(Abstract!vars)
<1> SUFFICES ASSUME Shape, Shape', Pairing, Placed, [Next]_vars
             PROVE  Abstract!Next \/ UNCHANGED << LiveStates, LeavingStates, Issued, overlay >>
  BY AbstractVars
<1>1. ASSUME UNCHANGED << store, editor >>
      PROVE  UNCHANGED << LiveStates, LeavingStates, Issued >>
  BY <1>1 DEF store, LiveStates, LeavingStates, Issued, LiveState, Leaving, StateOf
<1>2. CASE UNCHANGED vars
  BY <1>1, <1>2 DEF vars, store
<1>3. ASSUME NEW e \in Editor, EditorCall(e)
      PROVE  UNCHANGED << LiveStates, LeavingStates, Issued, overlay >>
  <2>1. ASSUME NEW call, editor' = [editor EXCEPT ![e] = call], editor[e].pc = "idle",
               call.pc \in {"edit", "flag"},
               UNCHANGED << next_revision, documents, heap, overlay >>
        PROVE  UNCHANGED << LiveStates, LeavingStates, Issued, overlay >>
    BY <2>1, CallStates, IssuedKept
  <2>2. ASSUME NEW u \in Uri, NEW v \in Version, NEW t \in Text, Change(e, u, v, t)
        PROVE  UNCHANGED << LiveStates, LeavingStates, Issued, overlay >>
    BY <2>1, <2>2 DEF Change
  <2>3. ASSUME NEW u \in Uri, Close(e, u)
        PROVE  UNCHANGED << LiveStates, LeavingStates, Issued, overlay >>
    <3>1. [EditorIdle EXCEPT !.pc = "flag", !.uri = u, !.doc = documents[u]].pc = "flag"
      BY DEF EditorIdle
    <3> QED
      BY <2>1, <2>3, <3>1 DEF Close
  <2> QED
    BY <1>3, <2>2, <2>3, OpenIsQuiet DEF EditorCall
<1>4. ASSUME NEW e \in Editor, CloseRemove(e)
      PROVE  UNCHANGED << LiveStates, LeavingStates, Issued, overlay >>
  <2> DEFINE call == [editor[e] EXCEPT !.pc = "bump"]
  <2>1. /\ editor[e].pc = "remove" /\ call.pc = "bump" /\ editor' = [editor EXCEPT ![e] = call]
        /\ UNCHANGED << next_revision, heap, overlay >>
    BY <1>4 DEF CloseRemove, Shape, TypeOK, EditorState
  <2> HIDE DEF call
  <2>2. ~ heap[editor[e].doc].open
    BY <2>1 DEF Placed, EditorsPlaced
  <2>3. \A v \in Uri : \/ documents'[v] = documents[v]
                       \/ documents'[v] = Null /\ ~ heap[documents[v]].open
    BY <1>4, <2>2 DEF CloseRemove, Shape, TypeOK
  <2> QED
    BY <2>1, <2>3, CallStates, IssuedKept
<1>5. ASSUME NEW e \in Editor, CloseBump(e)
      PROVE  Abstract!Next
  <2>1. /\ editor[e].pc = "bump" /\ EditorIdle.pc = "idle" /\ next_revision' = next_revision + 1
        /\ editor' = [editor EXCEPT ![e] = EditorIdle]
        /\ UNCHANGED << documents, heap, overlay >>
    BY <1>5 DEF CloseBump, EditorIdle
  <2>2. LiveStates' = LiveStates /\ LeavingStates' = LeavingStates
    BY <2>1, CallStates
  <2>3. Issued' = Issued \cup {next_revision} /\ next_revision \notin Issued
    BY <2>1, IssuedKept
  <2>4. next_revision \in Revision
    BY DEF Shape, TypeOK, Revision
  <2>5. Abstract!Retire
    BY <2>1, <2>2, <2>3, <2>4 DEF Abstract!Retire, LiveStates, LeavingStates
  <2> QED
    BY <2>5 DEF Abstract!Next
<1>6. ASSUME NEW e \in Editor, EditorStep(e)
      PROVE  Abstract!Next \/ UNCHANGED << LiveStates, LeavingStates, Issued, overlay >>
  BY <1>4, <1>5, <1>6, InsertIsAbstract, RetireIsAbstract, EditIsAbstract DEF EditorStep
<1>7. ASSUME NEW r \in Reader, Commit(r)
      PROVE  Abstract!Next \/ UNCHANGED << LiveStates, LeavingStates, Issued, overlay >>
  <2> SUFFICES ASSUME NEW u \in Uri, NEW d \in Objects,
                      reader[r].uri = u, reader[r].doc = d, IsCurrent(heap[d], reader[r].parse)
               PROVE  Abstract!Next
    <3>1. reader[r].uri \in Uri /\ reader[r].doc \in Objects
      BY <1>7 DEF Commit, Shape, ReadersHold
    <3>2. ~ IsCurrent(heap[reader[r].doc], reader[r].parse) => overlay' = overlay
      BY <1>7 DEF Commit
    <3>3. UNCHANGED << LiveStates, LeavingStates, Issued >>
      BY <1>1, <1>7 DEF Commit
    <3> QED
      BY <3>1, <3>2, <3>3
  <2>1. /\ overlay' = [overlay EXCEPT ![u] = [version |-> StateOf(d).version,
                                             parse |-> StateOf(d).id]]
        /\ heap[d].open /\ reader[r].pc = "commit"
    BY <1>7 DEF Commit, IsCurrent, StateOf
  <2>2. At(u, d)
    BY <2>1 DEF Placed, ReadersPlaced
  <2>3. StateOf(d) \in LeavingStates[u] \cup ({LiveStates[u]} \ {Null})
    <3>1. StateOf(d) # Null /\ d # Null
      BY StatesAreStates, NullAssumption DEF Objects, Revision
    <3>2. CASE documents[u] = d
      BY <2>1, <3>1, <3>2 DEF LiveStates, LiveState
    <3>3. CASE documents[u] # d
      <4>1. d \in Leaving(u)
        BY <2>1, <2>2, <3>3, LeavingIsRetired DEF At, RetiredFrom
      <4> QED
        BY <4>1 DEF LeavingStates
    <3> QED
      BY <3>2, <3>3
  <2>4. UNCHANGED << LiveStates, LeavingStates, Issued >>
    BY <1>1, <1>7 DEF Commit
  <2>5. Abstract!Commit(u)
    BY <2>1, <2>3, <2>4 DEF Abstract!Commit, LiveStates, LeavingStates
  <2> QED
    BY <2>5 DEF Abstract!Next
<1>8. ASSUME NEW r \in Reader, ReaderStep(r), ~ Commit(r)
      PROVE  UNCHANGED << LiveStates, LeavingStates, Issued, overlay >>
  <2>1. UNCHANGED << store, editor, overlay >>
    BY <1>8 DEF ReaderStep, Lookup, LookupToCommit, Fail, ParseRead, InitBegin, InitEnd,
                InitJoin, Recheck, Drop
  <2> QED
    BY <1>1, <2>1
<1>9. ASSUME NEW r \in Reader, NEW u \in Uri, NEW n \in 1 .. 2, ParseResult(r, u, n)
      PROVE  UNCHANGED << LiveStates, LeavingStates, Issued, overlay >>
  BY <1>1, <1>9 DEF ParseResult
<1> QED
  BY <1>2, <1>3, <1>6, <1>7, <1>8, <1>9 DEF Next

(* The buffer store implements Buffers: to its callers, opening, editing and *)
(* closing a document are single steps, every content comes under an         *)
(* identity of its own, and a commit writes a state that is live or is being *)
(* replaced, whatever the number of callers and however they interleave.     *)
THEOREM StoreIsAtomic == Spec => ImplementsBuffers
BY InitIsAbstract, NextIsAbstract, InitShape, NextShape, InitPairing, NextPairing,
   InitPlaced, NextPlaced, PTL DEF Spec, ImplementsBuffers, Abstract!Spec

-----------------------------------------------------------------------------
(* What a call has witnessed.                                               *)

(* The buffer of a URI has a name already drawn, and no open still holds it. *)
SeenBefore(p) ==
    /\ p \in Revision /\ p < next_revision
    /\ \A e \in Editor : editor[e].pc = "insert" => editor[e].doc # p

(* A closed buffer was seen, or more live parses than there were attempts.   *)
Overtaken(seen, attempts) == Null \in seen \/ Cardinality(seen) > attempts

(* What a call in progress has seen: one live parse for each attempt, the    *)
(* live one now among them; and what it has in hand is still the live one,   *)
(* unless it has been overtaken since the attempt began.                     *)
Followed(call, seen) ==
    /\ IsFiniteSet(seen)
    /\ Live(call.uri) \in seen
    /\ Null \in seen \/ Cardinality(seen) >= call.attempt
    /\ \A p \in seen \ {Null} : SeenBefore(p)
    /\ \/ Overtaken(seen, call.attempt)
       \/ /\ call.pc = "read" => documents[call.uri] = call.doc /\ heap[call.doc].open
          /\ call.pc \in {"init", "parsing", "again", "recheck"} => Live(call.uri) = call.parse
          /\ call.pc = "recheck" => documents[call.uri] = call.doc

Witnessed == \A r \in Reader : reader[r].pc \in Resolving => Followed(reader[r], since[r])

(* The cell a call looks again for has been filled.                          *)
Parsed == \A r \in Reader : reader[r].pc \in {"again", "recheck"} => cell[reader[r].parse] # Null

-----------------------------------------------------------------------------
(* A live parse has been seen before.                                        *)
LEMMA LiveSeen ==
    Shape /\ Pairing /\ Placed => \A u \in Uri : Live(u) # Null => SeenBefore(Live(u))
<1> SUFFICES ASSUME Shape, Pairing, Placed, NEW u \in Uri, Live(u) # Null
             PROVE  SeenBefore(Live(u))
  OBVIOUS
<1> DEFINE d == documents[u]
<1>1. d # Null /\ heap[d].open /\ Live(u) = heap[d].parse
  BY DEF Live, LiveIn
<1>2. d \in Objects
  BY <1>1 DEF Shape, Allocated
<1>3. heap[d].parse \in Revision /\ heap[d].parse < next_revision
  BY <1>2 DEF Objects, Document, Shape, Allocated
<1>4. ASSUME NEW e \in Editor, editor[e].pc = "insert", editor[e].doc = heap[d].parse
      PROVE  FALSE
  <2>1. heap[editor[e].doc].parse = editor[e].doc /\ d # editor[e].doc
    BY <1>4 DEF Placed, Unseen
  <2>2. editor[e].doc \in Objects
    BY <1>4 DEF Shape, EditorsHold
  <2> QED
    BY <1>2, <1>4, <2>1, <2>2 DEF Pairing, CellsOwned
<1> QED
  BY <1>1, <1>3, <1>4 DEF SeenBefore

(* A parse that no call can have seen.                                       *)
Fresh(p) ==
    /\ p # Null
    /\ p = next_revision \/ \E e \in Editor : editor[e].pc = "insert" /\ editor[e].doc = p

(* What a step of an editor does to the live buffer of a URI: nothing, or it *)
(* takes the buffer away, or makes one live that nobody has seen.            *)
Replaces(u) == Live(u)' = Null \/ Fresh(Live(u)')

EditorMoves ==
    /\ reader' = reader /\ cell' = cell
    /\ next_revision' \in Nat /\ next_revision <= next_revision'
    /\ \A e \in Editor : editor'[e].pc = "insert"
          => editor'[e].doc = next_revision
             \/ (editor[e].pc = "insert" /\ editor[e].doc = editor'[e].doc)
    /\ \A r \in Reader, u \in Uri : reader[r].pc \in Resolving /\ reader[r].uri = u
          => since'[r] = since[r] \cup {Live(u)'}
    /\ \A u \in Uri :
          \/ Replaces(u)
          \/ /\ Live(u)' = Live(u) /\ documents'[u] = documents[u]
             /\ documents[u] # Null /\ heap[documents[u]].open => heap'[documents[u]].open

(* An editor's step keeps what the calls have witnessed.                     *)
LEMMA MovesWitnessed ==
    ASSUME Shape, Witnessed, EditorMoves,
           \A u \in Uri : Live(u)' # Null => SeenBefore(Live(u))'
    PROVE  Witnessed'
<1> SUFFICES ASSUME NEW r \in Reader, reader[r].pc \in Resolving
             PROVE  Followed(reader[r], since[r])'
  BY DEF Witnessed, EditorMoves
<1>1. reader[r] \in ReaderState /\ next_revision \in Nat /\ reader[r].uri \in Uri
  BY DEF Shape, TypeOK, Revision, ReadersHold, Resolving
<1>2. PICK u, n, seen : /\ u \in Uri /\ u = reader[r].uri
                         /\ n \in Nat /\ n = reader[r].attempt /\ seen = since[r]
  BY <1>1 DEF ReaderState
<1>3. PICK p, new : p = Live(u) /\ new = Live(u)'
  OBVIOUS
<1>4. since'[r] = seen \cup {new}
  BY <1>2, <1>3 DEF EditorMoves
<1>5. /\ IsFiniteSet(seen) /\ p \in seen
      /\ Null \in seen \/ Cardinality(seen) >= n
      /\ \A q \in seen \ {Null} : SeenBefore(q)
      /\ \/ Overtaken(seen, n)
         \/ /\ reader[r].pc = "read" => documents[u] = reader[r].doc /\ heap[reader[r].doc].open
            /\ reader[r].pc \in {"init", "parsing", "again", "recheck"} => p = reader[r].parse
            /\ reader[r].pc = "recheck" => documents[u] = reader[r].doc
  BY <1>2, <1>3 DEF Witnessed, Followed
<1>6. /\ IsFiniteSet(seen \cup {new}) /\ Cardinality(seen) \in Nat
      /\ Cardinality(seen \cup {new})
            = IF new \in seen THEN Cardinality(seen) ELSE Cardinality(seen) + 1
  BY <1>5, FS_AddElement, FS_CardinalityType
<1>7. Overtaken(seen, n) => Overtaken(seen \cup {new}, n)
  BY <1>2, <1>6 DEF Overtaken
<1>8. Replaces(u) => Overtaken(seen \cup {new}, n)
  <2>1. CASE new = Null
    BY <2>1 DEF Overtaken
  <2>2. CASE new # Null /\ Fresh(new)
    <3>1. new \notin seen
      BY <1>1, <1>5, <2>2 DEF SeenBefore, Fresh, Revision
    <3> QED
      BY <1>2, <1>5, <1>6, <3>1 DEF Overtaken
  <2> QED
    BY <1>3, <2>1, <2>2 DEF Replaces
<1>9. Null \in seen \cup {new} \/ Cardinality(seen \cup {new}) >= n
  BY <1>2, <1>5, <1>6
<1>10. ASSUME NEW q \in (seen \cup {new}) \ {Null} PROVE SeenBefore(q)'
  <2>1. CASE q \in seen
    BY <1>1, <1>5, <1>10, <2>1 DEF SeenBefore, EditorMoves, Revision
  <2>2. CASE q = new
    <3>1. SeenBefore(Live(u))'
      BY <1>2, <1>3, <1>10, <2>2
    <3> QED
      BY <1>3, <2>2, <3>1 DEF SeenBefore
  <2> QED
    BY <1>10, <2>1, <2>2
<1>11. \/ Overtaken(seen \cup {new}, n)
       \/ /\ reader[r].pc = "read" => documents'[u] = reader[r].doc /\ heap'[reader[r].doc].open
          /\ reader[r].pc \in {"init", "parsing", "again", "recheck"} => new = reader[r].parse
          /\ reader[r].pc = "recheck" => documents'[u] = reader[r].doc
  <2>1. CASE Overtaken(seen, n) \/ Replaces(u)
    BY <1>7, <1>8, <2>1
  <2>2. CASE ~ Overtaken(seen, n) /\ ~ Replaces(u)
    <3>1. /\ new = p /\ documents'[u] = documents[u]
          /\ documents[u] # Null /\ heap[documents[u]].open => heap'[documents[u]].open
      BY <1>2, <1>3, <2>2 DEF EditorMoves
    <3>2. reader[r].pc = "read" => reader[r].doc # Null
      BY NullAssumption DEF Shape, ReadersHold, Objects, Revision
    <3> QED
      BY <1>5, <2>2, <3>1, <3>2
  <2> QED
    BY <2>1, <2>2
<1>12. reader'[r] = reader[r]
  BY DEF EditorMoves
<1> QED
  BY <1>2, <1>3, <1>4, <1>6, <1>9, <1>10, <1>11, <1>12 DEF Followed, Overtaken

-----------------------------------------------------------------------------
(* Nobody but its entry's URI has an object for its live buffer.             *)
LEMMA LiveKept ==
    ASSUME NEW u \in Uri, documents'[u] = documents[u],
           documents[u] # Null => heap'[documents[u]] = heap[documents[u]]
    PROVE  /\ Live(u)' = Live(u)
           /\ documents[u] # Null /\ heap[documents[u]].open => heap'[documents[u]].open
BY DEF Live, LiveIn

(* Which steps witness, and which change no live buffer.                     *)
LEMMA EditorStepMoves ==
    ASSUME Shape, Placed, Witnessed, NEW e \in Editor, EditorStep(e) \/ EditorCall(e)
    PROVE  EditorMoves
<1> USE DEF EditorIdle
<1>1. /\ editor \in [Editor -> EditorState] /\ next_revision \in Nat
      /\ documents \in [Uri -> Revision \cup {Null}] /\ heap \in [Revision -> Document \cup {Null}]
      /\ since \in [Reader -> SUBSET (Revision \cup {Null})]
      /\ next_revision # Null /\ Null \notin Revision
  BY NullAssumption DEF Shape, TypeOK, Revision
<1>2. /\ editor[e] \in EditorState
      /\ editor[e].pc # "idle" => editor[e].uri \in Uri
      /\ editor[e].pc \in Holding => editor[e].doc \in Revision /\ heap[editor[e].doc] \in Document
  BY <1>1 DEF Shape, EditorsHold, Objects, Holding
<1>3. \A u \in Uri : documents[u] # Null
         => /\ documents[u] \in Revision /\ documents[u] # next_revision
            /\ heap[documents[u]] \in Document
  BY <1>1 DEF Shape, Allocated, Objects
<1>4. reader' = reader /\ cell' = cell
  BY DEF EditorStep, EditorCall, Open, Change, Close, OpenInsert, OpenRetire, ChangeEdit,
         CloseFlag, CloseRemove, CloseBump
<1>5. ASSUME Witness, NEW r \in Reader, NEW u \in Uri, reader[r].pc \in Resolving, reader[r].uri = u
      PROVE  since'[r] = since[r] \cup {Live(u)'}
  BY <1>5 DEF Witness, Live
<1>6. ASSUME UNCHANGED since, NEW r \in Reader, NEW u \in Uri, Live(u)' = Live(u),
             reader[r].pc \in Resolving, reader[r].uri = u
      PROVE  since'[r] = since[r] \cup {Live(u)'}
  <2>1. Live(u) \in since[r]
    BY <1>6 DEF Witnessed, Followed
  <2> QED
    BY <1>6, <2>1
<1>7. ASSUME NEW call, editor' = [editor EXCEPT ![e] = call], call.pc # "insert",
             NEW f \in Editor, editor'[f].pc = "insert"
      PROVE  editor[f].pc = "insert" /\ editor[f].doc = editor'[f].doc
  BY <1>1, <1>7
<1>8. ASSUME NEW u \in Uri, NEW v \in Version, NEW t \in Text, Open(e, u, v, t)
      PROVE  EditorMoves
  <2>1. /\ next_revision' = next_revision + 1 /\ UNCHANGED << documents, since >>
        /\ \A d \in Revision : d # next_revision => heap'[d] = heap[d]
        /\ \E x : editor' = [editor EXCEPT ![e] = x] /\ x.doc = next_revision
    <3> DEFINE x == [EditorIdle EXCEPT !.pc = "insert", !.uri = u, !.doc = next_revision]
    <3>1. /\ next_revision' = next_revision + 1 /\ UNCHANGED << documents, since >>
          /\ \A d \in Revision : d # next_revision => heap'[d] = heap[d]
          /\ editor' = [editor EXCEPT ![e] = x]
      BY <1>1, <1>8 DEF Open
    <3>2. x.doc = next_revision
      OBVIOUS
    <3> HIDE DEF x
    <3> QED
      BY <3>1, <3>2
  <2>2. \A x \in Uri : /\ Live(x)' = Live(x) /\ documents'[x] = documents[x]
                       /\ documents[x] # Null /\ heap[documents[x]].open => heap'[documents[x]].open
    BY <1>3, <2>1, LiveKept
  <2>3. \A f \in Editor : editor'[f].pc = "insert"
          => editor'[f].doc = next_revision
             \/ (editor[f].pc = "insert" /\ editor[f].doc = editor'[f].doc)
    BY <1>1, <2>1
  <2> QED
    BY <1>1, <1>4, <1>6, <2>1, <2>2, <2>3 DEF EditorMoves
<1>9. ASSUME UNCHANGED << documents, heap, since >>,
             next_revision' \in {next_revision, next_revision + 1},
             NEW call, editor' = [editor EXCEPT ![e] = call], call.pc # "insert"
      PROVE  EditorMoves
  <2>1. \A x \in Uri : /\ Live(x)' = Live(x) /\ documents'[x] = documents[x]
                       /\ documents[x] # Null /\ heap[documents[x]].open => heap'[documents[x]].open
    BY <1>9, LiveKept
  <2> QED
    BY <1>1, <1>4, <1>6, <1>7, <1>9, <2>1 DEF EditorMoves
<1>10. ASSUME NEW u \in Uri, NEW v \in Version, NEW t \in Text, Change(e, u, v, t)
       PROVE  EditorMoves
  <2>1. PICK call : editor' = [editor EXCEPT ![e] = call] /\ call.pc = "edit"
    <3> DEFINE x == [pc |-> "edit", uri |-> u, doc |-> documents[u], version |-> v, text |-> t]
    <3>1. x.pc = "edit"
      OBVIOUS
    <3>2. editor' = [editor EXCEPT ![e] = x]
      BY <1>10 DEF Change
    <3> HIDE DEF x
    <3> QED
      BY <3>1, <3>2
  <2> QED
    BY <1>9, <1>10, <2>1 DEF Change
<1>11. ASSUME NEW u \in Uri, Close(e, u) PROVE EditorMoves
  <2>1. PICK call : editor' = [editor EXCEPT ![e] = call] /\ call.pc = "flag"
    <3> DEFINE x == [EditorIdle EXCEPT !.pc = "flag", !.uri = u, !.doc = documents[u]]
    <3>1. x.pc = "flag"
      OBVIOUS
    <3>2. editor' = [editor EXCEPT ![e] = x]
      BY <1>11 DEF Close
    <3> HIDE DEF x
    <3> QED
      BY <3>1, <3>2
  <2> QED
    BY <1>9, <1>11, <2>1 DEF Close
<1>12. CASE CloseBump(e)
  <2>1. PICK call : editor' = [editor EXCEPT ![e] = call] /\ call.pc = "idle"
    <3>1. EditorIdle.pc = "idle"
      OBVIOUS
    <3>2. editor' = [editor EXCEPT ![e] = EditorIdle]
      BY <1>12 DEF CloseBump
    <3> HIDE DEF EditorIdle
    <3> QED
      BY <3>1, <3>2
  <2> QED
    BY <1>9, <1>12, <2>1 DEF CloseBump
<1>13. ASSUME Witness, next_revision' \in {next_revision, next_revision + 1},
              NEW call, editor' = [editor EXCEPT ![e] = call], call.pc # "insert",
              \A u \in Uri :
                \/ Replaces(u)
                \/ /\ Live(u)' = Live(u) /\ documents'[u] = documents[u]
                   /\ documents[u] # Null /\ heap[documents[u]].open => heap'[documents[u]].open
       PROVE  EditorMoves
  BY <1>1, <1>4, <1>5, <1>7, <1>13 DEF EditorMoves
<1>14. PICK u, d : u = editor[e].uri /\ d = editor[e].doc
  OBVIOUS
<1>15. editor[e].pc # "idle" => u \in Uri
  BY <1>2, <1>14
<1>16. editor[e].pc \in Holding => d \in Revision /\ d # Null /\ heap[d] \in Document
  BY <1>1, <1>2, <1>14
<1>17. CASE OpenInsert(e)
  <2>1. PICK call : editor' = [editor EXCEPT ![e] = call] /\ call.pc \in {"idle", "retire"}
    <3>1. CASE documents[u] = Null
      <4>1. EditorIdle.pc = "idle" /\ editor' = [editor EXCEPT ![e] = EditorIdle]
        BY <1>14, <1>17, <3>1 DEF OpenInsert
      <4> HIDE DEF EditorIdle
      <4> QED
        BY <4>1
    <3>2. CASE documents[u] # Null
      <4> DEFINE x == [editor[e] EXCEPT !.pc = "retire", !.doc = documents[u]]
      <4>1. x.pc = "retire"
        BY <1>2 DEF EditorState
      <4>2. editor' = [editor EXCEPT ![e] = x]
        BY <1>14, <1>17, <3>2 DEF OpenInsert
      <4> HIDE DEF x
      <4> QED
        BY <4>1, <4>2
    <3> QED
      BY <3>1, <3>2
  <2>2. /\ u \in Uri /\ d # Null /\ heap' = heap /\ heap[d].open /\ heap[d].parse = d
        /\ documents' = [documents EXCEPT ![u] = d]
    BY <1>14, <1>15, <1>16, <1>17 DEF OpenInsert, Placed, Unseen, Holding
  <2>3. Replaces(u)
    <3>1. Live(u)' = d
      BY <1>1, <2>2 DEF Live, LiveIn
    <3> QED
      BY <1>14, <1>17, <2>2, <3>1 DEF Replaces, Fresh, OpenInsert
  <2>4. ASSUME NEW x \in Uri, x # u
        PROVE  /\ Live(x)' = Live(x) /\ documents'[x] = documents[x]
               /\ documents[x] # Null /\ heap[documents[x]].open => heap'[documents[x]].open
    <3>1. documents'[x] = documents[x]
      BY <1>1, <2>2, <2>4
    <3> QED
      BY <2>2, <3>1, LiveKept
  <2> QED
    BY <1>13, <1>17, <2>1, <2>3, <2>4 DEF OpenInsert
<1>18. CASE OpenRetire(e)
  <2>1. /\ editor' = [editor EXCEPT ![e] = EditorIdle] /\ EditorIdle.pc # "insert"
        /\ documents' = documents /\ \A x \in Revision \ {d} : heap'[x] = heap[x]
    BY <1>1, <1>14, <1>18 DEF OpenRetire
  <2>2. \A x \in Uri : documents[x] # d
    BY <1>14, <1>18 DEF OpenRetire, Placed, Replaced
  <2>3. ASSUME NEW x \in Uri
        PROVE  /\ Live(x)' = Live(x) /\ documents'[x] = documents[x]
               /\ documents[x] # Null /\ heap[documents[x]].open => heap'[documents[x]].open
    BY <1>3, <2>1, <2>2, LiveKept
  <2> QED
    BY <1>13, <1>18, <2>1, <2>3 DEF OpenRetire
<1>19. ASSUME documents' = documents, editor[e].pc \in Holding, NEW x \in Uri, documents[x] # d,
              \A y \in Revision \ {d} : heap'[y] = heap[y]
       PROVE  /\ Live(x)' = Live(x) /\ documents'[x] = documents[x]
              /\ documents[x] # Null /\ heap[documents[x]].open => heap'[documents[x]].open
  BY <1>3, <1>19, LiveKept
<1>20. CASE ChangeEdit(e)
  <2>1. /\ editor' = [editor EXCEPT ![e] = EditorIdle] /\ EditorIdle.pc # "insert"
        /\ documents' = documents /\ \A x \in Revision \ {d} : heap'[x] = heap[x]
        /\ next_revision' \in {next_revision, next_revision + 1}
        /\ heap[d].open \/ heap' = heap
        /\ heap[d].open => heap'[d].open /\ heap'[d].parse = next_revision
        /\ editor[e].pc \in Holding
    BY <1>1, <1>14, <1>16, <1>20 DEF ChangeEdit, Edited, Holding
  <2>2. ASSUME NEW x \in Uri
        PROVE  \/ Replaces(x)
               \/ /\ Live(x)' = Live(x) /\ documents'[x] = documents[x]
                  /\ documents[x] # Null /\ heap[documents[x]].open => heap'[documents[x]].open
    <3>1. CASE documents[x] # d \/ heap' = heap
      BY <1>19, <2>1, <3>1, LiveKept
    <3>2. CASE documents[x] = d /\ heap[d].open
      <4>1. Live(x)' = next_revision
        BY <1>16, <2>1, <3>2 DEF Live, LiveIn
      <4> QED
        BY <1>1, <4>1 DEF Replaces, Fresh
    <3> QED
      BY <2>1, <3>1, <3>2
  <2> QED
    BY <1>13, <1>20, <2>1, <2>2 DEF ChangeEdit
<1>21. CASE CloseFlag(e)
  <2>1. PICK call : editor' = [editor EXCEPT ![e] = call] /\ call.pc = "remove"
    <3> DEFINE x == [editor[e] EXCEPT !.pc = "remove"]
    <3>1. x.pc = "remove"
      BY <1>2 DEF EditorState
    <3>2. editor' = [editor EXCEPT ![e] = x]
      BY <1>21 DEF CloseFlag
    <3> HIDE DEF x
    <3> QED
      BY <3>1, <3>2
  <2>2. /\ documents' = documents /\ \A x \in Revision \ {d} : heap'[x] = heap[x]
        /\ ~ heap'[d].open /\ editor[e].pc \in Holding
    BY <1>1, <1>14, <1>16, <1>21 DEF CloseFlag, Holding, Document
  <2>3. ASSUME NEW x \in Uri
        PROVE  \/ Replaces(x)
               \/ /\ Live(x)' = Live(x) /\ documents'[x] = documents[x]
                  /\ documents[x] # Null /\ heap[documents[x]].open => heap'[documents[x]].open
    <3>1. CASE documents[x] # d
      BY <1>19, <2>2, <3>1
    <3>2. CASE documents[x] = d
      BY <2>2, <3>2 DEF Replaces, Live, LiveIn
    <3> QED
      BY <3>1, <3>2
  <2> QED
    BY <1>13, <1>21, <2>1, <2>3 DEF CloseFlag
<1>22. CASE CloseRemove(e)
  <2>1. PICK call : editor' = [editor EXCEPT ![e] = call] /\ call.pc = "bump"
    <3> DEFINE x == [editor[e] EXCEPT !.pc = "bump"]
    <3>1. x.pc = "bump"
      BY <1>2 DEF EditorState
    <3>2. editor' = [editor EXCEPT ![e] = x]
      BY <1>22 DEF CloseRemove
    <3> HIDE DEF x
    <3> QED
      BY <3>1, <3>2
  <2>2. /\ heap' = heap /\ u \in Uri
        /\ \A x \in Uri : documents'[x] = documents[x] \/ documents'[x] = Null
    BY <1>1, <1>14, <1>15, <1>22 DEF CloseRemove
  <2>3. ASSUME NEW x \in Uri
        PROVE  \/ Replaces(x)
               \/ /\ Live(x)' = Live(x) /\ documents'[x] = documents[x]
                  /\ documents[x] # Null /\ heap[documents[x]].open => heap'[documents[x]].open
    <3>1. CASE documents'[x] = documents[x]
      BY <2>2, <3>1, LiveKept
    <3>2. CASE documents'[x] = Null
      BY <3>2 DEF Replaces, Live, LiveIn
    <3> QED
      BY <2>2, <3>1, <3>2
  <2> QED
    BY <1>13, <1>22, <2>1, <2>3 DEF CloseRemove
<1> QED
  BY <1>8, <1>10, <1>11, <1>12, <1>17, <1>18, <1>20, <1>21, <1>22 DEF EditorStep, EditorCall

-----------------------------------------------------------------------------
(* The steps of a call.                                                     *)

(* The call goes on with what it has seen, or has ended.                     *)
LEMMA CallWitnessed ==
    ASSUME Shape, Witnessed, NEW r \in Reader, NEW call,
           reader' = [reader EXCEPT ![r] = call],
           UNCHANGED << next_revision, documents, heap, editor >>,
           \A q \in Reader \ {r} : since'[q] = since[q],
           call.pc \in Resolving => Followed(call, since'[r])
    PROVE  Witnessed'
<1>1. ASSUME NEW q \in Reader, reader'[q].pc \in Resolving
      PROVE  Followed(reader'[q], since'[q])
  BY <1>1 DEF Witnessed, Shape, TypeOK
<1>2. \A p : SeenBefore(p)' = SeenBefore(p)
  BY DEF SeenBefore
<1>3. \A u : Live(u)' = Live(u)
  BY DEF Live, LiveIn
<1>4. ASSUME NEW q \in Reader, reader'[q].pc \in Resolving
      PROVE  Followed(reader[q], since[q])'
  <2>1. PICK c, seen : c = reader'[q] /\ seen = since'[q]
    OBVIOUS
  <2>2. Followed(c, seen)
    BY <1>1, <1>4, <2>1
  <2>3. Followed(c, seen)'
    BY <1>2, <1>3, <2>2 DEF Followed, Overtaken
  <2> QED
    BY <2>1, <2>3 DEF Followed, Overtaken
<1> QED
  BY <1>4 DEF Witnessed

(* An attempt that has come to nothing has been overtaken, and so the next   *)
(* one begins with as many live parses seen as it needs.                     *)
LEMMA FailWitnessed ==
    ASSUME Shape, Witnessed, NEW r \in Reader, reader[r].pc \in Resolving, Fail(r),
           Overtaken(since[r], reader[r].attempt)
    PROVE  /\ Witnessed'
           /\ reader'[r].pc = "idle" => Overtaken(since[r], reader[r].attempts)
<1>1. /\ reader \in [Reader -> ReaderState] /\ reader[r] \in ReaderState
      /\ since \in [Reader -> SUBSET (Revision \cup {Null})]
  BY DEF Shape, TypeOK
<1>2. Followed(reader[r], since[r]) /\ Cardinality(since[r]) \in Nat
  BY FS_CardinalityType DEF Witnessed, Followed
<1>3. UNCHANGED << next_revision, documents, heap, editor >>
  BY DEF Fail, store
<1>4. CASE reader[r].attempt < reader[r].attempts
  <2> DEFINE c == [ReaderIdle EXCEPT !.pc = "lookup", !.uri = reader[r].uri,
                     !.attempts = reader[r].attempts, !.attempt = reader[r].attempt + 1]
  <2>1. reader' = [reader EXCEPT ![r] = c]
    BY <1>4 DEF Fail, Failed
  <2>2. c.pc = "lookup" /\ c.uri = reader[r].uri /\ c.attempt = reader[r].attempt + 1
    BY DEF ReaderIdle
  <2> HIDE DEF c
  <2>3. reader'[r].pc = "lookup"
    BY <1>1, <2>1, <2>2
  <2>4. since' = since
    BY <2>3 DEF Fail
  <2>5. Followed(c, since[r])
    BY <1>1, <1>2, <2>2 DEF Followed, Overtaken, ReaderState
  <2> QED
    BY <1>3, <2>1, <2>3, <2>4, <2>5, CallWitnessed
<1>5. CASE ~ reader[r].attempt < reader[r].attempts
  <2>1. reader' = [reader EXCEPT ![r] = ReaderIdle] /\ ReaderIdle.pc = "idle"
    BY <1>5 DEF Fail, Failed, ReaderIdle
  <2>2. reader'[r].pc = "idle"
    BY <1>1, <2>1
  <2>3. \A q \in Reader \ {r} : since'[q] = since[q]
    BY <1>1, <2>2 DEF Fail
  <2>4. Witnessed'
    BY <1>3, <2>1, <2>3, CallWitnessed DEF Resolving
  <2> QED
    BY <1>1, <1>2, <1>5, <2>4 DEF Overtaken, ReaderState
<1> QED
  BY <1>4, <1>5

(* An attempt that comes to nothing has been overtaken.                      *)
LEMMA AttemptsFail ==
    ASSUME Shape, Witnessed, Parsed, NEW r \in Reader
    PROVE  /\ reader[r].pc \in {"lookup", "again"} /\ documents[reader[r].uri] = Null
              => Overtaken(since[r], reader[r].attempt)
           /\ reader[r].pc = "read" /\ ~ heap[reader[r].doc].open
              => Overtaken(since[r], reader[r].attempt)
           /\ reader[r].pc = "recheck" /\ ~ IsCurrent(heap[reader[r].doc], reader[r].parse)
              => Overtaken(since[r], reader[r].attempt)
<1>1. reader[r].pc \in Resolving => Followed(reader[r], since[r])
  BY DEF Witnessed
<1>2. ASSUME reader[r].pc \in {"lookup", "again"}, documents[reader[r].uri] = Null
      PROVE  Overtaken(since[r], reader[r].attempt)
  BY <1>1, <1>2 DEF Followed, Resolving, Live, LiveIn, Overtaken
<1>3. ASSUME reader[r].pc = "read", ~ heap[reader[r].doc].open
      PROVE  Overtaken(since[r], reader[r].attempt)
  BY <1>1, <1>3 DEF Followed, Resolving
<1>4. ASSUME reader[r].pc = "recheck", ~ IsCurrent(heap[reader[r].doc], reader[r].parse)
      PROVE  Overtaken(since[r], reader[r].attempt)
  <2> SUFFICES ASSUME ~ Overtaken(since[r], reader[r].attempt) PROVE FALSE
    OBVIOUS
  <2>1. Live(reader[r].uri) = reader[r].parse /\ documents[reader[r].uri] = reader[r].doc
    BY <1>1, <1>4 DEF Followed, Resolving
  <2>2. reader[r].parse # Null
    BY <1>4, NullAssumption DEF Shape, ReadersHold, Revision
  <2>3. heap[reader[r].doc].open /\ heap[reader[r].doc].parse = reader[r].parse
    BY <2>1, <2>2 DEF Live, LiveIn
  <2>4. cell[reader[r].parse] # Null
    BY <1>4 DEF Parsed
  <2> QED
    BY <1>4, <2>3, <2>4 DEF IsCurrent
<1> QED
  BY <1>2, <1>3, <1>4

(* Each step of a call keeps what the calls have witnessed, and the call     *)
(* gives up only if it has been overtaken in each of its attempts.           *)
GivesUp(r) == reader[r].pc \in Resolving /\ reader'[r].pc = "idle"

LEMMA StepWitnessed ==
    ASSUME Shape, Witnessed, Parsed, NEW r \in Reader, ReaderStep(r)
    PROVE  Witnessed' /\ (GivesUp(r) => Overtaken(since[r], reader[r].attempts))
<1>1. /\ reader \in [Reader -> ReaderState] /\ reader[r] \in ReaderState
      /\ since \in [Reader -> SUBSET (Revision \cup {Null})]
  BY DEF Shape, TypeOK
<1>2. reader[r].pc \in Resolving => Followed(reader[r], since[r])
  BY DEF Witnessed
<1>3. ASSUME reader[r].pc \in Resolving, Fail(r), Overtaken(since[r], reader[r].attempt)
      PROVE  Witnessed' /\ (GivesUp(r) => Overtaken(since[r], reader[r].attempts))
  BY <1>3, FailWitnessed DEF GivesUp
<1>4. ASSUME reader[r].pc \in Resolving,
             UNCHANGED << next_revision, documents, heap, editor, since >>,
             NEW call \in ReaderState, reader' = [reader EXCEPT ![r] = call], call.pc # "idle",
             call.pc \in Resolving => Followed(call, since[r])
      PROVE  Witnessed' /\ (GivesUp(r) => Overtaken(since[r], reader[r].attempts))
  BY <1>1, <1>4, CallWitnessed DEF GivesUp
<1>5. ASSUME reader[r].pc \notin Resolving, UNCHANGED << next_revision, documents, heap, editor >>,
             \A q \in Reader \ {r} : since'[q] = since[q],
             NEW call, reader' = [reader EXCEPT ![r] = call], call.pc \notin Resolving
      PROVE  Witnessed' /\ (GivesUp(r) => Overtaken(since[r], reader[r].attempts))
  BY <1>5, CallWitnessed DEF GivesUp
<1>6. PICK c, u, seen : c = reader[r] /\ u = c.uri /\ seen = since[r]
  OBVIOUS
<1>7. \/ Overtaken(seen, c.attempt)
      \/ /\ c.pc = "read" => documents[u] = c.doc /\ heap[c.doc].open
         /\ c.pc \in {"init", "parsing", "again", "recheck"} => Live(u) = c.parse
         /\ c.pc = "recheck" => documents[u] = c.doc
      \/ c.pc \notin Resolving
  BY <1>2, <1>6 DEF Followed
<1>8. ASSUME c.pc \in Resolving, NEW d \in ReaderState, d.uri = u, d.attempt = c.attempt,
             \/ Overtaken(seen, c.attempt)
             \/ /\ d.pc = "read" => documents[u] = d.doc /\ heap[d.doc].open
                /\ d.pc \in {"init", "parsing", "again", "recheck"} => Live(u) = d.parse
                /\ d.pc = "recheck" => documents[u] = d.doc
      PROVE  Followed(d, seen)
  BY <1>2, <1>6, <1>8 DEF Followed
<1>9. CASE Lookup(r, "lookup", "read")
  <2>1. CASE documents[u] = Null
    BY <1>3, <1>6, <1>9, <2>1, AttemptsFail DEF Lookup, Resolving
  <2>2. CASE documents[u] # Null
    <3> DEFINE d == [c EXCEPT !.pc = "read", !.doc = documents[u]]
    <3>1. /\ reader' = [reader EXCEPT ![r] = d] /\ UNCHANGED << store, editor, since >>
          /\ c.pc = "lookup"
      BY <1>1, <1>6, <1>9, <2>2 DEF Lookup, ReaderState
    <3>2. documents[u] \in Revision
      BY <1>6, <1>9, <2>2 DEF Lookup, Shape, TypeOK, ReadersHold
    <3>3. /\ d \in ReaderState /\ d.pc = "read" /\ d.uri = u /\ d.attempt = c.attempt
          /\ d.doc = documents[u]
      BY <1>1, <1>6, <3>2 DEF ReaderState
    <3>4. Overtaken(seen, c.attempt) \/ heap[documents[u]].open
      BY <1>2, <1>6, <2>2, <3>1 DEF Followed, Resolving, Live, LiveIn, Overtaken
    <3> HIDE DEF d
    <3>5. Followed(d, since[r])
      BY <1>6, <1>8, <3>1, <3>3, <3>4 DEF Resolving
    <3> QED
      BY <1>4, <1>6, <3>1, <3>3, <3>5 DEF store, Resolving
  <2> QED
    BY <2>1, <2>2
<1>10. CASE ParseRead(r)
  <2>1. CASE ~ heap[c.doc].open
    BY <1>3, <1>6, <1>10, <2>1, AttemptsFail DEF ParseRead, Resolving
  <2>2. CASE heap[c.doc].open
    <3>1. c.pc = "read" /\ c.doc \in Revision /\ heap[c.doc] \in Document
      BY <1>6, <1>10 DEF ParseRead, Shape, ReadersHold, Objects
    <3>2. PICK parse, pc, text :
             /\ reader' = [reader EXCEPT ![r].doc = Null, ![r].parse = parse,
                                         ![r].pc = pc, ![r].text = text]
             /\ parse = heap[c.doc].parse /\ pc \in {"some", "init"} /\ text \in Text \cup {Null}
      BY <1>6, <1>10, <2>2, <3>1 DEF ParseRead, Document
    <3> DEFINE d == [c EXCEPT !.doc = Null, !.parse = parse, !.pc = pc, !.text = text]
    <3>3. reader' = [reader EXCEPT ![r] = d] /\ UNCHANGED << store, editor, since >>
      BY <1>1, <1>6, <1>10, <2>2, <3>2 DEF ParseRead, ReaderState
    <3>4. parse \in Revision
      BY <3>1, <3>2 DEF Document
    <3>5. /\ d \in ReaderState /\ d.pc \in {"some", "init"} /\ d.uri = u /\ d.attempt = c.attempt
          /\ d.parse = parse
      BY <1>1, <1>6, <3>2, <3>4 DEF ReaderState
    <3>6. Overtaken(seen, c.attempt) \/ Live(u) = parse
      BY <1>7, <2>2, <3>1, <3>2, NullAssumption DEF Live, LiveIn, Revision, Resolving
    <3> HIDE DEF d
    <3>7. Followed(d, since[r])
      BY <1>6, <1>8, <3>1, <3>5, <3>6 DEF Resolving
    <3> QED
      BY <1>4, <1>6, <3>1, <3>3, <3>5, <3>7 DEF store, Resolving
  <2> QED
    BY <2>1, <2>2
<1>11. CASE InitBegin(r) \/ InitEnd(r) \/ InitJoin(r)
  <2>1. PICK pc, text :
           /\ reader' = [reader EXCEPT ![r].pc = pc, ![r].text = text]
           /\ pc \in {"parsing", "again"} /\ text \in Text \cup {Null}
    <3>1. CASE InitBegin(r)
      <4>1. reader' = [reader EXCEPT ![r].pc = "parsing", ![r].text = reader[r].text]
        BY <1>1, <3>1 DEF InitBegin, ReaderState
      <4> QED
        BY <1>1, <4>1 DEF ReaderState
    <3>2. CASE InitEnd(r) \/ InitJoin(r)
      BY <3>2 DEF InitEnd, InitJoin
    <3> QED
      BY <1>11, <3>1, <3>2
  <2> DEFINE d == [c EXCEPT !.pc = pc, !.text = text]
  <2>2. /\ reader' = [reader EXCEPT ![r] = d] /\ UNCHANGED << store, editor, since >>
        /\ c.pc \in {"init", "parsing"}
    BY <1>1, <1>6, <1>11, <2>1 DEF InitBegin, InitEnd, InitJoin, ReaderState
  <2>3. /\ d \in ReaderState /\ d.pc \in {"parsing", "again"} /\ d.uri = u /\ d.attempt = c.attempt
        /\ d.parse = c.parse
    BY <1>1, <1>6, <2>1 DEF ReaderState
  <2> HIDE DEF d
  <2>4. Followed(d, since[r])
    BY <1>6, <1>7, <1>8, <2>2, <2>3 DEF Resolving
  <2> QED
    BY <1>4, <1>6, <2>2, <2>3, <2>4 DEF store, Resolving
<1>12. CASE Lookup(r, "again", "recheck")
  <2>1. CASE documents[u] = Null
    BY <1>3, <1>6, <1>12, <2>1, AttemptsFail DEF Lookup, Resolving
  <2>2. CASE documents[u] # Null
    <3> DEFINE d == [c EXCEPT !.pc = "recheck", !.doc = documents[u]]
    <3>1. /\ reader' = [reader EXCEPT ![r] = d] /\ UNCHANGED << store, editor, since >>
          /\ c.pc = "again"
      BY <1>1, <1>6, <1>12, <2>2 DEF Lookup, ReaderState
    <3>2. documents[u] \in Revision
      BY <1>6, <1>12, <2>2 DEF Lookup, Shape, TypeOK, ReadersHold
    <3>3. /\ d \in ReaderState /\ d.pc = "recheck" /\ d.uri = u /\ d.attempt = c.attempt
          /\ d.doc = documents[u] /\ d.parse = c.parse
      BY <1>1, <1>6, <3>2 DEF ReaderState
    <3> HIDE DEF d
    <3>4. Followed(d, since[r])
      BY <1>6, <1>7, <1>8, <3>1, <3>3 DEF Resolving
    <3> QED
      BY <1>4, <1>6, <3>1, <3>3, <3>4 DEF store, Resolving
  <2> QED
    BY <2>1, <2>2
<1>13. CASE Recheck(r)
  <2>1. CASE ~ IsCurrent(heap[c.doc], c.parse)
    BY <1>3, <1>6, <1>13, <2>1, AttemptsFail DEF Recheck, Resolving
  <2>2. CASE IsCurrent(heap[c.doc], c.parse)
    <3> DEFINE d == [c EXCEPT !.pc = "some", !.doc = Null]
    <3>1. /\ reader' = [reader EXCEPT ![r] = d] /\ UNCHANGED << store, editor, since >>
          /\ c.pc = "recheck"
      BY <1>1, <1>6, <1>13, <2>2 DEF Recheck, ReaderState
    <3>2. d \in ReaderState /\ d.pc = "some"
      BY <1>1, <1>6 DEF ReaderState
    <3> HIDE DEF d
    <3> QED
      BY <1>4, <1>6, <3>1, <3>2 DEF store, Resolving
  <2> QED
    BY <2>1, <2>2
<1>14. ASSUME reader' = [reader EXCEPT ![r] = ReaderIdle], since' = [since EXCEPT ![r] = {}],
              reader[r].pc \notin Resolving, UNCHANGED << next_revision, documents, heap, editor >>
       PROVE  Witnessed' /\ (GivesUp(r) => Overtaken(since[r], reader[r].attempts))
  <2>1. ReaderIdle.pc \notin Resolving
    BY DEF ReaderIdle, Resolving
  <2> QED
    BY <1>1, <1>5, <1>14, <2>1
<1>15. CASE LookupToCommit(r)
  <2>1. CASE documents[u] = Null
    <3>1. Fail(r) /\ reader[r].pc = "some"
      BY <1>6, <1>15, <2>1 DEF LookupToCommit, Lookup
    <3>2. Failed(reader[r]) = ReaderIdle /\ ReaderIdle.pc = "idle" /\ reader[r].pc \notin Resolving
      BY <3>1 DEF Failed, Resolving, ReaderIdle
    <3>3. reader' = [reader EXCEPT ![r] = ReaderIdle] /\ reader'[r].pc = "idle"
      BY <1>1, <3>1, <3>2 DEF Fail
    <3> QED
      BY <1>14, <3>1, <3>2, <3>3 DEF Fail, store
  <2>2. CASE documents[u] # Null
    <3> DEFINE d == [c EXCEPT !.pc = "commit", !.doc = documents[u]]
    <3>1. /\ reader' = [reader EXCEPT ![r] = d] /\ UNCHANGED << store, editor, since >>
          /\ c.pc = "some"
      BY <1>1, <1>6, <1>15, <2>2 DEF LookupToCommit, Lookup, ReaderState
    <3>2. d.pc = "commit"
      BY <1>1, <1>6 DEF ReaderState
    <3> HIDE DEF d
    <3> QED
      BY <1>5, <1>6, <3>1, <3>2 DEF store, Resolving
  <2> QED
    BY <2>1, <2>2
<1>16. CASE Commit(r) \/ Drop(r)
  BY <1>14, <1>16 DEF Commit, Drop, Resolving, store
<1> QED
  BY <1>9, <1>10, <1>11, <1>12, <1>13, <1>15, <1>16 DEF ReaderStep

(* A call begins with the live parse as it is.                               *)
LEMMA BeginWitnessed ==
    ASSUME Shape, Pairing, Placed, Witnessed,
           NEW r \in Reader, NEW u \in Uri, NEW n \in 1 .. 2, ParseResult(r, u, n)
    PROVE  Witnessed' /\ ~ GivesUp(r)
<1> DEFINE d == [pc |-> "lookup", uri |-> u, doc |-> Null, parse |-> Null,
                 text |-> Null, attempts |-> n, attempt |-> 1]
<1>1. /\ reader' = [reader EXCEPT ![r] = d] /\ reader[r].pc = "idle"
      /\ since' = [since EXCEPT ![r] = {Live(u)}]
      /\ UNCHANGED << next_revision, documents, heap, editor >>
  BY DEF ParseResult, store
<1>2. since'[r] = {Live(u)} /\ \A q \in Reader \ {r} : since'[q] = since[q]
  BY <1>1 DEF Shape, TypeOK
<1>3. d.pc = "lookup" /\ d.uri = u /\ d.attempt = 1
  OBVIOUS
<1> HIDE DEF d
<1>4. IsFiniteSet({Live(u)}) /\ Cardinality({Live(u)}) = 1
  BY FS_Singleton
<1>5. \A p \in {Live(u)} \ {Null} : SeenBefore(p)
  BY LiveSeen
<1>6. Followed(d, {Live(u)})
  BY <1>3, <1>4, <1>5 DEF Followed
<1> QED
  BY <1>1, <1>2, <1>6, CallWitnessed DEF GivesUp, Resolving

(* A cell that has been filled stays filled.                                 *)
LEMMA NextParsed == Shape /\ Parsed /\ [Next]_vars => Parsed'
<1> SUFFICES ASSUME Shape, Parsed, [Next]_vars PROVE Parsed'
  OBVIOUS
<1>1. reader \in [Reader -> ReaderState] /\ cell \in [Revision -> Text \cup {Null}]
  BY DEF Shape, TypeOK
<1>2. ASSUME UNCHANGED << reader, cell >> PROVE Parsed'
  BY <1>2 DEF Parsed
<1>3. ASSUME NEW r \in Reader, NEW call, reader' = [reader EXCEPT ![r] = call],
             \A c : cell[c] # Null => cell'[c] # Null,
             call.pc \in {"again", "recheck"} => cell'[call.parse] # Null
      PROVE  Parsed'
  BY <1>1, <1>3 DEF Parsed
<1>4. ASSUME NEW e \in Editor, EditorCall(e) \/ EditorStep(e) PROVE Parsed'
  BY <1>2, <1>4 DEF EditorStep, EditorCall, Open, Change, Close, OpenInsert, OpenRetire, ChangeEdit,
         CloseFlag, CloseRemove, CloseBump
<1>5. ASSUME NEW r \in Reader, NEW u \in Uri, NEW n \in 1 .. 2, ParseResult(r, u, n) PROVE Parsed'
  <2> DEFINE d == [pc |-> "lookup", uri |-> u, doc |-> Null, parse |-> Null,
                   text |-> Null, attempts |-> n, attempt |-> 1]
  <2>1. reader' = [reader EXCEPT ![r] = d] /\ UNCHANGED cell /\ d.pc = "lookup"
    BY <1>5 DEF ParseResult
  <2> HIDE DEF d
  <2> QED
    BY <1>3, <2>1
<1>6. ASSUME NEW r \in Reader, Fail(r) PROVE Parsed'
  <2>1. reader' = [reader EXCEPT ![r] = Failed(reader[r])] /\ UNCHANGED cell
    BY <1>6 DEF Fail
  <2>2. Failed(reader[r]).pc \in {"lookup", "idle"}
    BY DEF Failed, ReaderIdle
  <2> QED
    BY <1>3, <2>1, <2>2
<1>7. ASSUME NEW r \in Reader, NEW to, NEW from, Lookup(r, from, to),
             to \in {"read", "recheck", "commit"}, to = "recheck" => from = "again"
      PROVE  Parsed'
  <2> DEFINE d == [reader[r] EXCEPT !.pc = to, !.doc = documents[reader[r].uri]]
  <2>1. CASE documents[reader[r].uri] # Null
    <3>1. reader' = [reader EXCEPT ![r] = d] /\ UNCHANGED cell /\ reader[r].pc = from
      BY <1>1, <1>7, <2>1 DEF Lookup
    <3>2. d.pc = to /\ d.parse = reader[r].parse
      BY <1>1 DEF ReaderState
    <3> HIDE DEF d
    <3>3. d.pc \in {"again", "recheck"} => cell[d.parse] # Null
      BY <1>7, <3>1, <3>2 DEF Parsed
    <3> QED
      BY <1>3, <3>1, <3>3
  <2> QED
    BY <1>6, <1>7, <2>1 DEF Lookup
<1>8. ASSUME NEW r \in Reader, ParseRead(r) \/ Recheck(r) \/ InitBegin(r), ~ Fail(r) PROVE Parsed'
  <2>1. \A q \in Reader : reader'[q].pc \in {"again", "recheck"} => reader'[q] = reader[q]
    BY <1>1, <1>8 DEF ParseRead, Recheck, InitBegin, ReaderState
  <2>2. UNCHANGED cell
    BY <1>8 DEF ParseRead, Recheck, InitBegin
  <2> QED
    BY <2>1, <2>2 DEF Parsed
<1>9. ASSUME NEW r \in Reader, InitEnd(r) \/ InitJoin(r) PROVE Parsed'
  <2> DEFINE d == [reader[r] EXCEPT !.pc = "again", !.text = Null]
  <2>1. reader' = [reader EXCEPT ![r] = d]
    BY <1>1, <1>9 DEF InitEnd, InitJoin
  <2>2. d.parse = reader[r].parse
    BY <1>1 DEF ReaderState
  <2>3. /\ \A c : cell[c] # Null => cell'[c] # Null
        /\ cell'[reader[r].parse] # Null
    <3>1. CASE InitEnd(r)
      <4>1. /\ cell' = [cell EXCEPT ![reader[r].parse] = reader[r].text]
            /\ reader[r].parse \in Revision /\ reader[r].text # Null
        BY <3>1, NullAssumption DEF InitEnd, Shape, ReadersHold
      <4> QED
        BY <1>1, <4>1
    <3>2. CASE InitJoin(r)
      BY <3>2 DEF InitJoin
    <3> QED
      BY <1>9, <3>1, <3>2
  <2> HIDE DEF d
  <2> QED
    BY <1>3, <2>1, <2>2, <2>3
<1>10. ASSUME NEW r \in Reader, Commit(r) \/ Drop(r) PROVE Parsed'
  <2>1. reader' = [reader EXCEPT ![r] = ReaderIdle] /\ UNCHANGED cell /\ ReaderIdle.pc = "idle"
    BY <1>10 DEF Commit, Drop, ReaderIdle
  <2> QED
    BY <1>3, <2>1
<1>11. CASE UNCHANGED vars
  BY <1>2, <1>11 DEF vars
<1>12. ASSUME NEW r \in Reader, ReaderStep(r) PROVE Parsed'
  BY <1>6, <1>7, <1>8, <1>9, <1>10, <1>12 DEF ReaderStep, LookupToCommit
<1> QED
  BY <1>4, <1>5, <1>11, <1>12 DEF Next

(* Every step keeps what the calls have witnessed.                           *)
LEMMA NextWitnessed ==
    /\ Shape /\ Pairing /\ Placed /\ Witnessed /\ Parsed
    /\ (Shape /\ Pairing /\ Placed)' /\ [Next]_vars
    => /\ Witnessed'
       /\ [\A r \in Reader : GivesUp(r) => Overtaken(since[r], reader[r].attempts)]_vars
<1> SUFFICES ASSUME Shape, Pairing, Placed, Witnessed, Parsed,
                    (Shape /\ Pairing /\ Placed)', [Next]_vars
             PROVE  /\ Witnessed'
                    /\ UNCHANGED vars
                       \/ \A r \in Reader : GivesUp(r) => Overtaken(since[r], reader[r].attempts)
  OBVIOUS
<1>1. reader \in [Reader -> ReaderState]
  BY DEF Shape, TypeOK
<1>2. ASSUME NEW e \in Editor, EditorCall(e) \/ EditorStep(e)
      PROVE  Witnessed' /\ \A r \in Reader : ~ GivesUp(r)
  <2>1. EditorMoves
    BY <1>2, EditorStepMoves
  <2>2. \A u \in Uri : Live(u)' # Null => SeenBefore(Live(u))'
    <3>1. (\A u \in Uri : Live(u) # Null => SeenBefore(Live(u)))'
      BY LiveSeen, PTL
    <3> QED
      BY <3>1
  <2> QED
    BY <2>1, <2>2, MovesWitnessed DEF GivesUp, EditorMoves, Resolving
<1>3. ASSUME NEW r \in Reader, ReaderStep(r) \/ \E u \in Uri, n \in 1 .. 2 : ParseResult(r, u, n)
      PROVE  /\ Witnessed'
             /\ \A q \in Reader : GivesUp(q) => Overtaken(since[q], reader[q].attempts)
  <2>1. Witnessed' /\ (GivesUp(r) => Overtaken(since[r], reader[r].attempts))
    BY <1>3, StepWitnessed, BeginWitnessed
  <2>2. \A q \in Reader \ {r} : reader'[q] = reader[q]
    BY <1>1, <1>3 DEF ReaderStep, ParseResult, Lookup, Fail, ParseRead, InitBegin, InitEnd, InitJoin,
                      Recheck, LookupToCommit, Commit, Drop
  <2> QED
    BY <2>1, <2>2 DEF GivesUp, Resolving
<1>4. CASE UNCHANGED vars
  <2>1. UNCHANGED << reader, since, next_revision, documents, heap, editor >>
    BY <1>4 DEF vars
  <2>2. \A p : SeenBefore(p)' = SeenBefore(p)
    BY <2>1 DEF SeenBefore
  <2>3. \A u : Live(u)' = Live(u)
    BY <2>1 DEF Live, LiveIn
  <2> QED
    BY <1>4, <2>1, <2>2, <2>3 DEF Witnessed, Followed, Overtaken
<1> QED
  BY <1>2, <1>3, <1>4 DEF Next

(* A call gives up only on a closed buffer or after as many live parses as   *)
(* it has attempts, and one more: an interactive request, which has two,     *)
(* survives one edit of its document however many editors and readers there  *)
(* are.                                                                      *)
THEOREM InteractiveSurvivesOneEdit == Spec => NoneOnlyWhenOvertaken
<1>1. Init => Witnessed /\ Parsed
  <2> SUFFICES ASSUME Init PROVE Witnessed /\ Parsed
    OBVIOUS
  <2>1. \A r \in Reader : reader[r].pc = "idle"
    BY DEF Init, ReaderIdle
  <2> QED
    BY <2>1 DEF Witnessed, Parsed, Resolving
<1>2. [\A r \in Reader : GivesUp(r) => Overtaken(since[r], reader[r].attempts)]_vars
      => [\A r \in Reader : reader[r].pc \in Resolving /\ reader'[r].pc = "idle"
            => Null \in since[r] \/ Cardinality(since[r]) > reader[r].attempts]_vars
  BY DEF GivesUp, Overtaken
<1> QED
  BY <1>1, <1>2, InitShape, NextShape, InitPairing, NextPairing, InitPlaced, NextPlaced,
     NextParsed, NextWitnessed, PTL DEF Spec, NoneOnlyWhenOvertaken

-----------------------------------------------------------------------------
(* The hint cache.                                                           *)

WorkerState ==
    [pc : {"idle", "stamp", "root", "closure"}, uri : Uri \cup {Null},
     config : Nat, stamp : Nat, view : Views]

Entry == [stamp : Nat, config : Nat, view : Views]

HTyped ==
    /\ disk \in [Uri -> 0 .. MaxDisk]
    /\ config \in Nat
    /\ cache \in [Uri -> Entry \cup {Null}]
    /\ worker \in [Worker -> WorkerState]
    /\ \A w \in Worker : worker[w].pc # "idle" => worker[w].uri \in Uri

(* A close has taken its buffer away and not advanced the counter yet.       *)
Closing == \E e \in Editor : editor[e].pc \in {"remove", "bump"}

(* The buffer of d is the one that was read, or one just opened, or a close  *)
(* is under way.                                                             *)
Lasts(d, buffer) ==
    \/ buffer = Live(d)
    \/ Live(d) # Null /\ Live(d) = documents[d]
    \/ Closing

(* No edit and no finished close came after what the view is made of.        *)
ViewLasts(view, stamp) ==
    /\ stamp <= next_revision
    /\ stamp = next_revision => \A d \in DOMAIN view : Lasts(d, view[d].buffer)

ComputationsLast ==
    \A w \in Worker :
        /\ worker[w].pc = "root" => worker[w].stamp <= next_revision
        /\ worker[w].pc = "closure" => ViewLasts(worker[w].view, worker[w].stamp)

EntriesLast ==
    \A u \in Uri : cache[u] # Null =>
        /\ ViewLasts(cache[u].view, cache[u].stamp)
        /\ Closure[u] \subseteq DOMAIN cache[u].view

HInv == HTyped /\ ComputationsLast /\ EntriesLast

-----------------------------------------------------------------------------

(* The buffer of a URI is named by a revision, or there is none.             *)
LEMMA LiveType ==
    ASSUME Shape, NEW u \in Uri
    PROVE  /\ Live(u) \in Revision \cup {Null}
           /\ documents[u] # Null => documents[u] \in Revision /\ documents[u] < next_revision
<1>1. documents[u] # Null => documents[u] \in Objects
  BY DEF Shape, Allocated
<1>2. \A d \in Objects : d \in Revision /\ d < next_revision /\ heap[d].parse \in Revision
  BY DEF Objects, Document, Shape, Allocated
<1> QED
  BY <1>1, <1>2 DEF Live, LiveIn

(* What a computation takes of a file is a source.                           *)
LEMMA SourceType ==
    ASSUME Shape, HTyped, NEW u \in Uri
    PROVE  Source(u) \in Sources /\ Source(u).buffer = Live(u)
<1>1. Live(u) \in Revision \cup {Null} /\ disk[u] \in 0 .. MaxDisk /\ 0 \in 0 .. MaxDisk
  BY LiveType, MaxDiskAssumption DEF HTyped
<1> QED
  BY <1>1 DEF Source, Sources

(* A step of the cache's machine is one of the store, or none.               *)
LEMMA StoreSteps == [HNext]_<< vars, hintVars >> => [Next]_vars
<1> SUFFICES ASSUME [HNext]_<< vars, hintVars >> PROVE [Next]_vars
  OBVIOUS
<1>1. CASE \E e \in Editor : (StoreStep(e) /\ UNCHANGED hintVars) \/ CloseAndEvict(e)
  BY <1>1 DEF StoreStep, CloseAndEvict, EditorStep, Next
<1>2. CASE (\E u \in Uri : Hit(u)) \/ (\E w \in Worker, u \in Uri : Miss(w, u))
  BY <1>2 DEF Hit, Miss
<1>3. CASE \E w \in Worker : WorkerStep(w)
  BY <1>3 DEF WorkerStep, Stamp, ReadRoot, ReadDependency, Store
<1>4. CASE (\E u \in Uri : DiskWrite(u)) \/ UpdateConfig
  BY <1>4 DEF DiskWrite, UpdateConfig
<1> QED
  BY <1>1, <1>2, <1>3, <1>4 DEF HNext

(* A step of an editor advances the counter, or what was read lasts.         *)
LEMMA StepsLast ==
    ASSUME Shape, Placed, NEW e \in Editor, StoreStep(e)
    PROVE  \/ next_revision' = next_revision + 1
           \/ /\ next_revision' = next_revision
              /\ \A d \in Uri : \A b : Lasts(d, b) => Lasts(d, b)'
<1>e. \A f \in Editor \ {e} : editor'[f] = editor[f]
  BY DEF StoreStep, EditorCall, EditorStep, Open, Change, Close, OpenInsert, OpenRetire,
         ChangeEdit, CloseFlag, CloseRemove, CloseBump, Shape, TypeOK
<1>c. editor[e].pc \notin {"remove", "bump"} => (Closing => Closing')
  BY <1>e DEF Closing
<1>1. ASSUME UNCHANGED << next_revision, documents, heap >>,
             editor[e].pc \notin {"remove", "bump"}
      PROVE  /\ next_revision' = next_revision
             /\ \A d \in Uri : \A b : Lasts(d, b) => Lasts(d, b)'
  BY <1>1, <1>c DEF Lasts, Live
<1>2. CASE EditorCall(e)
  <2>1. CASE \E u \in Uri, v \in Version, t \in Text : Open(e, u, v, t)
    BY <2>1 DEF Open
  <2>2. CASE \/ \E u \in Uri, v \in Version, t \in Text : Change(e, u, v, t)
             \/ \E u \in Uri : Close(e, u)
    <3>1. UNCHANGED << next_revision, documents, heap >> /\ editor[e].pc = "idle"
      BY <2>2 DEF Change, Close
    <3> QED
      BY <1>1, <3>1
  <2> QED
    BY <1>2, <2>1, <2>2 DEF EditorCall
<1>3. CASE OpenInsert(e)
  <2> DEFINE o == editor[e].doc
             u == editor[e].uri
  <2>1. /\ documents' = [documents EXCEPT ![u] = o]
        /\ UNCHANGED << next_revision, heap >>
        /\ Closing => Closing'
    BY <1>3, <1>c DEF OpenInsert
  <2>2. /\ o \in Revision /\ o # Null
        /\ heap[o].open /\ heap[o].parse = o
    BY <1>3, NullAssumption DEF OpenInsert, Shape, EditorsHold, Objects, Revision, Placed, Unseen
  <2> SUFFICES ASSUME NEW d \in Uri, NEW b, Lasts(d, b) PROVE Lasts(d, b)'
    BY <2>1
  <2>3. CASE d = u
    <3>1. documents'[d] = o /\ heap' = heap
      BY <2>1, <2>3 DEF Shape, TypeOK
    <3>2. Live(d)' = o
      BY <2>2, <3>1 DEF Live, LiveIn
    <3> QED
      BY <2>2, <3>1, <3>2 DEF Lasts
  <2>4. CASE d # u
    <3>1. documents'[d] = documents[d] /\ heap' = heap
      BY <2>1, <2>4 DEF Shape, TypeOK
    <3>2. Live(d)' = Live(d)
      BY <3>1 DEF Live, LiveIn
    <3> QED
      BY <2>1, <3>1, <3>2 DEF Lasts
  <2> QED
    BY <2>3, <2>4
<1>4. CASE OpenRetire(e)
  <2>1. /\ heap' = [heap EXCEPT ![editor[e].doc].open = FALSE]
        /\ UNCHANGED << next_revision, documents >>
        /\ Closing => Closing'
        /\ \A u \in Uri : documents[u] # editor[e].doc
    BY <1>4, <1>c DEF OpenRetire, Placed, Replaced
  <2>2. \A u \in Uri : documents[u] # Null => heap'[documents[u]] = heap[documents[u]]
    BY <2>1, LiveType DEF Shape, TypeOK
  <2>3. \A u \in Uri : Live(u)' = Live(u)
    BY <2>1, <2>2 DEF Live, LiveIn
  <2> QED
    BY <2>1, <2>3 DEF Lasts
<1>5. CASE ChangeEdit(e)
  BY <1>1, <1>5 DEF ChangeEdit
<1>6. CASE CloseFlag(e) \/ CloseRemove(e)
  <2>1. editor'[e].pc \in {"remove", "bump"} /\ next_revision' = next_revision
    BY <1>6 DEF CloseFlag, CloseRemove, Shape, TypeOK, EditorState
  <2> QED
    BY <2>1 DEF Lasts, Closing
<1>7. CASE CloseBump(e)
  BY <1>7 DEF CloseBump
<1> QED
  BY <1>2, <1>3, <1>4, <1>5, <1>6, <1>7 DEF StoreStep, EditorStep

(* Nothing has been computed at first.                                       *)
LEMMA InitHints == HInit => HInv
<1> SUFFICES ASSUME HInit PROVE HInv
  OBVIOUS
<1>1. << >> \in Views /\ WorkerIdle \in WorkerState
  <2>1. << >> \in [{} -> Sources]
    OBVIOUS
  <2> QED
    BY <2>1 DEF Views, WorkerIdle, WorkerState
<1>2. HTyped
  BY <1>1, MaxDiskAssumption DEF HInit, HTyped, WorkerIdle
<1>3. ComputationsLast /\ EntriesLast
  BY DEF HInit, ComputationsLast, EntriesLast, WorkerIdle
<1> QED
  BY <1>2, <1>3 DEF HInv

(* A step that leaves the store and the entries alone, and writes one        *)
(* computation, need only see to that one.                                   *)
LEMMA OneComputation ==
    ASSUME HInv, NEW w \in Worker, NEW new \in WorkerState,
           worker' = [worker EXCEPT ![w] = new], UNCHANGED << vars, disk, config, cache >>,
           new.pc # "idle" => new.uri \in Uri,
           new.pc = "root" => new.stamp <= next_revision,
           new.pc = "closure" => ViewLasts(new.view, new.stamp)
    PROVE  HInv'
<1>1. \A v \in Worker : worker'[v] = IF v = w THEN new ELSE worker[v]
  BY DEF HInv, HTyped
<1>2. UNCHANGED << next_revision, documents, heap, editor, disk, config, cache >>
  BY DEF vars
<1>3. HTyped'
  BY <1>1, <1>2 DEF HInv, HTyped
<1>4. \A view, stamp : ViewLasts(view, stamp)' <=> ViewLasts(view, stamp)
  BY <1>2 DEF ViewLasts, Lasts, Closing, Live
<1>5. ComputationsLast'
  BY <1>1, <1>2, <1>4 DEF HInv, ComputationsLast
<1>6. EntriesLast'
  BY <1>2, <1>4 DEF HInv, EntriesLast
<1> QED
  BY <1>3, <1>5, <1>6 DEF HInv

(* A source read now lasts.                                                  *)
LEMMA ReadsLast ==
    ASSUME Shape, HTyped, NEW view \in Views, NEW stamp \in Nat, NEW d \in Uri, NEW new,
           ViewLasts(view, stamp),
           new = [x \in DOMAIN view \cup {d} |-> IF x = d THEN Source(d) ELSE view[x]]
    PROVE  new \in Views /\ ViewLasts(new, stamp)
<1>1. Source(d) \in Sources /\ Source(d).buffer = Live(d)
  BY SourceType
<1>2. PICK S \in SUBSET Uri : view \in [S -> Sources]
  BY DEF Views
<1>3. DOMAIN new = S \cup {d} /\ new \in [S \cup {d} -> Sources]
  BY <1>1, <1>2
<1>4. new \in Views
  BY <1>3 DEF Views
<1>5. \A x \in DOMAIN new : new[x] = IF x = d THEN Source(d) ELSE view[x]
  BY <1>2, <1>3
<1>6. ViewLasts(new, stamp)
  BY <1>1, <1>2, <1>3, <1>5 DEF ViewLasts, Lasts
<1> QED
  BY <1>4, <1>6

(* Every step of a computation keeps the invariant.                          *)
LEMMA WorkerKeeps ==
    ASSUME Shape, HInv, NEW w \in Worker,
           (\E u \in Uri : Miss(w, u)) \/ WorkerStep(w)
    PROVE  HInv'
<1>n. next_revision \in Nat
  BY DEF Shape, TypeOK
<1>w. /\ worker[w] \in WorkerState
      /\ worker[w].pc # "idle" => worker[w].uri \in Uri
  BY DEF HInv, HTyped
<1>i. WorkerIdle \in WorkerState /\ WorkerIdle.pc = "idle"
  <2>1. << >> \in [{} -> Sources]
    OBVIOUS
  <2> QED
    BY <2>1 DEF Views, WorkerIdle, WorkerState
<1>1. ASSUME NEW u \in Uri, Miss(w, u) PROVE HInv'
  <2> DEFINE new == [WorkerIdle EXCEPT !.pc = "stamp", !.uri = u, !.config = config]
  <2>1. new \in WorkerState /\ new.pc = "stamp" /\ new.uri = u
    BY <1>i DEF HInv, HTyped, WorkerState
  <2>2. worker' = [worker EXCEPT ![w] = new] /\ UNCHANGED << vars, disk, config, cache >>
    BY <1>1 DEF Miss
  <2> HIDE DEF new
  <2> QED
    BY <2>1, <2>2, OneComputation
<1>2. CASE Stamp(w)
  <2> DEFINE new == [worker[w] EXCEPT !.pc = "root", !.stamp = next_revision]
  <2>1. /\ new \in WorkerState /\ new.pc = "root" /\ new.uri = worker[w].uri
        /\ new.stamp = next_revision
    BY <1>w, <1>n DEF WorkerState
  <2>2. worker' = [worker EXCEPT ![w] = new] /\ UNCHANGED << vars, disk, config, cache >>
    BY <1>2 DEF Stamp, HInv, HTyped
  <2> HIDE DEF new
  <2>3. new.stamp <= next_revision /\ new.uri \in Uri
    BY <1>2, <1>w, <1>n, <2>1 DEF Stamp
  <2> QED
    BY <2>1, <2>2, <2>3, OneComputation
<1>3. CASE ReadRoot(w)
  <2> DEFINE u == worker[w].uri
             view == [x \in {u} |-> Source(x)]
             new == [worker[w] EXCEPT !.pc = "closure", !.view = view]
  <2>1. u \in Uri /\ worker[w].stamp <= next_revision
    BY <1>3, <1>w DEF ReadRoot, HInv, ComputationsLast
  <2>2. view \in Views /\ ViewLasts(view, worker[w].stamp)
    <3>1. Source(u) \in Sources /\ Source(u).buffer = Live(u)
      BY <2>1, SourceType DEF HInv
    <3>2. view \in [{u} -> Sources]
      BY <3>1
    <3>3. view \in Views
      BY <2>1, <3>2 DEF Views
    <3>4. ViewLasts(view, worker[w].stamp)
      BY <2>1, <3>1 DEF ViewLasts, Lasts
    <3> QED
      BY <3>3, <3>4
  <2> HIDE DEF view
  <2>3. /\ new \in WorkerState /\ new.pc = "closure" /\ new.uri = u
        /\ new.view = view /\ new.stamp = worker[w].stamp
    BY <1>w, <2>2 DEF WorkerState
  <2>4. CASE Live(u) = Null
    <3>1. worker' = [worker EXCEPT ![w] = WorkerIdle]
          /\ UNCHANGED << vars, disk, config, cache >>
      BY <1>3, <2>4 DEF ReadRoot, HInv, HTyped
    <3> QED
      BY <1>i, <3>1, OneComputation
  <2>5. CASE Live(u) # Null
    <3>1. worker' = [worker EXCEPT ![w] = new] /\ UNCHANGED << vars, disk, config, cache >>
      BY <1>3, <2>5 DEF ReadRoot, HInv, HTyped, view
    <3> HIDE DEF new
    <3> QED
      BY <2>1, <2>2, <2>3, <3>1, OneComputation
  <2> QED
    BY <2>4, <2>5
<1>4. CASE ReadDependency(w)
  <2>1. PICK d \in Unread(w) :
           worker' = [worker EXCEPT ![w].view =
                        [x \in DOMAIN @ \cup {d} |-> IF x = d THEN Source(d) ELSE @[x]]]
    BY <1>4 DEF ReadDependency
  <2> DEFINE old == worker[w].view
             view == [x \in DOMAIN old \cup {d} |-> IF x = d THEN Source(d) ELSE old[x]]
             new == [worker[w] EXCEPT !.view = view]
  <2>2. d \in Uri /\ worker[w].uri \in Uri
    BY <1>4, <1>w, ClosureAssumption DEF ReadDependency, Unread
  <2>3. /\ old \in Views /\ worker[w].stamp \in Nat
        /\ ViewLasts(old, worker[w].stamp)
    BY <1>4, <1>w DEF ReadDependency, HInv, ComputationsLast, WorkerState
  <2>4. view \in Views /\ ViewLasts(view, worker[w].stamp)
    BY <2>2, <2>3, ReadsLast DEF HInv
  <2>5. worker' = [worker EXCEPT ![w] = new] /\ UNCHANGED << vars, disk, config, cache >>
    BY <1>4, <2>1 DEF ReadDependency, HInv, HTyped
  <2> HIDE DEF view
  <2>6. /\ new \in WorkerState /\ new.pc = worker[w].pc /\ new.uri = worker[w].uri
        /\ new.view = view /\ new.stamp = worker[w].stamp
    BY <1>w, <2>4 DEF WorkerState
  <2> HIDE DEF new
  <2> QED
    BY <1>4, <1>w, <2>2, <2>4, <2>5, <2>6, OneComputation DEF ReadDependency
<1>5. CASE Store(w)
  <2> DEFINE u == worker[w].uri
             entry == [stamp |-> worker[w].stamp, config |-> worker[w].config,
                       view |-> worker[w].view]
  <2>1. /\ u \in Uri /\ Closure[u] \subseteq DOMAIN worker[w].view
        /\ ViewLasts(worker[w].view, worker[w].stamp)
    BY <1>5, <1>w DEF Store, Unread, HInv, ComputationsLast
  <2>2. entry \in Entry /\ entry.stamp = worker[w].stamp /\ entry.view = worker[w].view
    BY <1>w DEF WorkerState, Entry
  <2>3. /\ cache' = [cache EXCEPT ![u] = entry]
        /\ worker' = [worker EXCEPT ![w] = WorkerIdle]
        /\ UNCHANGED << next_revision, documents, heap, editor, disk, config >>
    BY <1>5 DEF Store, vars
  <2> HIDE DEF entry
  <2>4. /\ \A x \in Uri : cache'[x] = IF x = u THEN entry ELSE cache[x]
        /\ \A v \in Worker : worker'[v] = IF v = w THEN WorkerIdle ELSE worker[v]
    BY <2>3 DEF HInv, HTyped
  <2>5. HTyped'
    BY <1>i, <2>2, <2>3, <2>4 DEF HInv, HTyped
  <2>6. \A view, stamp : ViewLasts(view, stamp)' <=> ViewLasts(view, stamp)
    BY <2>3 DEF ViewLasts, Lasts, Closing, Live
  <2>7. ComputationsLast'
    BY <1>i, <2>3, <2>4, <2>6 DEF HInv, ComputationsLast
  <2>8. EntriesLast'
    BY <2>1, <2>2, <2>4, <2>6 DEF HInv, EntriesLast
  <2> QED
    BY <2>5, <2>7, <2>8 DEF HInv
<1> QED
  BY <1>1, <1>2, <1>3, <1>4, <1>5 DEF WorkerStep

(* A step of the store keeps every view for as long as its stamp is shown.   *)
LEMMA ViewsKept ==
    ASSUME Shape, next_revision' \in Nat,
           \/ next_revision' = next_revision + 1
           \/ /\ next_revision' = next_revision
              /\ \A d \in Uri : \A b : Lasts(d, b) => Lasts(d, b)',
           NEW view \in Views, NEW stamp \in Nat, ViewLasts(view, stamp)
    PROVE  ViewLasts(view, stamp)'
<1>1. next_revision \in Nat /\ DOMAIN view \subseteq Uri
  BY DEF Shape, TypeOK, Views
<1>2. CASE next_revision' = next_revision + 1
  <2>1. stamp <= next_revision' /\ stamp # next_revision'
    BY <1>1, <1>2 DEF ViewLasts
  <2> QED
    BY <2>1 DEF ViewLasts
<1>3. CASE next_revision' # next_revision + 1
  BY <1>1, <1>3 DEF ViewLasts
<1> QED
  BY <1>2, <1>3

(* Every step keeps the invariant.                                           *)
LEMMA NextHints ==
    Shape /\ Placed /\ HInv /\ [HNext]_<< vars, hintVars >> => HInv'
<1> SUFFICES ASSUME Shape, Placed, HInv, [HNext]_<< vars, hintVars >> PROVE HInv'
  OBVIOUS
<1>s. Shape'
  BY StoreSteps, NextShape
<1>n. next_revision \in Nat /\ next_revision' \in Nat
  BY <1>s DEF Shape, TypeOK
<1>1. ASSUME \A view \in Views, stamp \in Nat :
                ViewLasts(view, stamp) => ViewLasts(view, stamp)',
             next_revision <= next_revision', worker' = worker, disk' = disk,
             config' = config, \A u \in Uri : cache'[u] = cache[u] \/ cache'[u] = Null,
             cache' \in [Uri -> Entry \cup {Null}]
      PROVE  HInv'
  <2>1. HTyped'
    BY <1>1 DEF HInv, HTyped
  <2>2. ComputationsLast'
    <3>1. \A w \in Worker : worker[w].view \in Views /\ worker[w].stamp \in Nat
      BY DEF HInv, HTyped, WorkerState
    <3> QED
      BY <1>1, <1>n, <3>1 DEF HInv, ComputationsLast
  <2>3. EntriesLast'
    <3>1. \A u \in Uri : cache[u] # Null => cache[u].view \in Views /\ cache[u].stamp \in Nat
      BY DEF HInv, HTyped, Entry
    <3> QED
      BY <1>1, <3>1 DEF HInv, EntriesLast
  <2> QED
    BY <2>1, <2>2, <2>3 DEF HInv
<1>2. ASSUME NEW e \in Editor, StoreStep(e), UNCHANGED hintVars PROVE HInv'
  <2>1. \A view \in Views, stamp \in Nat : ViewLasts(view, stamp) => ViewLasts(view, stamp)'
    BY <1>2, <1>n, StepsLast, ViewsKept
  <2>2. next_revision <= next_revision'
    BY <1>2, <1>n, StepsLast
  <2> QED
    BY <1>1, <1>2, <2>1, <2>2 DEF hintVars, HInv, HTyped
<1>3. ASSUME NEW e \in Editor, CloseAndEvict(e) PROVE HInv'
  <2>1. next_revision' = next_revision + 1
    BY <1>3 DEF CloseAndEvict, CloseBump
  <2>2. \A view \in Views, stamp \in Nat : ViewLasts(view, stamp) => ViewLasts(view, stamp)'
    BY <1>n, <2>1, ViewsKept
  <2>3. UNCHANGED << worker, disk, config >>
        /\ cache' = [cache EXCEPT ![editor[e].uri] = Null]
    BY <1>3 DEF CloseAndEvict
  <2>4. /\ \A u \in Uri : cache'[u] = cache[u] \/ cache'[u] = Null
        /\ cache' \in [Uri -> Entry \cup {Null}]
    BY <2>3 DEF HInv, HTyped
  <2>5. next_revision <= next_revision'
    BY <1>n, <2>1
  <2> QED
    BY <1>1, <2>2, <2>3, <2>4, <2>5
<1>4. ASSUME UNCHANGED << vars, cache, worker >>, HTyped' PROVE HInv'
  <2>1. UNCHANGED << next_revision, documents, heap, editor >>
    BY <1>4 DEF vars
  <2>2. \A view, stamp : ViewLasts(view, stamp)' <=> ViewLasts(view, stamp)
    BY <2>1 DEF ViewLasts, Lasts, Closing, Live
  <2> QED
    BY <1>4, <2>1, <2>2 DEF HInv, ComputationsLast, EntriesLast
<1>5. CASE \E u \in Uri : Hit(u)
  BY <1>4, <1>5 DEF Hit, hintVars, HInv, HTyped
<1>6. ASSUME NEW u \in Uri, DiskWrite(u) PROVE HInv'
  <2>1. disk' \in [Uri -> 0 .. MaxDisk] /\ UNCHANGED << vars, config, cache, worker >>
    BY <1>6, MaxDiskAssumption DEF DiskWrite, HInv, HTyped
  <2> QED
    BY <1>4, <2>1 DEF HInv, HTyped
<1>7. CASE UpdateConfig
  BY <1>4, <1>7 DEF UpdateConfig, HInv, HTyped
<1>8. CASE UNCHANGED << vars, hintVars >>
  BY <1>4, <1>8 DEF hintVars, HInv, HTyped
<1> QED
  BY <1>2, <1>3, <1>5, <1>6, <1>7, <1>8, WorkerKeeps DEF HNext

(* An entry the server would serve has outlived no edit and no close of a    *)
(* buffer of its closure, however many computations and editors overlap: the *)
(* stamp is read first, and the counter moves after the buffer has changed.  *)
THEOREM HintsNeverOutliveEdits == HSpec => []HitsOutliveNoEditOrClose
<1>1. Shape /\ HInv => HitsOutliveNoEditOrClose
  <2> SUFFICES ASSUME Shape, HInv, ServerIdle, NEW u \in Uri, Hits(u), NEW d \in Closure[u]
               PROVE  NotOutlived(u, d)
    BY DEF HitsOutliveNoEditOrClose
  <2>1. d \in Uri /\ ~ Closing
    BY ClosureAssumption DEF ServerIdle, Closing
  <2>2. Lasts(d, cache[u].view[d].buffer) /\ cache[u].stamp = next_revision
    BY DEF HInv, EntriesLast, ViewLasts, Hits
  <2> QED
    BY <2>1, <2>2, LiveType DEF Lasts, NotOutlived
<1>2. HInit => Init
  BY DEF HInit
<1> QED
  BY <1>1, <1>2, InitShape, NextShape, InitPlaced, NextPlaced, StoreSteps,
     InitHints, NextHints, PTL DEF HSpec
=============================================================================
