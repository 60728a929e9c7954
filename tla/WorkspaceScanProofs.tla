------------------------- MODULE WorkspaceScanProofs -------------------------
(***************************************************************************)
(* What holds of the workspace index and of the open documents laid over   *)
(* it, for any number of files, spellings, folders, texts and jobs.        *)
(*                                                                         *)
(* The index (InStep): a write has to rebuild the names its edit drops or  *)
(* declares.  While no other write of the file has to rebuild a name, the  *)
(* write alone knows whether to file it or to withdraw it; while no other  *)
(* write has to rebuild it at all, what the write has looked up is what    *)
(* represents the name until the graph is written.  A name nobody declared *)
(* before or after keeps its node.                                         *)
(*                                                                         *)
(* The overlays (Overlaid): a file is open under one spelling, which was   *)
(* resolved to the file when it was opened unless the file did not exist;  *)
(* so an analysis and a close meet the entry of the file itself, and the   *)
(* entry of another spelling is never touched.                             *)
(*                                                                         *)
(* The saved layers (Layered): a file that one job alone has in hand is    *)
(* what that job read, unless a save or a report of it is still to be      *)
(* followed; so what is written is what is saved, and once both indexes    *)
(* have taken it they agree.  A file that two jobs have had in hand at     *)
(* once may be written with the older reading; the invariant follows that  *)
(* from the taking in hand (shared) to the writing (raced) and back.       *)
(***************************************************************************)
EXTENDS WorkspaceScan, FiniteSetTheorems, WellFoundedInduction, TLAPS

Pending == UNION {[S -> Loc \cup {Null}] : S \in SUBSET Name}

WriterState ==
    [pc : {"idle", "index", "bump"}, uri : File \cup {Null}, overlay : BOOLEAN,
     insert : SUBSET Name, forget : SUBSET Name, unread : SUBSET Name, pending : Pending]

Layers == [disk : Layer, open : Layer \cup {Null}]

Typed ==
    /\ documents \in [File -> Layers]
    /\ name_to_uris \in [Name -> SUBSET File]
    /\ graph \in [Name -> [Kind -> Edges \cup {Null}]]
    /\ generation \in Nat
    /\ writer \in [Writer -> WriterState]
    /\ \A w \in Writer : writer[w].pc # "idle" => writer[w].uri \in File

Texts == UNION {[S -> Text \cup {Null}] : S \in SUBSET File}

JobState ==
    [pc : {"idle", "folder", "walk", "xrefs", "symbols", "read", "drop"},
     kind : {"none", "startup", "folders", "refresh"}, removed : SUBSET Folder,
     todo : Seq(Folder), uris : SUBSET File, texts : Texts, uri : File \cup {Null}]

(* A job that scans has the folder it scans first in its list.               *)
Scanning(task) ==
    \/ task.pc = "walk"
    \/ task.pc \in {"xrefs", "symbols"} /\ task.kind # "refresh" /\ task.removed = {}

(* A job has in hand what its next step needs.                               *)
Ready(task) ==
    /\ task.pc = "symbols" => task.uri \in DOMAIN task.texts
    /\ task.pc = "walk" => task.uris \subseteq Source
    /\ task.pc = "read" => task.kind = "refresh"
    /\ task.pc = "drop" => task.removed # {}
    /\ Scanning(task) => task.todo # << >>

JobsTyped == job \in [Job -> JobState] /\ \A j \in Job : Ready(job[j])

SourcesTyped ==
    /\ disk \in [Source -> Text \cup {Null}]
    /\ buffer \in [File -> Text \cup {Null}]
    /\ due \subseteq {s \in File : buffer[s] # Null}
    /\ aliases \subseteq Alias /\ early \subseteq Alias /\ reported \subseteq Source
    /\ symbols \in [File -> [disk : Text \cup {Null}, open : Text \cup {Null}]]

Shape == Typed /\ JobsTyped /\ SourcesTyped

-----------------------------------------------------------------------------
(* The invariant of the index.                                              *)

(* One write at a time has to rebuild a name that did not meet.              *)
Lone ==
    /\ \A n \in Name \ crossed : \A v, w \in Writer :
          n \in Rebuilds(v) /\ n \in Rebuilds(w) => v = w
    /\ \A n \in Name, f \in File : << f, n >> \notin mixed => \A v, w \in Writer :
          /\ n \in Rebuilds(v) /\ writer[v].uri = f
          /\ n \in Rebuilds(w) /\ writer[w].uri = f
          => v = w

(* The order of a write: names, then lookups, then nothing.                  *)
InOrder(write) ==
    /\ write.insert \cup write.forget \subseteq write.unread
    /\ DOMAIN write.pending # {} => write.insert = {} /\ write.forget = {}
    /\ write.pc # "index" => write.unread = {} /\ DOMAIN write.pending = {}

(* A file is filed under a name, or the write that has to do it knows how.   *)
Filed(f, n) ==
    /\ \A w \in Writer : writer[w].uri = f =>
          /\ n \in writer[w].insert => Declares(f, n)
          /\ n \in writer[w].forget => ~ Declares(f, n)
    /\ (\A w \in Writer : writer[w].uri = f => n \notin writer[w].insert \cup writer[w].forget)
          => (f \in name_to_uris[n] <=> Declares(f, n))

(* A name is drawn, or the write that has to do it has looked it up right.   *)
Standing(n) == Representative(name_to_uris[n], n)
Drawn(n) ==
    /\ \A w \in Writer : n \in DOMAIN writer[w].pending => writer[w].pending[n] = Standing(n)
    /\ (\A w \in Writer : n \notin Rebuilds(w)) => graph[n] = Node(Standing(n))

InStep ==
    /\ Lone
    /\ \A w \in Writer : InOrder(writer[w])
    /\ \A n \in Name, f \in File : << f, n >> \notin mixed => Filed(f, n)
    /\ \A n \in Name \ crossed : Drawn(n)

-----------------------------------------------------------------------------
(* The invariant of the overlays.                                           *)

OneOpen ==
    \A s, t \in File : buffer[s] # Null /\ buffer[t] # Null /\ FileOf(s) = FileOf(t) => s = t

OpenIsKnown == \A s \in Alias : buffer[s] # Null => s \in aliases \cup early

NoLayers == [disk |-> << >>, open |-> Null]
NoTexts == [disk |-> Null, open |-> Null]

AliasesEmpty == \A s \in Alias \ early : documents[s] = NoLayers /\ symbols[s] = NoTexts

Overlaid ==
    \A f \in Source : Resolved(f) =>
        /\ \A s \in Spellings(f) \ due : buffer[s] # Null
              => documents[f].open = LayerOf[buffer[s]] /\ symbols[f].open = buffer[s]
        /\ (\A s \in Spellings(f) : buffer[s] = Null)
              => documents[f].open = Null /\ symbols[f].open = Null

Overlays == OneOpen /\ OpenIsKnown /\ AliasesEmpty /\ Overlaid

-----------------------------------------------------------------------------
(* The invariant of the saved layers.                                       *)

(* The folders a job is still to list.                                       *)
Coming(task) ==
    {task.todo[i] : i \in IF Scanning(task) THEN DOMAIN task.todo \ {1} ELSE DOMAIN task.todo}

(* A job is still to scan a file, or to read it again.                       *)
Scans(task, f) == (task.pc = "walk" /\ f \in task.uris) \/ FolderOf[f] \in Coming(task)
Refreshes(task, f) == task.kind = "refresh" /\ \E s \in task.uris : FileOf(s) = f

(* What the indexes hold of a file need not be what is saved.                *)
Changed(f) == f \in unseen \cup reported \/ \E j \in Job : Refreshes(job[j], f)

(* The indexes need not hold a file that no folder has or is still to have.  *)
MayLack(f) == ~ InWorkspace(f) \/ \E j \in Job : Scans(job[j], f)

Current(text, f) == text = disk[f] \/ (text = Null /\ MayLack(f))
LayerCurrent(f) ==
    documents[f].disk = Parse(disk[f]) \/ (documents[f].disk = << >> /\ MayLack(f))

(* One index has taken the file, and the other has not; neither has.         *)
Halfway(j, f) == At(j, "symbols") /\ FileOf(job[j].uri) = f
Unwritten(j, s) == s \in DOMAIN job[j].texts /\ ~ (At(j, "symbols") /\ job[j].uri = s)

HandKnown(task, known) ==
    /\ task.pc = "idle" => task = IdleJob
    /\ task.pc \in {"folder", "read", "drop"} => DOMAIN task.texts = {}
    /\ task.kind = "refresh" =>
        task.pc \in {"read", "xrefs", "symbols"} /\ task.todo = << >> /\ task.removed = {}
    /\ task.pc = "walk" => \A s \in task.uris \cup DOMAIN task.texts :
                              s \in Source /\ FolderOf[s] = Head(task.todo)
    /\ \A s \in task.uris \cup DOMAIN task.texts : s \in Alias => s \in known
HandsKnown == \A j \in Job : HandKnown(job[j], aliases \cup early)

HeldOnce ==
    \A f \in Source \ shared : Resolved(f) =>
        \A i, j \in Job : Holds(i, f) /\ Holds(j, f) => i = j

TextsCurrent ==
    \A f \in Source \ shared : Resolved(f) /\ ~ Changed(f) =>
        \A j \in Job :
            /\ \A s \in DOMAIN job[j].texts : FileOf(s) = f => Current(job[j].texts[s], f)
            /\ At(j, "drop") /\ FolderOf[f] \in job[j].removed => Current(Null, f)

LayersMatch ==
    \A f \in Source \ raced : Resolved(f) =>
        /\ \A i, j \in Job : Halfway(i, f) /\ Halfway(j, f) => i = j
        /\ \A j \in Job : Halfway(j, f) => documents[f].disk = Parse(job[j].texts[job[j].uri])
        /\ (\A j \in Job : ~ Halfway(j, f)) => documents[f].disk = Parse(symbols[f].disk)

LayersCurrent ==
    \A f \in Source \ raced : Resolved(f) /\ ~ Changed(f) =>
        LayerCurrent(f) \/ \E j \in Job : \E s \in File : FileOf(s) = f /\ Unwritten(j, s)

Layered == HeldOnce /\ TextsCurrent /\ LayersMatch /\ LayersCurrent

-----------------------------------------------------------------------------
(* The invariant of the folders.                                            *)

(* The root is the first folder, unless every folder went.                   *)
Rooted ==
    /\ folders \in Seq(Folder)
    /\ \A i, k \in DOMAIN folders : folders[i] = folders[k] => i = k
    /\ root = Null => folders = << >>
    /\ root # Null /\ folders # << >> => root = Head(folders)
    /\ watching => complete
    /\ unseen \cup shared \cup raced \subseteq Source

-----------------------------------------------------------------------------
(* What a name stands for.                                                  *)

(* A set of naturals that is not empty has a lowest member.                  *)
LEMMA LowestNat ==
    ASSUME NEW S \in SUBSET Nat, S # {}
    PROVE  \E m \in S : \A n \in S : m <= n
<1> DEFINE R == {ss \in Nat \X Nat : ss[1] < ss[2]}
<1>1. IsWellFoundedOn(R, Nat)
  BY NatLessThanWellFounded DEF OpToRel
<1>2. S \subseteq Nat /\ S # {}
  OBVIOUS
<1> HIDE DEF R
<1>3. PICK m \in S : \A n \in S : ~ (<< n, m >> \in R)
  BY <1>1, <1>2, WFMin
<1>4. \A n \in S : ~ (n < m)
  BY <1>3 DEF R
<1> QED
  BY <1>4

(* What a file answers with is a layer, and the names in it are names.       *)
LEMMA EffectiveType ==
    ASSUME NEW layers \in Layers
    PROVE  Effective(layers) \in Layer /\ DeclaredNames(Effective(layers)) \subseteq Name
<1>1. Effective(layers) \in Layer
  BY DEF Layers, Effective
<1>2. \A layer \in Layer : layer \in Seq(Loc)
  BY LayerAssumption
<1>3. ASSUME NEW layer \in Seq(Loc) PROVE DeclaredNames(layer) \subseteq Name
  <2>1. \A i \in DOMAIN layer : layer[i] \in Loc
    OBVIOUS
  <2>2. \A loc \in Loc : loc.name \in Name
    BY DEF Loc
  <2> QED
    BY <2>1, <2>2 DEF DeclaredNames
<1> QED
  BY <1>1, <1>2, <1>3

(* The first declaration of a name in a layer is one.                        *)
LEMMA FirstOfType ==
    ASSUME NEW layer \in Layer, NEW n \in DeclaredNames(layer)
    PROVE  FirstOf(layer, n) \in Loc
<1> DEFINE S == {i \in DOMAIN layer : layer[i].name = n}
<1>1. layer \in Seq(Loc) /\ DOMAIN layer = 1 .. Len(layer) /\ Len(layer) \in Nat
  BY LayerAssumption
<1>2. S \subseteq Nat /\ S # {}
  BY <1>1 DEF DeclaredNames
<1>3. PICK m \in S : \A i \in S : m <= i
  BY <1>2, LowestNat
<1>4. m \in DOMAIN layer /\ layer[m].name = n
  OBVIOUS
<1>5. \A j \in 1 .. m - 1 : layer[j].name # n
  <2> SUFFICES ASSUME NEW j \in 1 .. m - 1, layer[j].name = n PROVE FALSE
    OBVIOUS
  <2>1. j \in DOMAIN layer /\ j < m /\ m \in Nat /\ j \in Nat
    BY <1>1, <1>4
  <2>2. m <= j
    BY <1>3, <2>1
  <2> QED
    BY <2>1, <2>2
<1> DEFINE Is(i) == layer[i].name = n /\ \A j \in 1 .. i - 1 : layer[j].name # n
           first == CHOOSE i \in DOMAIN layer : Is(i)
<1>6. first \in DOMAIN layer
  <2>1. \E i \in DOMAIN layer : Is(i)
    BY <1>4, <1>5
  <2> HIDE DEF Is
  <2> QED
    BY <2>1
<1>7. FirstOf(layer, n) = layer[first]
  BY DEF FirstOf
<1> HIDE DEF first
<1> QED
  BY <1>1, <1>6, <1>7

(* The lowest of the files that declare a name is one of them.               *)
LEMMA LowestFile ==
    ASSUME NEW owners \in SUBSET File, owners # {}
    PROVE  (CHOOSE f \in owners : \A g \in owners : f <= g) \in owners
<1>1. \E f \in owners : \A g \in owners : f <= g
  BY LowestNat, FileAssumption
<1> QED
  BY <1>1

(* The declaration that represents a name is one, or there is none.          *)
LEMMA RepresentativeType ==
    ASSUME Typed, NEW fs \in SUBSET File, NEW n \in Name
    PROVE  Representative(fs, n) \in Loc \cup {Null}
<1> DEFINE owners == {f \in fs : Declares(f, n)}
           lowest == CHOOSE f \in owners : \A g \in owners : f <= g
<1>1. CASE owners = {}
  BY <1>1 DEF Representative
<1>2. CASE owners # {}
  <2>1. lowest \in owners
    BY <1>2, LowestFile
  <2>2. Representative(fs, n) = FirstOf(Effective(documents[lowest]), n)
    BY <1>2 DEF Representative
  <2>3. lowest \in fs /\ Declares(lowest, n)
    BY <2>1
  <2> HIDE DEF lowest
  <2>4. /\ documents[lowest] \in Layers
        /\ n \in DeclaredNames(Effective(documents[lowest]))
    BY <2>3 DEF Declares, Typed
  <2> QED
    BY <2>2, <2>4, EffectiveType, FirstOfType
<1> QED
  BY <1>1, <1>2

(* A node has the edges of its declaration under that one's kind.            *)
LEMMA NodeType ==
    ASSUME NEW loc \in Loc \cup {Null}
    PROVE  Node(loc) \in [Kind -> Edges \cup {Null}]
BY DEF Node, NoNode, Loc

(* A name keeps what represents it while its files keep what they declare.   *)
LEMMA RepresentativeKept ==
    ASSUME NEW n \in Name, NEW fs \in SUBSET File,
           \A f \in File : Declares(f, n)' <=> Declares(f, n),
           \A f \in File : Declares(f, n)
              => Effective(documents'[f]) = Effective(documents[f])
    PROVE  Representative(fs, n)' = Representative(fs, n)
<1> DEFINE owners == {f \in fs : Declares(f, n)}
           lowest == CHOOSE f \in owners : \A g \in owners : f <= g
<1>1. {f \in fs : Declares(f, n)'} = owners
  OBVIOUS
<1>2. CASE owners = {}
  BY <1>1, <1>2 DEF Representative
<1>3. CASE owners # {}
  <2>1. lowest \in owners
    BY <1>3, LowestFile
  <2>2. Effective(documents'[lowest]) = Effective(documents[lowest])
    BY <2>1
  <2>3. Representative(fs, n) = FirstOf(Effective(documents[lowest]), n)
    BY <1>3 DEF Representative
  <2>4. Representative(fs, n)' = FirstOf(Effective(documents'[lowest]), n)
    BY <1>1, <1>3 DEF Representative
  <2> QED
    BY <2>2, <2>3, <2>4
<1> QED
  BY <1>2, <1>3

-----------------------------------------------------------------------------
(* The writes of the index.                                                 *)

LEMMA IdleType == Idle \in WriterState /\ Idle.pc = "idle" /\ DOMAIN Idle.pending = {}
<1>1. << >> \in [{} -> Loc \cup {Null}]
  OBVIOUS
<1>2. << >> \in Pending
  BY <1>1 DEF Pending
<1> QED
  BY <1>2 DEF Idle, WriterState

(* What a write that begins leaves in the writer.                            *)
LEMMA WriteBegins ==
    ASSUME Typed, NEW w \in Writer, NEW f \in File, NEW overlay \in BOOLEAN,
           NEW new \in Layers, NEW moved \in BOOLEAN,
           WriteLayer(w, f, overlay, new, moved)
    PROVE  /\ Typed'
           /\ documents' = [documents EXCEPT ![f] = new]
           /\ UNCHANGED << name_to_uris, graph, generation >>
           /\ \A v \in Writer \ {w} : writer'[v] = writer[v]
           /\ writer'[w].uri = f /\ DOMAIN writer'[w].pending = {}
           /\ writer'[w].pc = IF moved THEN "index" ELSE "bump"
           /\ moved => LET before == DeclaredNames(Effective(documents[f]))
                           after == DeclaredNames(Effective(new)) IN
                       /\ writer'[w].insert = after
                       /\ writer'[w].forget = before \ after
                       /\ writer'[w].unread = before \cup after
           /\ ~ moved => /\ writer'[w].insert = {} /\ writer'[w].forget = {}
                        /\ writer'[w].unread = {}
<1> DEFINE before == DeclaredNames(Effective(documents[f]))
           after == DeclaredNames(Effective(new))
           write == [Idle EXCEPT !.pc = "index", !.uri = f, !.overlay = overlay,
                                 !.insert = after, !.forget = before \ after,
                                 !.unread = before \cup after]
           quiet == [Idle EXCEPT !.pc = "bump", !.uri = f, !.overlay = overlay]
           call == IF moved THEN write ELSE quiet
<1>1. before \subseteq Name /\ after \subseteq Name
  BY EffectiveType DEF Typed
<1>2. /\ documents' = [documents EXCEPT ![f] = new]
      /\ writer' = [writer EXCEPT ![w] = call]
      /\ UNCHANGED << name_to_uris, graph, generation >>
  BY DEF WriteLayer
<1> HIDE DEF before, after
<1>3. /\ write \in WriterState /\ write.pc = "index" /\ write.uri = f
      /\ DOMAIN write.pending = {} /\ write.insert = after
      /\ write.forget = before \ after /\ write.unread = before \cup after
  BY <1>1, IdleType DEF WriterState
<1>4. /\ quiet \in WriterState /\ quiet.pc = "bump" /\ quiet.uri = f
      /\ DOMAIN quiet.pending = {}
      /\ quiet.insert = {} /\ quiet.forget = {} /\ quiet.unread = {}
  BY IdleType DEF WriterState, Idle
<1> HIDE DEF write, quiet
<1>5. /\ call \in WriterState /\ call.uri = f /\ DOMAIN call.pending = {}
      /\ call.pc = IF moved THEN "index" ELSE "bump"
      /\ moved => /\ call.insert = after /\ call.forget = before \ after
                  /\ call.unread = before \cup after
      /\ ~ moved => call.insert = {} /\ call.forget = {} /\ call.unread = {}
  BY <1>3, <1>4
<1> HIDE DEF call
<1>6. writer' \in [Writer -> WriterState] /\ writer'[w] = call
      /\ \A v \in Writer \ {w} : writer'[v] = writer[v]
  BY <1>2, <1>5 DEF Typed
<1>7. Typed'
  BY <1>2, <1>5, <1>6 DEF Typed
<1> QED
  BY <1>2, <1>5, <1>6, <1>7 DEF before, after

(* A write that begins knows what it will leave out of step, but for the     *)
(* names it meets another write over.                                        *)
LEMMA WriteKeeps ==
    ASSUME Typed, InStep, NEW w \in Writer, NEW f \in File, NEW overlay \in BOOLEAN,
           NEW new \in Layers, NEW moved \in BOOLEAN,
           WriteLayer(w, f, overlay, new, moved), Meets(w),
           ~ moved => Effective(new) = Effective(documents[f])
    PROVE  Typed' /\ InStep'
<1> DEFINE before == DeclaredNames(Effective(documents[f]))
           after == DeclaredNames(Effective(new))
<1>1. /\ Typed'
      /\ documents' = [documents EXCEPT ![f] = new]
      /\ UNCHANGED << name_to_uris, graph >>
      /\ \A v \in Writer \ {w} : writer'[v] = writer[v]
      /\ writer'[w].uri = f /\ DOMAIN writer'[w].pending = {}
      /\ writer'[w].pc = IF moved THEN "index" ELSE "bump"
      /\ moved => /\ writer'[w].insert = after
                  /\ writer'[w].forget = before \ after
                  /\ writer'[w].unread = before \cup after
      /\ ~ moved => /\ writer'[w].insert = {} /\ writer'[w].forget = {}
                    /\ writer'[w].unread = {}
  BY WriteBegins
<1>2. PICK N : N = writer'[w].unread
  OBVIOUS
<1>3. /\ writer[w].insert = {} /\ writer[w].forget = {}
      /\ writer[w].unread = {} /\ DOMAIN writer[w].pending = {}
  BY DEF WriteLayer, InStep, InOrder
<1>4. \A n : n \in N <=> n \in writer'[w].insert \cup writer'[w].forget
  BY <1>1, <1>2
<1>5. InOrder(writer'[w])
  BY <1>1, <1>2, <1>4 DEF InOrder
<1>6. documents'[f] = new /\ \A g \in File \ {f} : documents'[g] = documents[g]
  BY <1>1 DEF Typed
<1>7. \A n : (Declares(f, n) <=> n \in before) /\ (Declares(f, n)' <=> n \in after)
  BY <1>6 DEF Declares
<1>8. \A g \in File \ {f} : \A n : Declares(g, n)' <=> Declares(g, n)
  BY <1>6 DEF Declares
<1> HIDE DEF before, after
<1>9. ASSUME NEW n, n \notin N
      PROVE  \A g \in File : /\ Declares(g, n)' <=> Declares(g, n)
                             /\ Declares(g, n) => Effective(documents'[g]) = Effective(documents[g])
  <2>1. CASE moved
    BY <1>1, <1>2, <1>6, <1>7, <1>8, <1>9, <2>1
  <2>2. CASE ~ moved
    BY <1>6, <1>8, <2>2 DEF Declares
  <2> QED
    BY <2>1, <2>2
<1>10. \A n : /\ n \in writer'[w].insert => Declares(f, n)'
              /\ n \in writer'[w].forget => ~ Declares(f, n)'
  BY <1>1, <1>7
<1>11. \A g, n : ~ (g = f /\ n \in N) /\ << g, n >> \notin mixed' => << g, n >> \notin mixed
  BY <1>1, <1>2 DEF Meets
<1>12. \A n \in N : << f, n >> \notin mixed'
          => \A v \in Writer \ {w} : writer[v].uri = f => n \notin Rebuilds(v)
  BY <1>1, <1>2 DEF Meets
<1>13. \A n : n \notin N /\ n \notin crossed' => n \notin crossed
  BY <1>2 DEF Meets
<1>14. \A n \in N : n \notin crossed' => \A v \in Writer \ {w} : n \notin Rebuilds(v)
  BY <1>2 DEF Meets
<1>15. /\ \A n : n \in Rebuilds(w)' <=> n \in N
       /\ \A v \in Writer \ {w} : \A n : n \in Rebuilds(v)' <=> n \in Rebuilds(v)
  BY <1>1, <1>2 DEF Rebuilds
<1>16. Lone'
  <2>1. ASSUME NEW n \in Name, n \notin crossed', NEW v \in Writer, NEW x \in Writer,
               n \in Rebuilds(v)', n \in Rebuilds(x)'
        PROVE  v = x
    BY <1>13, <1>14, <1>15, <2>1 DEF InStep, Lone
  <2>2. ASSUME NEW n \in Name, NEW g \in File, << g, n >> \notin mixed',
               NEW v \in Writer, NEW x \in Writer,
               n \in Rebuilds(v)', writer'[v].uri = g,
               n \in Rebuilds(x)', writer'[x].uri = g
        PROVE  v = x
    BY <1>1, <1>11, <1>12, <1>15, <2>2 DEF InStep, Lone
  <2> QED
    BY <2>1, <2>2 DEF Lone
<1>17. \A v \in Writer : InOrder(writer'[v])
  BY <1>1, <1>5 DEF InStep
<1>18. ASSUME NEW n \in Name, NEW g \in File, << g, n >> \notin mixed'
       PROVE  Filed(g, n)'
  <2>1. CASE g = f /\ n \in N
    <3>1. \A v \in Writer \ {w} : writer[v].uri = f
             => n \notin writer[v].insert \cup writer[v].forget
      BY <1>12, <1>18, <2>1 DEF InStep, InOrder, Rebuilds
    <3> QED
      BY <1>1, <1>4, <1>10, <2>1, <3>1 DEF Filed
  <2>2. CASE ~ (g = f /\ n \in N)
    <3>1. Filed(g, n)
      BY <1>11, <1>18, <2>2 DEF InStep
    <3>2. Declares(g, n)' <=> Declares(g, n)
      BY <1>8, <1>9, <2>2
    <3>3. writer'[w].uri = g => n \notin writer'[w].insert \cup writer'[w].forget
      BY <1>1, <1>4, <2>2
    <3> QED
      BY <1>1, <1>3, <3>1, <3>2, <3>3 DEF Filed
  <2> QED
    BY <2>1, <2>2
<1>19. ASSUME NEW n \in Name, n \notin crossed' PROVE Drawn(n)'
  <2>1. CASE n \in N
    <3>1. \A v \in Writer \ {w} : n \notin DOMAIN writer[v].pending
      BY <1>14, <1>19, <2>1 DEF Rebuilds
    <3> QED
      BY <1>1, <1>15, <2>1, <3>1 DEF Drawn
  <2>2. CASE n \notin N
    <3>1. Drawn(n)
      BY <1>13, <1>19, <2>2 DEF InStep
    <3>2. PICK fs \in SUBSET File : fs = name_to_uris[n]
      BY DEF Typed
    <3>3. Representative(fs, n)' = Representative(fs, n)
      BY <1>9, <2>2, RepresentativeKept
    <3>4. Standing(n)' = Standing(n)
      BY <1>1, <3>2, <3>3 DEF Standing, Representative
    <3>5. \A v \in Writer : n \in Rebuilds(v)' <=> n \in Rebuilds(v)
      BY <1>3, <1>15, <2>2 DEF Rebuilds
    <3> QED
      BY <1>1, <3>1, <3>4, <3>5 DEF Drawn
  <2> QED
    BY <2>1, <2>2
<1> QED
  BY <1>1, <1>16, <1>17, <1>18, <1>19 DEF InStep

(* Each way into the index begins such a write.                              *)
LEMMA WritesKeep ==
    ASSUME Typed, InStep, NEW w \in Writer, NEW f \in File, NEW layer \in Layer, Meets(w),
           \/ IndexComponents(w, f, layer)
           \/ IndexDiskComponents(w, f, layer)
           \/ RemoveDocument(w, f)
           \/ RemoveDiskDocument(w, f)
    PROVE  Typed' /\ InStep'
<1> DEFINE old == documents[f]
<1>1. old \in Layers /\ old.disk \in Layer /\ old.open \in Layer \cup {Null}
  BY DEF Typed, Layers
<1>2. Null \notin Layer /\ << >> \in Layer
  BY NullAssumption, LayerAssumption
<1>3. /\ [old EXCEPT !.open = layer] \in Layers
      /\ [old EXCEPT !.disk = layer] \in Layers
      /\ [old EXCEPT !.open = Null] \in Layers
      /\ [old EXCEPT !.disk = << >>] \in Layers
  BY <1>1, <1>2 DEF Layers
<1>4. /\ old.open = layer => Effective([old EXCEPT !.open = layer]) = Effective(old)
      /\ ~ (old.open = Null /\ old.disk # layer)
         => Effective([old EXCEPT !.disk = layer]) = Effective(old)
      /\ ~ (old.open # Null /\ old.open # old.disk)
         => Effective([old EXCEPT !.open = Null]) = Effective(old)
      /\ ~ (old.open = Null /\ old.disk # << >>)
         => Effective([old EXCEPT !.disk = << >>]) = Effective(old)
  BY <1>1, <1>2 DEF Effective, Layers
<1>5. CASE IndexComponents(w, f, layer)
  BY <1>3, <1>4, <1>5, WriteKeeps DEF IndexComponents
<1>6. CASE IndexDiskComponents(w, f, layer)
  BY <1>3, <1>4, <1>6, WriteKeeps DEF IndexDiskComponents
<1>7. CASE RemoveDocument(w, f)
  BY <1>3, <1>4, <1>7, WriteKeeps DEF RemoveDocument
<1>8. CASE RemoveDiskDocument(w, f)
  BY <1>3, <1>4, <1>8, WriteKeeps DEF RemoveDiskDocument
<1> QED
  BY <1>5, <1>6, <1>7, <1>8

(* A step of a write is one of its writer's alone.                           *)
LEMMA WriterSteps ==
    ASSUME Typed, NEW w \in Writer, NEW call \in WriterState,
           writer' = [writer EXCEPT ![w] = call],
           call.uri = writer[w].uri \/ call.pc = "idle",
           name_to_uris' \in [Name -> SUBSET File],
           graph' \in [Name -> [Kind -> Edges \cup {Null}]],
           generation' \in Nat, documents' = documents, writer[w].pc # "idle"
    PROVE  /\ Typed' /\ writer'[w] = call
           /\ \A v \in Writer \ {w} : writer'[v] = writer[v]
<1>1. /\ writer'[w] = call /\ writer' \in [Writer -> WriterState]
      /\ \A v \in Writer \ {w} : writer'[v] = writer[v]
  BY DEF Typed
<1>2. \A v \in Writer : writer'[v].pc # "idle" => writer'[v].uri \in File
  BY <1>1 DEF Typed
<1> QED
  BY <1>1, <1>2 DEF Typed

(* Names stand for what they did while the files hold what they did.         *)
LEMMA DocumentsKept ==
    ASSUME documents' = documents
    PROVE  /\ \A f, n : Declares(f, n)' <=> Declares(f, n)
           /\ \A fs, n : Representative(fs, n)' = Representative(fs, n)
           /\ \A n : name_to_uris'[n] = name_to_uris[n] => Standing(n)' = Standing(n)
<1>1. \A f, n : Declares(f, n)' <=> Declares(f, n)
  BY DEF Declares
<1>2. \A fs, n : Representative(fs, n)' = Representative(fs, n)
  BY DEF Declares, Representative
<1>3. ASSUME NEW n, name_to_uris'[n] = name_to_uris[n] PROVE Standing(n)' = Standing(n)
  BY <1>3 DEF Declares, Representative, Standing
<1> QED
  BY <1>1, <1>2, <1>3

(* It meets no other.                                                        *)
LEMMA LoneKept ==
    ASSUME InStep, NEW w \in Writer, UNCHANGED met, InOrder(writer'[w]),
           \A v \in Writer \ {w} : writer'[v] = writer[v],
           \A n : n \in Rebuilds(w)' => n \in Rebuilds(w) /\ writer'[w].uri = writer[w].uri
    PROVE  /\ Lone' /\ \A v \in Writer : InOrder(writer'[v])
           /\ mixed' = mixed /\ crossed' = crossed
<1>1. mixed' = mixed /\ crossed' = crossed
  BY DEF met
<1>2. \A v \in Writer : \A n : n \in Rebuilds(v)' =>
          n \in Rebuilds(v) /\ writer'[v].uri = writer[v].uri
  BY DEF Rebuilds
<1>3. Lone'
  BY <1>1, <1>2 DEF InStep, Lone
<1>4. \A v \in Writer : InOrder(writer'[v])
  BY DEF InStep
<1> QED
  BY <1>1, <1>3, <1>4

(* A name is filed, or withdrawn.                                            *)
LEMMA NamingKeeps ==
    ASSUME Typed, InStep, NEW w \in Writer, UNCHANGED met,
           InsertName(w) \/ ForgetDeclaration(w)
    PROVE  Typed' /\ InStep'
<1> DEFINE write == writer[w]
<1>1. PICK u : u = writer[w].uri
  OBVIOUS
<1>2. /\ write \in WriterState /\ u \in File /\ write.pc = "index"
      /\ UNCHANGED << documents, graph, generation >>
  BY <1>1 DEF Typed, InsertName, ForgetDeclaration
<1>3. PICK n \in Name, call \in WriterState :
        /\ writer' = [writer EXCEPT ![w] = call]
        /\ call.pc = "index" /\ call.uri = u
        /\ call.unread = write.unread /\ call.pending = write.pending
        /\ n \in write.insert \cup write.forget /\ DOMAIN write.pending = {}
        /\ \/ /\ n \in write.insert
              /\ call.insert = write.insert \ {n} /\ call.forget = write.forget
              /\ name_to_uris' = [name_to_uris EXCEPT ![n] = @ \cup {u}]
           \/ /\ n \in write.forget /\ write.insert = {}
              /\ call.insert = {} /\ call.forget = write.forget \ {n}
              /\ name_to_uris' = [name_to_uris EXCEPT ![n] = @ \ {u}]
  <2>1. CASE InsertName(w)
    <3>1. PICK n \in write.insert :
             /\ name_to_uris' = [name_to_uris EXCEPT ![n] = @ \cup {u}]
             /\ writer' = [writer EXCEPT ![w].insert = @ \ {n}]
      BY <1>1, <2>1 DEF InsertName
    <3> DEFINE call == [write EXCEPT !.insert = @ \ {n}]
    <3>2. writer' = [writer EXCEPT ![w] = call]
      BY <3>1 DEF Typed
    <3>3. /\ call \in WriterState /\ call.pc = "index" /\ call.uri = u
          /\ call.insert = write.insert \ {n} /\ call.forget = write.forget
          /\ call.unread = write.unread /\ call.pending = write.pending
      BY <1>1, <1>2 DEF WriterState
    <3>4. n \in Name /\ DOMAIN write.pending = {}
      BY <1>2 DEF WriterState, InStep, InOrder
    <3> HIDE DEF call
    <3> QED
      BY <3>1, <3>2, <3>3, <3>4
  <2>2. CASE ForgetDeclaration(w)
    <3>1. PICK n \in write.forget :
             /\ name_to_uris' = [name_to_uris EXCEPT ![n] = @ \ {u}]
             /\ writer' = [writer EXCEPT ![w].forget = @ \ {n}]
      BY <1>1, <2>2 DEF ForgetDeclaration
    <3> DEFINE call == [write EXCEPT !.forget = @ \ {n}]
    <3>2. writer' = [writer EXCEPT ![w] = call] /\ write.insert = {}
      BY <2>2, <3>1 DEF Typed, ForgetDeclaration
    <3>3. /\ call \in WriterState /\ call.pc = "index" /\ call.uri = u
          /\ call.insert = {} /\ call.forget = write.forget \ {n}
          /\ call.unread = write.unread /\ call.pending = write.pending
      BY <1>1, <1>2, <3>2 DEF WriterState
    <3>4. n \in Name /\ DOMAIN write.pending = {}
      BY <1>2 DEF WriterState, InStep, InOrder
    <3> HIDE DEF call
    <3> QED
      BY <3>1, <3>2, <3>3, <3>4
  <2> QED
    BY <2>1, <2>2
<1>4. /\ name_to_uris' \in [Name -> SUBSET File]
      /\ \A x \in Name \ {n} : name_to_uris'[x] = name_to_uris[x]
      /\ \A g \in File \ {u} : g \in name_to_uris'[n] <=> g \in name_to_uris[n]
      /\ n \in write.insert => u \in name_to_uris'[n]
      /\ n \notin write.insert => u \notin name_to_uris'[n]
  BY <1>2, <1>3 DEF Typed
<1>5. /\ Typed' /\ writer'[w] = call
      /\ \A v \in Writer \ {w} : writer'[v] = writer[v]
  BY <1>1, <1>2, <1>3, <1>4, WriterSteps DEF Typed
<1>6. n \in write.unread /\ InOrder(call)
  BY <1>3 DEF InStep, InOrder
<1>7. \A v \in Writer : \A x : n \in Rebuilds(w) /\ (x \in Rebuilds(v)' <=> x \in Rebuilds(v))
  BY <1>3, <1>5, <1>6 DEF Rebuilds
<1>8. /\ Lone' /\ \A v \in Writer : InOrder(writer'[v])
      /\ mixed' = mixed /\ crossed' = crossed
  BY <1>1, <1>3, <1>5, <1>6, <1>7, LoneKept
<1>9. ASSUME NEW x \in Name, NEW g \in File, << g, x >> \notin mixed PROVE Filed(g, x)'
  <2>1. Filed(g, x)
    BY <1>9 DEF InStep
  <2>2. CASE g = u /\ x = n
    <3>1. \A v \in Writer \ {w} : writer[v].uri = u
             => n \notin writer[v].insert \cup writer[v].forget
      BY <1>1, <1>7, <1>9, <2>2 DEF InStep, Lone, InOrder, Rebuilds
    <3>2. /\ n \in write.insert => Declares(u, n)
          /\ n \in write.forget => ~ Declares(u, n)
      BY <1>1, <2>1, <2>2 DEF Filed
    <3>3. n \notin call.insert \cup call.forget
      BY <1>3, <3>2
    <3>4. u \in name_to_uris'[n] <=> Declares(u, n)
      BY <1>3, <1>4, <3>2
    <3> QED
      BY <1>2, <1>5, <2>2, <3>1, <3>3, <3>4, DocumentsKept DEF Filed
  <2>3. CASE ~ (g = u /\ x = n)
    <3>1. g \in name_to_uris'[x] <=> g \in name_to_uris[x]
      BY <1>4, <2>3
    <3>2. g = u => /\ x \in call.insert <=> x \in write.insert
                   /\ x \in call.forget <=> x \in write.forget
      BY <1>3, <2>3
    <3>3. Declares(g, x)' <=> Declares(g, x)
      BY <1>2, DocumentsKept
    <3> QED
      BY <1>1, <1>3, <1>5, <2>1, <3>1, <3>2, <3>3 DEF Filed
  <2> QED
    BY <2>2, <2>3
<1>10. ASSUME NEW x \in Name, x \notin crossed PROVE Drawn(x)'
  <2>1. CASE x = n
    <3>1. \A v \in Writer : n \notin DOMAIN writer'[v].pending
      BY <1>3, <1>5, <1>7, <1>10, <2>1 DEF InStep, Lone, Rebuilds
    <3> QED
      BY <1>7, <2>1, <3>1 DEF Drawn
  <2>2. CASE x # n
    <3>1. Standing(x)' = Standing(x)
      BY <1>2, <1>4, <2>2, DocumentsKept
    <3>2. \A v \in Writer : writer'[v].pending = writer[v].pending
      BY <1>3, <1>5
    <3> QED
      BY <1>2, <1>7, <1>10, <3>1, <3>2 DEF InStep, Drawn
  <2> QED
    BY <2>1, <2>2
<1> QED
  BY <1>5, <1>8, <1>9, <1>10 DEF InStep

(* The names of the files are left alone while declarations are looked up    *)
(* and drawn.                                                                *)
LEMMA FiledKept ==
    ASSUME InStep, NEW w \in Writer, UNCHANGED << documents, name_to_uris, mixed >>,
           \A v \in Writer \ {w} : writer'[v] = writer[v],
           writer[w].insert = {}, writer[w].forget = {},
           writer'[w].insert = {}, writer'[w].forget = {}
    PROVE  \A n \in Name, f \in File : << f, n >> \notin mixed => Filed(f, n)'
<1> SUFFICES ASSUME NEW n \in Name, NEW f \in File, << f, n >> \notin mixed PROVE Filed(f, n)'
  OBVIOUS
<1>1. Filed(f, n)
  BY DEF InStep
<1>2. Declares(f, n)' <=> Declares(f, n)
  BY DocumentsKept
<1> QED
  BY <1>1, <1>2 DEF Filed

(* A declaration is looked up.                                               *)
LEMMA ReadingKeeps ==
    ASSUME Typed, InStep, NEW w \in Writer, UNCHANGED met, ReadDeclaration(w)
    PROVE  Typed' /\ InStep'
<1> DEFINE write == writer[w]
<1>1. PICK n \in write.unread :
         writer' = [writer EXCEPT ![w].unread = @ \ {n},
                      ![w].pending = [x \in DOMAIN @ \cup {n} |->
                         IF x = n THEN Representative(name_to_uris[n], n) ELSE @[x]]]
  BY DEF ReadDeclaration
<1>2. /\ write.pc = "index" /\ write.insert = {} /\ write.forget = {}
      /\ UNCHANGED << documents, name_to_uris, graph, generation >>
  BY DEF ReadDeclaration
<1>w. write \in WriterState
  BY DEF Typed
<1> DEFINE old == write.pending
           pending == [x \in DOMAIN old \cup {n} |->
                         IF x = n THEN Representative(name_to_uris[n], n) ELSE old[x]]
           call == [write EXCEPT !.unread = @ \ {n}, !.pending = pending]
<1>3. writer' = [writer EXCEPT ![w] = call]
  BY <1>1 DEF Typed
<1>4. n \in Name /\ old \in Pending
  BY <1>w DEF WriterState
<1>5. Representative(name_to_uris[n], n) \in Loc \cup {Null}
  BY <1>4, RepresentativeType DEF Typed
<1>6. /\ pending \in Pending /\ DOMAIN pending = DOMAIN old \cup {n}
      /\ pending[n] = Standing(n)
      /\ \A x \in DOMAIN pending \ {n} : pending[x] = old[x]
  <2>1. PICK S \in SUBSET Name : old \in [S -> Loc \cup {Null}]
    BY <1>4 DEF Pending
  <2>2. pending \in [S \cup {n} -> Loc \cup {Null}]
    BY <1>5, <2>1
  <2>3. pending \in Pending
    BY <1>4, <2>2 DEF Pending
  <2> QED
    BY <2>3 DEF Standing
<1> HIDE DEF pending
<1>7. /\ call \in WriterState /\ call.pc = "index" /\ call.uri = write.uri
      /\ call.insert = {} /\ call.forget = {}
      /\ call.unread = write.unread \ {n} /\ call.pending = pending
  BY <1>w, <1>2, <1>6 DEF WriterState
<1> HIDE DEF call
<1>8. /\ Typed' /\ writer'[w] = call
      /\ \A v \in Writer \ {w} : writer'[v] = writer[v]
  BY <1>2, <1>3, <1>7, WriterSteps DEF Typed
<1>9. \A v \in Writer : \A x : x \in Rebuilds(v)' <=> x \in Rebuilds(v)
  BY <1>6, <1>7, <1>8 DEF Rebuilds
<1>10. InOrder(call)
  BY <1>7 DEF InOrder
<1>11. /\ Lone' /\ \A v \in Writer : InOrder(writer'[v])
       /\ mixed' = mixed /\ crossed' = crossed
  BY <1>7, <1>8, <1>9, <1>10, LoneKept
<1>12. \A x \in Name, f \in File : << f, x >> \notin mixed => Filed(f, x)'
  BY <1>2, <1>7, <1>8, <1>11, FiledKept
<1>13. ASSUME NEW x \in Name, x \notin crossed PROVE Drawn(x)'
  <2>1. Drawn(x) /\ Standing(x)' = Standing(x)
    BY <1>2, <1>13, DocumentsKept DEF InStep
  <2>2. \A v \in Writer : x \in DOMAIN writer'[v].pending
           => writer'[v].pending[x] = Standing(x)
    BY <1>6, <1>7, <1>8, <2>1 DEF Drawn
  <2> QED
    BY <1>2, <1>9, <2>1, <2>2 DEF Drawn
<1> QED
  BY <1>8, <1>11, <1>12, <1>13 DEF InStep

(* The names looked up are drawn.                                            *)
LEMMA DrawingKeeps ==
    ASSUME Typed, InStep, NEW w \in Writer, UNCHANGED met, WriteGraph(w)
    PROVE  Typed' /\ InStep'
<1> DEFINE write == writer[w]
           call == [write EXCEPT !.pc = "bump", !.pending = << >>]
<1>w. write \in WriterState
  BY DEF Typed
<1>1. /\ write.pc = "index" /\ write.insert = {} /\ write.forget = {} /\ write.unread = {}
      /\ graph' = [n \in Name |-> IF n \in DOMAIN write.pending
                                  THEN Node(write.pending[n]) ELSE graph[n]]
      /\ writer' = [writer EXCEPT ![w] = call]
      /\ UNCHANGED << documents, name_to_uris, generation >>
  BY DEF WriteGraph, Typed
<1>2. /\ call \in WriterState /\ call.pc = "bump" /\ call.uri = write.uri
      /\ call.insert = {} /\ call.forget = {} /\ call.unread = {} /\ DOMAIN call.pending = {}
  BY <1>w, <1>1, IdleType DEF WriterState, Idle
<1> HIDE DEF call
<1>3. graph' \in [Name -> [Kind -> Edges \cup {Null}]]
  <2>1. \A n \in DOMAIN write.pending : write.pending[n] \in Loc \cup {Null}
    BY <1>w DEF WriterState, Pending
  <2>2. ASSUME NEW n \in Name PROVE graph'[n] \in [Kind -> Edges \cup {Null}]
    BY <1>1, <2>1, NodeType DEF Typed
  <2> QED
    BY <1>1, <2>2
<1>4. /\ Typed' /\ writer'[w] = call
      /\ \A v \in Writer \ {w} : writer'[v] = writer[v]
  BY <1>1, <1>2, <1>3, WriterSteps DEF Typed
<1>5. /\ \A x : x \notin Rebuilds(w)' /\ (x \in Rebuilds(w) <=> x \in DOMAIN write.pending)
      /\ \A v \in Writer \ {w} : \A x : x \in Rebuilds(v)' <=> x \in Rebuilds(v)
  BY <1>1, <1>2, <1>4 DEF Rebuilds
<1>6. InOrder(call)
  BY <1>2 DEF InOrder
<1>7. /\ Lone' /\ \A v \in Writer : InOrder(writer'[v])
      /\ mixed' = mixed /\ crossed' = crossed
  BY <1>4, <1>5, <1>6, LoneKept
<1>8. \A x \in Name, f \in File : << f, x >> \notin mixed => Filed(f, x)'
  BY <1>1, <1>2, <1>4, <1>7, FiledKept
<1>9. ASSUME NEW x \in Name, x \notin crossed PROVE Drawn(x)'
  <2>1. Drawn(x) /\ Standing(x)' = Standing(x)
    BY <1>1, <1>9, DocumentsKept DEF InStep
  <2>2. \A v \in Writer : x \in DOMAIN writer'[v].pending
           => writer'[v].pending[x] = Standing(x)
    BY <1>2, <1>4, <2>1 DEF Drawn
  <2>3. (\A v \in Writer : x \notin Rebuilds(v)') => graph'[x] = Node(Standing(x))
    BY <1>1, <1>5, <2>1 DEF Drawn
  <2> QED
    BY <2>1, <2>2, <2>3 DEF Drawn
<1> QED
  BY <1>4, <1>7, <1>8, <1>9 DEF InStep

(* A write ends.                                                             *)
LEMMA BumpKeeps ==
    ASSUME Typed, InStep, NEW w \in Writer, UNCHANGED met, Bump(w)
    PROVE  Typed' /\ InStep'
<1>1. /\ writer[w].pc = "bump" /\ generation' = generation + 1
      /\ writer' = [writer EXCEPT ![w] = Idle]
      /\ UNCHANGED << documents, name_to_uris, graph >>
  BY DEF Bump
<1>2. /\ writer[w].insert = {} /\ writer[w].forget = {}
      /\ writer[w].unread = {} /\ DOMAIN writer[w].pending = {}
  BY <1>1 DEF InStep, InOrder
<1>3. Typed' /\ writer'[w] = Idle /\ \A v \in Writer \ {w} : writer'[v] = writer[v]
  BY <1>1, IdleType, WriterSteps DEF Typed
<1>4. /\ Idle.insert = {} /\ Idle.forget = {} /\ Idle.unread = {} /\ DOMAIN Idle.pending = {}
      /\ Idle.pc = "idle"
  BY IdleType DEF Idle
<1>5. \A v \in Writer : \A x : x \in Rebuilds(v)' <=> x \in Rebuilds(v)
  BY <1>2, <1>3, <1>4 DEF Rebuilds
<1>6. InOrder(Idle) /\ \A x : x \notin Rebuilds(w)'
  BY <1>3, <1>4 DEF InOrder, Rebuilds
<1>7. /\ Lone' /\ \A v \in Writer : InOrder(writer'[v])
      /\ mixed' = mixed /\ crossed' = crossed
  BY <1>3, <1>6, LoneKept
<1>8. \A x \in Name, f \in File : << f, x >> \notin mixed => Filed(f, x)'
  BY <1>1, <1>2, <1>3, <1>4, <1>7, FiledKept
<1>9. ASSUME NEW x \in Name, x \notin crossed PROVE Drawn(x)'
  <2>1. Drawn(x) /\ Standing(x)' = Standing(x)
    BY <1>1, <1>9, DocumentsKept DEF InStep
  <2>2. \A v \in Writer : x \in DOMAIN writer'[v].pending
           => writer'[v].pending[x] = Standing(x)
    BY <1>3, <1>4, <2>1 DEF Drawn
  <2> QED
    BY <1>1, <1>5, <2>1, <2>2 DEF Drawn
<1> QED
  BY <1>3, <1>7, <1>8, <1>9 DEF InStep

(* Every step of a write keeps what is in step, or still to do.              *)
LEMMA StepKeeps ==
    ASSUME Typed, InStep, NEW w \in Writer, Step(w), UNCHANGED met
    PROVE  Typed' /\ InStep'
BY NamingKeeps, ReadingKeeps, DrawingKeeps, BumpKeeps DEF Step


-----------------------------------------------------------------------------
(* The jobs and the documents.                                              *)

(* A spelling stands for a file, and so does its key.                        *)
LEMMA KeyType ==
    ASSUME NEW s \in File, NEW known \in SUBSET Alias
    PROVE  /\ Key(s, known) \in File
           /\ FileOf(s) \in Source
           /\ Key(s, known) = IF s \in Alias \ known THEN s ELSE FileOf(s)
BY AliasAssumption DEF Key, FileOf, Source

LEMMA IdleJobType ==
    IdleJob \in JobState /\ Ready(IdleJob) /\ IdleJob.pc = "idle" /\ DOMAIN IdleJob.texts = {}
<1>1. << >> \in [{} -> Text \cup {Null}]
  OBVIOUS
<1>2. << >> \in Texts /\ << >> \in Seq(Folder)
  BY <1>1 DEF Texts
<1> QED
  BY <1>2 DEF IdleJob, JobState, Ready, Scanning

(* What a job does with what it has in hand.                                 *)
LEMMA JobWritten ==
    ASSUME JobsTyped, NEW j \in Job, NEW new \in JobState, Ready(new),
           job' = [job EXCEPT ![j] = new]
    PROVE  JobsTyped'
<1>1. \A i \in Job : job'[i] = IF i = j THEN new ELSE job[i]
  BY DEF JobsTyped
<1>2. job' \in [Job -> JobState]
  BY DEF JobsTyped
<1> QED
  BY <1>1, <1>2 DEF JobsTyped

(* What is in hand are texts of files, and stays so with one file less.      *)
LEMMA TextsInHand ==
    ASSUME NEW texts \in Texts
    PROVE  /\ DOMAIN texts \subseteq File
           /\ \A x \in DOMAIN texts : texts[x] \in Text \cup {Null}
           /\ \A s : Without(texts, s) \in Texts
<1>1. PICK S \in SUBSET File : texts \in [S -> Text \cup {Null}]
  BY DEF Texts
<1>2. ASSUME NEW s PROVE Without(texts, s) \in Texts
  <2>1. Without(texts, s) \in [S \ {s} -> Text \cup {Null}]
    BY <1>1 DEF Without
  <2>2. S \ {s} \in SUBSET File
    OBVIOUS
  <2> QED
    BY <2>1, <2>2 DEF Texts
<1> QED
  BY <1>1, <1>2

(* One more file is read.                                                    *)
LEMMA TextRead ==
    ASSUME NEW texts \in Texts, NEW s \in File, NEW text \in Text \cup {Null}
    PROVE  [x \in DOMAIN texts \cup {s} |-> IF x = s THEN text ELSE texts[x]] \in Texts
<1>1. PICK S \in SUBSET File : texts \in [S -> Text \cup {Null}]
  BY DEF Texts
<1>2. [x \in DOMAIN texts \cup {s} |-> IF x = s THEN text ELSE texts[x]]
      \in [S \cup {s} -> Text \cup {Null}]
  BY <1>1
<1>3. S \cup {s} \in SUBSET File
  OBVIOUS
<1> QED
  BY <1>2, <1>3 DEF Texts

(* The steps of a job keep the jobs typed.                                   *)
LEMMA JobSteps ==
    ASSUME Shape, NEW j \in Job, JobStep(j)
    PROVE  JobsTyped'
<1> DEFINE task == job[j]
<1>t. task \in JobState /\ Ready(task)
  BY DEF Shape, JobsTyped
<1>j. job \in [Job -> JobState]
  BY DEF Shape, JobsTyped
<1>n. ASSUME task.todo # << >> PROVE NextFolder(j) \in JobState /\ Ready(NextFolder(j))
  <2>1. Tail(task.todo) \in Seq(Folder)
    BY <1>n, <1>t DEF JobState
  <2> QED
    BY <1>t, <2>1, IdleJobType DEF NextFolder, IdleJob, JobState, Ready, Scanning
<1>1. CASE StartScan(j)
  <2> DEFINE listed == {f \in Source : FolderOf[f] = Head(task.todo)}
             new == [task EXCEPT !.pc = IF listed = {} THEN "xrefs" ELSE "walk", !.uris = listed]
  <2>1. job' = [job EXCEPT ![j] = new] /\ task.pc = "folder" /\ task.todo # << >>
    BY <1>1, <1>j DEF StartScan, At
  <2>2. listed \subseteq Source /\ Source \subseteq File
    BY DEF Source
  <2> HIDE DEF listed
  <2>3. new \in JobState /\ Ready(new)
    BY <1>t, <2>1, <2>2 DEF JobState, Ready, Scanning
  <2> QED
    BY <2>1, <2>3, JobWritten DEF Shape
<1>2. CASE ScanFile(j)
  <2>1. PICK f \in task.uris :
          job' = [job EXCEPT ![j].uris = @ \ {f},
                     ![j].pc = IF task.uris = {f} THEN "xrefs" ELSE @,
                     ![j].texts = IF disk[f] = Null THEN @
                        ELSE [s \in DOMAIN task.texts \cup {f} |->
                                IF s = f THEN disk[f] ELSE task.texts[s]]]
    BY <1>2 DEF ScanFile
  <2> DEFINE texts == IF disk[f] = Null THEN task.texts
                      ELSE [s \in DOMAIN task.texts \cup {f} |->
                              IF s = f THEN disk[f] ELSE task.texts[s]]
             pc == IF task.uris = {f} THEN "xrefs" ELSE task.pc
             new == [task EXCEPT !.uris = @ \ {f}, !.pc = pc, !.texts = texts]
  <2>2. task.pc = "walk" /\ task.uris \subseteq Source /\ task.todo # << >>
    BY <1>2, <1>t DEF ScanFile, At, Ready, Scanning
  <2>3. texts \in Texts
    <3>1. disk[f] \in Text \cup {Null} /\ f \in File /\ task.texts \in Texts
      BY <1>t, <2>2 DEF Shape, SourcesTyped, Source, JobState
    <3> QED
      BY <3>1, TextRead
  <2>4. pc \in {"walk", "xrefs"}
    BY <2>2
  <2>5. job' = [job EXCEPT ![j] = new]
    BY <1>j, <2>1
  <2> HIDE DEF texts, pc
  <2>6. /\ new \in JobState /\ new.pc = pc /\ new.uris = task.uris \ {f}
        /\ new.todo = task.todo
    BY <1>t, <2>3, <2>4 DEF JobState
  <2> HIDE DEF new
  <2>7. Ready(new)
    BY <2>2, <2>4, <2>6 DEF Ready
  <2> QED
    BY <2>5, <2>6, <2>7, JobWritten DEF Shape
<1>3. CASE ScanFails(j)
  <2>1. job' = [job EXCEPT ![j] = NextFolder(j)] /\ task.todo # << >>
    BY <1>3, <1>t DEF ScanFails, At, Ready, Scanning
  <2> QED
    BY <1>n, <2>1, JobWritten DEF Shape
<1>4. CASE IndexXrefs(j)
  <2>1. PICK s \in DOMAIN task.texts : job' = [job EXCEPT ![j].pc = "symbols", ![j].uri = s]
    BY <1>4 DEF IndexXrefs
  <2> DEFINE new == [task EXCEPT !.pc = "symbols", !.uri = s]
  <2>2. job' = [job EXCEPT ![j] = new]
    BY <1>j, <2>1
  <2>3. s \in File
    BY <1>t, TextsInHand DEF JobState
  <2>4. new \in JobState /\ Ready(new)
    <3>1. /\ new \in JobState /\ new.pc = "symbols" /\ new.uri = s /\ new.texts = task.texts
          /\ new.kind = task.kind /\ new.removed = task.removed /\ new.todo = task.todo
      BY <1>t, <2>3 DEF JobState
    <3>2. task.pc = "xrefs"
      BY <1>4 DEF IndexXrefs, At
    <3> QED
      BY <1>t, <3>1, <3>2 DEF Ready, Scanning
  <2> QED
    BY <2>2, <2>4, JobWritten DEF Shape
<1>5. CASE IndexSymbols(j)
  <2> DEFINE s == task.uri
             texts == Without(task.texts, s)
             new == [task EXCEPT !.pc = "xrefs", !.uri = Null, !.texts = texts]
  <2>1. job' = [job EXCEPT ![j] = new] /\ task.pc = "symbols"
    BY <1>5, <1>j DEF IndexSymbols, At
  <2>2. texts \in Texts
    <3>1. task.texts \in Texts
      BY <1>t DEF JobState
    <3> QED
      BY <3>1, TextsInHand
  <2> HIDE DEF texts
  <2>3. /\ new \in JobState /\ new.pc = "xrefs"
        /\ new.kind = task.kind /\ new.removed = task.removed /\ new.todo = task.todo
    BY <1>t, <2>2 DEF JobState
  <2>4. Ready(new)
    BY <1>t, <2>1, <2>3 DEF Ready, Scanning
  <2> QED
    BY <2>1, <2>3, <2>4, JobWritten DEF Shape
<1>6. CASE ScanEnds(j)
  <2>1. job' = [job EXCEPT ![j] = NextFolder(j)] /\ task.todo # << >>
    BY <1>6, <1>t DEF ScanEnds, Indexed, At, Ready, Scanning
  <2> QED
    BY <1>n, <2>1, JobWritten DEF Shape
<1>7. CASE DropEnds(j)
  <2> DEFINE new == [task EXCEPT !.pc = "folder", !.removed = {}]
  <2>1. job' = [job EXCEPT ![j] = new]
    BY <1>7, <1>j DEF DropEnds
  <2>2. new \in JobState /\ Ready(new)
    BY <1>t DEF JobState, Ready, Scanning
  <2> QED
    BY <2>1, <2>2, JobWritten DEF Shape
<1>8. CASE RefreshEnds(j)
  <2> DEFINE new == IF task.uris = {} THEN IdleJob ELSE [task EXCEPT !.pc = "read"]
  <2>1. job' = [job EXCEPT ![j] = new]
    BY <1>8, <1>j DEF RefreshEnds
  <2>2. new \in JobState /\ Ready(new)
    <3>1. [task EXCEPT !.pc = "read"] \in JobState /\ Ready([task EXCEPT !.pc = "read"])
      BY <1>8, <1>t DEF JobState, Ready, Scanning, RefreshEnds, Indexed
    <3> QED
      BY <3>1, IdleJobType
  <2> QED
    BY <2>1, <2>2, JobWritten DEF Shape
<1>9. CASE FoldersDone(j)
  BY <1>9, IdleJobType, JobWritten DEF FoldersDone, Shape
<1>10. CASE Refresh(j)
  <2>1. PICK s \in task.uris :
          job' = [job EXCEPT ![j].uris = @ \ {s}, ![j].pc = "xrefs",
                             ![j].texts = [x \in {s} |-> disk[FileOf(s)]]]
    BY <1>10 DEF Refresh
  <2> DEFINE text == disk[FileOf(s)]
             texts == [x \in {s} |-> text]
             new == [task EXCEPT !.uris = @ \ {s}, !.pc = "xrefs", !.texts = texts]
  <2>2. texts \in Texts
    <3>1. s \in File
      BY <1>t DEF JobState
    <3>2. text \in Text \cup {Null} /\ task.texts \in Texts
      BY <1>t, <3>1, KeyType, AliasAssumption DEF JobState, Shape, SourcesTyped
    <3> HIDE DEF text
    <3>3. texts \in [{s} -> Text \cup {Null}] /\ {s} \in SUBSET File
      BY <3>1, <3>2
    <3> QED
      BY <3>3 DEF Texts
  <2>3. job' = [job EXCEPT ![j] = new]
    BY <1>j, <2>1
  <2> HIDE DEF texts
  <2>4. /\ new \in JobState /\ new.pc = "xrefs" /\ new.kind = task.kind
    BY <1>t, <2>2 DEF JobState
  <2>5. Ready(new)
    BY <1>10, <1>t, <2>4 DEF Ready, Scanning, Refresh, At
  <2> QED
    BY <2>3, <2>4, <2>5, JobWritten DEF Shape
<1>11. CASE RefreshFails(j)
  <2>1. PICK s \in task.uris :
          job' = [job EXCEPT ![j] = IF task.uris \ {s} = {} THEN IdleJob
                                    ELSE [@ EXCEPT !.uris = task.uris \ {s}]]
    BY <1>11 DEF RefreshFails
  <2> DEFINE left == task.uris \ {s}
             new == IF left = {} THEN IdleJob ELSE [task EXCEPT !.uris = left]
  <2>2. job' = [job EXCEPT ![j] = new] /\ task.pc = "read"
    BY <1>11, <1>j, <2>1 DEF RefreshFails, At
  <2>3. new \in JobState /\ Ready(new)
    <3>1. [task EXCEPT !.uris = left] \in JobState /\ Ready([task EXCEPT !.uris = left])
      BY <1>t, <2>2 DEF JobState, Ready, Scanning
    <3> QED
      BY <3>1, IdleJobType
  <2> QED
    BY <2>2, <2>3, JobWritten DEF Shape
<1>12. CASE DropFolders(j)
  <2> DEFINE gone == {k \in File : /\ FolderOf[k] \in task.removed
                                   /\ documents[k] # [disk |-> << >>, open |-> Null]}
             texts == [k \in gone |-> Null]
             new == [task EXCEPT !.pc = "xrefs", !.texts = texts]
  <2>1. job' = [job EXCEPT ![j] = new] /\ task.pc = "drop"
    BY <1>12, <1>j DEF DropFolders, At
  <2>2. texts \in Texts
    <3>1. gone \in SUBSET File
      OBVIOUS
    <3> HIDE DEF gone
    <3>2. texts \in [gone -> Text \cup {Null}]
      OBVIOUS
    <3> QED
      BY <3>1, <3>2 DEF Texts
  <2> HIDE DEF texts
  <2>3. new \in JobState /\ new.pc = "xrefs" /\ new.removed = task.removed
    BY <1>t, <2>2 DEF JobState
  <2>4. Ready(new)
    BY <1>t, <2>1, <2>3 DEF Ready, Scanning
  <2> QED
    BY <2>1, <2>3, <2>4, JobWritten DEF Shape
<1> QED
  BY <1>1, <1>2, <1>3, <1>4, <1>5, <1>6, <1>7, <1>8, <1>9, <1>10, <1>11, <1>12 DEF JobStep

(* A registered spelling is resolved, or is remembered as not.               *)
LEMMA Registers ==
    ASSUME SourcesTyped, NEW s \in File, Register(s)
    PROVE  /\ aliases \subseteq aliases' /\ aliases' \subseteq Alias
           /\ early \subseteq early' /\ early' \subseteq Alias
           /\ s \in Alias \ aliases' => s \in early'
BY DEF SourcesTyped, Register, Registered

(* What a job has in hand, at the two steps that index it.                   *)
LEMMA InHand ==
    ASSUME Shape, NEW j \in Job, NEW s \in DOMAIN job[j].texts
    PROVE  s \in File /\ job[j].texts[s] \in Text \cup {Null}
<1>1. job[j].texts \in Texts
  BY DEF Shape, JobsTyped, JobState
<1> QED
  BY <1>1, TextsInHand

(* Every step of a job keeps the documents and the symbol index typed.       *)
LEMMA JobSources ==
    ASSUME Shape, NEW j \in Job, JobStep(j)
    PROVE  SourcesTyped'
<1>1. CASE IndexXrefs(j)
  <2>1. UNCHANGED << disk, buffer, due, symbols, reported >>
    BY <1>1 DEF IndexXrefs, Works, sources
  <2>2. aliases' \subseteq Alias /\ early' \subseteq Alias
    <3>1. PICK s \in DOMAIN job[j].texts :
            \/ UNCHANGED << aliases, early >>
            \/ Register(s)
      BY <1>1 DEF IndexXrefs
    <3> QED
      BY <3>1, InHand, Registers DEF Shape, SourcesTyped
  <2> QED
    BY <2>1, <2>2 DEF Shape, SourcesTyped
<1>2. CASE IndexSymbols(j)
  <2> DEFINE s == job[j].uri
             text == job[j].texts[s]
  <2>1. UNCHANGED << disk, buffer, due, reported >>
        /\ symbols' = [symbols EXCEPT ![Key(s, aliases')].disk = text]
        /\ (UNCHANGED << aliases, early >> \/ Register(s))
    BY <1>2 DEF IndexSymbols, Works, sources
  <2>2. s \in File /\ text \in Text \cup {Null}
    <3>1. s \in DOMAIN job[j].texts
      BY <1>2 DEF IndexSymbols, At, Shape, JobsTyped, Ready
    <3> QED
      BY <3>1, InHand
  <2>3. aliases' \subseteq Alias /\ early' \subseteq Alias
    BY <2>1, <2>2, Registers DEF Shape, SourcesTyped
  <2>4. symbols' \in [File -> [disk : Text \cup {Null}, open : Text \cup {Null}]]
    BY <2>1, <2>2 DEF Shape, SourcesTyped
  <2> QED
    BY <2>1, <2>3, <2>4 DEF Shape, SourcesTyped
<1>3. CASE UNCHANGED << disk, buffer, due, aliases, early, symbols, reported >>
  BY <1>3 DEF Shape, SourcesTyped
<1> QED
  BY <1>1, <1>2, <1>3 DEF JobStep, StartScan, ScanFile, ScanFails, ScanEnds, DropEnds,
     RefreshEnds, FoldersDone, Refresh, RefreshFails, DropFolders, Works, Indexed,
     sources, workspace, history

(* A job that starts is ready.                                               *)
LEMMA StartKeeps ==
    ASSUME Shape, NEW j \in Job, NEW uris \in SUBSET File, Starts(j, uris)
    PROVE  JobsTyped'
<1> DEFINE new == [IdleJob EXCEPT !.pc = "read", !.kind = "refresh", !.uris = uris]
<1>1. new \in JobState /\ Ready(new)
  BY IdleJobType DEF JobState, Ready, Scanning
<1> QED
  BY <1>1, JobWritten DEF Starts, Shape

(* A batch of reports and a change of folders keep what they start typed.    *)
LEMMA BatchesKeep ==
    ASSUME Shape, NEW j \in Job,
           \/ DidChangeWatchedFiles(j)
           \/ \E removed \in SUBSET Folder, added \in {<< >>} \cup {<< d >> : d \in Folder} :
                 ChangeFolders(j, removed, added)
    PROVE  JobsTyped' /\ SourcesTyped'
<1> USE DEF sources, workspace, history
<1>1. CASE DidChangeWatchedFiles(j)
  <2>1. UNCHANGED << disk, buffer, due, aliases, early, symbols >> /\ reported' = {}
    BY <1>1 DEF DidChangeWatchedFiles
  <2>2. CASE job' = job
    BY <2>1, <2>2 DEF Shape, JobsTyped, SourcesTyped
  <2>3. CASE Starts(j, {f \in reported : FolderOf[f] = root})
    <3>1. {f \in reported : FolderOf[f] = root} \in SUBSET File
      BY DEF Shape, SourcesTyped, Source
    <3> QED
      BY <2>1, <2>3, <3>1, StartKeeps DEF Shape, SourcesTyped
  <2> QED
    BY <1>1, <2>2, <2>3 DEF DidChangeWatchedFiles
<1>2. ASSUME NEW removed \in SUBSET Folder, NEW added \in {<< >>} \cup {<< d >> : d \in Folder},
             ChangeFolders(j, removed, added)
      PROVE  JobsTyped' /\ SourcesTyped'
  <2> DEFINE pc == IF removed = {} THEN "folder" ELSE "drop"
             new == [IdleJob EXCEPT !.kind = "folders", !.removed = removed, !.todo = added,
                                    !.pc = pc]
  <2>1. job' = [job EXCEPT ![j] = new]
        /\ UNCHANGED << disk, buffer, due, aliases, early, symbols, reported >>
    BY <1>2 DEF ChangeFolders
  <2>2. added \in Seq(Folder)
    <3>1. << >> \in Seq(Folder) /\ \A d \in Folder : << d >> \in Seq(Folder)
      OBVIOUS
    <3> QED
      BY <3>1
  <2>3. pc \in {"folder", "drop"} /\ (pc = "drop" => removed # {})
    OBVIOUS
  <2> HIDE DEF pc
  <2>4. new \in JobState /\ new.pc = pc /\ new.removed = removed
    BY <2>2, <2>3, IdleJobType DEF JobState
  <2> HIDE DEF new
  <2>5. Ready(new)
    BY <2>3, <2>4 DEF Ready, Scanning
  <2> QED
    BY <2>1, <2>4, <2>5, JobWritten DEF Shape, SourcesTyped
<1> QED
  BY <1>1, <1>2

(* What happens to a document or a file keeps it typed.                      *)
LEMMA EventsKeep ==
    ASSUME Shape, NEW s \in File,
           \/ \E j \in Job : DidSave(j, s)
           \/ s \in Source /\ DiskWrite(s)
           \/ DidOpen(s) \/ DidChange(s) \/ Analyze(s) \/ DidClose(s)
    PROVE  JobsTyped' /\ SourcesTyped'
<1> USE DEF sources, workspace, history
<1>1. ASSUME NEW j \in Job, DidSave(j, s) PROVE JobsTyped' /\ SourcesTyped'
  <2>1. FileOf(s) \in Source /\ buffer[s] \in Text
    BY <1>1, KeyType DEF DidSave, Shape, SourcesTyped
  <2>2. /\ disk' = [disk EXCEPT ![FileOf(s)] = buffer[s]] /\ due' = due \cup {s}
        /\ UNCHANGED << buffer, aliases, early, symbols >> /\ Starts(j, {s})
        /\ buffer[s] # Null /\ reported' \subseteq reported \cup {FileOf(s)}
    BY <1>1 DEF DidSave, Written
  <2>3. SourcesTyped'
    BY <2>1, <2>2 DEF Shape, SourcesTyped
  <2> QED
    BY <2>2, <2>3, StartKeeps
<1>2. CASE s \in Source /\ DiskWrite(s)
  BY <1>2 DEF DiskWrite, Written, Shape, JobsTyped, SourcesTyped
<1>3. CASE DidOpen(s)
  <2>1. PICK text \in Text : buffer' = [buffer EXCEPT ![s] = text]
    BY <1>3 DEF DidOpen
  <2>2. Register(s) /\ due' = due \cup {s} /\ UNCHANGED << disk, symbols, job, reported >>
    BY <1>3 DEF DidOpen
  <2>3. aliases' \subseteq Alias /\ early' \subseteq Alias
    BY <2>2, Registers DEF Shape
  <2> QED
    BY <2>1, <2>2, <2>3, TextAssumption DEF Shape, JobsTyped, SourcesTyped
<1>4. CASE DidChange(s)
  BY <1>4, TextAssumption DEF DidChange, Shape, JobsTyped, SourcesTyped
<1>5. CASE Analyze(s)
  BY <1>5 DEF Analyze, Shape, JobsTyped, SourcesTyped
<1>6. CASE DidClose(s)
  BY <1>6 DEF DidClose, Shape, JobsTyped, SourcesTyped
<1> QED
  BY <1>1, <1>2, <1>3, <1>4, <1>5, <1>6

-----------------------------------------------------------------------------
(* The index stays in step.                                                 *)

(* Every step leaves the index in step, or knows what is out of step.        *)
LEMMA NextIndex == Shape /\ InStep /\ [WNext]_wVars => Typed' /\ InStep'
<1> SUFFICES ASSUME Shape, InStep, [WNext]_wVars PROVE Typed' /\ InStep'
  OBVIOUS
<1>w. Job \subseteq Writer /\ Editor \in Writer
  BY JobAssumption
<1>l. \A text \in Text : LayerOf[text] \in Layer
  BY TextAssumption
<1>e. << >> \in Layer
  BY LayerAssumption
<1>1. ASSUME UNCHANGED vars, UNCHANGED met PROVE Typed' /\ InStep'
  <2>1. UNCHANGED << documents, name_to_uris, graph, generation, writer, mixed, crossed >>
    BY <1>1 DEF vars, met
  <2>2. \A n : (Drawn(n)' <=> Drawn(n)) /\ \A f : Filed(f, n)' <=> Filed(f, n)
    BY <2>1, DocumentsKept DEF Drawn, Filed, Rebuilds
  <2>3. Lone'
    BY <2>1 DEF InStep, Lone, Rebuilds
  <2>4. Typed'
    BY <2>1 DEF Shape, Typed
  <2> QED
    BY <2>1, <2>2, <2>3, <2>4 DEF InStep
<1>2. ASSUME NEW w \in Writer, Step(w), UNCHANGED history PROVE Typed' /\ InStep'
  BY <1>2, StepKeeps DEF Shape, history
<1>3. ASSUME NEW j \in Job, IndexXrefs(j) PROVE Typed' /\ InStep'
  <2>1. PICK s \in DOMAIN job[j].texts :
          /\ IF job[j].texts[s] = Null
             THEN RemoveDiskDocument(j, Key(s, aliases))
             ELSE Register(s) /\ IndexDiskComponents(j, Key(s, aliases'), LayerOf[job[j].texts[s]])
          /\ Meets(j)
    BY <1>3 DEF IndexXrefs
  <2>2. s \in File /\ job[j].texts[s] \in Text \cup {Null}
    BY InHand
  <2>3. CASE job[j].texts[s] = Null
    <3>1. Key(s, aliases) \in File
      BY <2>2, KeyType DEF Shape, SourcesTyped
    <3> QED
      BY <1>w, <1>e, <2>1, <2>3, <3>1, WritesKeep DEF Shape
  <2>4. CASE job[j].texts[s] # Null
    <3>1. Key(s, aliases') \in File
      BY <2>1, <2>2, <2>4, KeyType, Registers DEF Shape
    <3>2. LayerOf[job[j].texts[s]] \in Layer
      BY <1>l, <2>2, <2>4
    <3> QED
      BY <1>w, <2>1, <2>4, <3>1, <3>2, WritesKeep DEF Shape
  <2> QED
    BY <2>3, <2>4
<1>4. ASSUME NEW s \in File, Analyze(s) PROVE Typed' /\ InStep'
  <2>1. /\ IndexComponents(Editor, Key(s, aliases), LayerOf[buffer[s]])
        /\ Meets(Editor) /\ s \in due
    BY <1>4 DEF Analyze
  <2>2. Key(s, aliases) \in File /\ LayerOf[buffer[s]] \in Layer
    BY <1>l, <2>1, KeyType DEF Shape, SourcesTyped
  <2> QED
    BY <1>w, <2>1, <2>2, WritesKeep DEF Shape
<1>5. ASSUME NEW s \in File, DidClose(s) PROVE Typed' /\ InStep'
  <2>1. RemoveDocument(Editor, Key(s, aliases)) /\ Meets(Editor)
    BY <1>5 DEF DidClose
  <2>2. Key(s, aliases) \in File
    BY KeyType DEF Shape, SourcesTyped
  <2> QED
    BY <1>w, <1>e, <2>1, <2>2, WritesKeep DEF Shape
<1>6. ASSUME NEW j \in Job, JobStep(j) PROVE Typed' /\ InStep'
  <2>1. IndexXrefs(j) \/ (UNCHANGED vars /\ UNCHANGED met)
    BY <1>6 DEF JobStep, StartScan, ScanFile, ScanFails, IndexSymbols, ScanEnds, DropEnds,
                RefreshEnds, FoldersDone, Refresh, RefreshFails, DropFolders, history
  <2> QED
    BY <1>1, <1>3, <2>1
<1>7. CASE \/ \E j \in Job : DidChangeWatchedFiles(j)
           \/ \E f \in Source : DiskWrite(f)
           \/ \E j \in Job, s \in File : DidSave(j, s)
           \/ \E j \in Job, removed \in SUBSET Folder,
                added \in {<< >>} \cup {<< d >> : d \in Folder} : ChangeFolders(j, removed, added)
           \/ \E s \in File : DidOpen(s) \/ DidChange(s)
  BY <1>1, <1>7 DEF DidChangeWatchedFiles, DiskWrite, DidSave, ChangeFolders, DidOpen, DidChange,
                    history
<1>8. CASE UNCHANGED wVars
  BY <1>1, <1>8 DEF wVars, history
<1> QED
  BY <1>2, <1>4, <1>5, <1>6, <1>7, <1>8 DEF WNext


(* Every step keeps the jobs and the documents typed.                        *)
LEMMA NextShape == Shape /\ InStep /\ [WNext]_wVars => Shape'
<1> SUFFICES ASSUME Shape, InStep, [WNext]_wVars PROVE Shape'
  OBVIOUS
<1>1. JobsTyped' /\ SourcesTyped'
  <2>1. CASE \/ UNCHANGED wVars
             \/ \E w \in Writer :
                  Step(w) /\ UNCHANGED << sources, workspace, job, reported, events, history >>
    BY <2>1 DEF wVars, sources, workspace, history, Shape, JobsTyped, SourcesTyped
  <2>2. ASSUME NEW j \in Job, JobStep(j) PROVE JobsTyped' /\ SourcesTyped'
    BY <2>2, JobSteps, JobSources
  <2>3. CASE \/ \E j \in Job : DidChangeWatchedFiles(j)
             \/ \E j \in Job, removed \in SUBSET Folder,
                  added \in {<< >>} \cup {<< d >> : d \in Folder} : ChangeFolders(j, removed, added)
    BY <2>3, BatchesKeep
  <2>4. CASE \/ \E f \in Source : DiskWrite(f)
             \/ \E j \in Job, s \in File : DidSave(j, s)
             \/ \E s \in File : DidOpen(s) \/ DidChange(s) \/ Analyze(s) \/ DidClose(s)
    <3>1. \A f \in Source : f \in File
      BY DEF Source
    <3> QED
      BY <2>4, <3>1, EventsKeep
  <2> QED
    BY <2>1, <2>2, <2>3, <2>4 DEF WNext
<1> QED
  BY <1>1, NextIndex DEF Shape

-----------------------------------------------------------------------------
(* The initial states.                                                      *)

LEMMA InitTyped == WInit => Shape
<1> SUFFICES ASSUME WInit PROVE Shape
  OBVIOUS
<1>1. Typed
  <2>1. << >> \in Layer /\ writer = [w \in Writer |-> Idle]
    BY LayerAssumption DEF WInit, Init
  <2>2. documents \in [File -> Layers]
    BY <2>1 DEF WInit, Init, Layers
  <2>3. graph \in [Name -> [Kind -> Edges \cup {Null}]]
    BY DEF WInit, Init, NoNode
  <2> QED
    BY <2>1, <2>2, <2>3, IdleType DEF WInit, Init, Typed
<1>2. folders \in Seq(Folder) /\ disk \in [Source -> Text \cup {Null}]
  BY InitialAssumption DEF WInit
<1>3. JobsTyped
  <2> DEFINE first == [IdleJob EXCEPT !.pc = "folder", !.kind = "startup", !.todo = folders]
  <2>1. first \in JobState /\ Ready(first)
    BY <1>2, IdleJobType DEF JobState, Ready, Scanning
  <2>2. job = [j \in Job |-> IF j = Startup THEN first ELSE IdleJob]
    BY DEF WInit
  <2> HIDE DEF first
  <2> QED
    BY <2>1, <2>2, IdleJobType DEF JobsTyped
<1>4. SourcesTyped
  BY <1>2 DEF WInit, SourcesTyped
<1> QED
  BY <1>1, <1>3, <1>4 DEF Shape

LEMMA InitInStep == WInit => InStep
<1> SUFFICES ASSUME WInit PROVE InStep
  OBVIOUS
<1>1. Effective([disk |-> << >>, open |-> Null]) = << >>
  BY DEF Effective
<1>2. \A f \in File, n \in Name : ~ Declares(f, n)
  BY <1>1 DEF WInit, Init, Declares, DeclaredNames
<1>3. \A w \in Writer : /\ writer[w].insert = {} /\ writer[w].forget = {}
                        /\ writer[w].unread = {} /\ DOMAIN writer[w].pending = {}
  BY IdleType DEF WInit, Init, Idle
<1>4. \A n \in Name : Drawn(n) /\ \A f \in File : Filed(f, n)
  BY <1>2, <1>3 DEF WInit, Init, Filed, Drawn, Standing, Representative, Node
<1>5. Lone /\ \A w \in Writer : InOrder(writer[w])
  BY <1>3 DEF Lone, InOrder, Rebuilds
<1> QED
  BY <1>4, <1>5 DEF InStep


LEMMA InitOverlays == WInit => Overlays
<1> SUFFICES ASSUME WInit PROVE Overlays
  OBVIOUS
<1>1. documents = [f \in File |-> NoLayers] /\ symbols = [f \in File |-> NoTexts]
      /\ buffer = [s \in File |-> Null]
  BY DEF WInit, Init, NoLayers, NoTexts
<1>2. OneOpen /\ OpenIsKnown
  BY <1>1, AliasAssumption DEF OneOpen, OpenIsKnown
<1>3. AliasesEmpty
  BY <1>1, AliasAssumption DEF AliasesEmpty
<1>4. Overlaid
  BY <1>1 DEF Overlaid, Spellings, Source, NoLayers, NoTexts
<1> QED
  BY <1>2, <1>3, <1>4 DEF Overlays

(* IndexInStep (write_layer, rebuild_names): whenever no write is under way, *)
(* a file is filed under exactly the names it declares and a name has the    *)
(* node of the declaration that represents it, over every order of scans,    *)
(* saves, reports, analyses and closes and every interleaving of their       *)
(* writes, but for the names two writes have had to rebuild at once.         *)
THEOREM IndexStaysInStep == WSpec => []IndexInStep
<1>1. WInit => Shape /\ InStep
  BY InitTyped, InitInStep
<1>2. Shape /\ InStep /\ [WNext]_wVars => (Shape /\ InStep)'
  BY NextIndex, NextShape
<1>3. Shape /\ InStep => IndexInStep
  <2> SUFFICES ASSUME InStep, AtRest, NEW n \in Name
               PROVE  /\ \A f \in File : \/ << f, n >> \in mixed
                                         \/ f \in name_to_uris[n] <=> Declares(f, n)
                      /\ n \in crossed \/ graph[n] = Node(Standing(n))
    BY DEF IndexInStep, Standing
  <2>1. \A w \in Writer : /\ n \notin writer[w].insert \cup writer[w].forget
                          /\ n \notin Rebuilds(w)
    BY DEF InStep, InOrder, AtRest, Rebuilds
  <2> QED
    BY <2>1 DEF InStep, Filed, Drawn
<1> QED
  BY <1>1, <1>2, <1>3, PTL DEF WSpec


-----------------------------------------------------------------------------
(* The overlays stay with the open documents.                               *)

(* A step that leaves the documents and every overlay alone keeps them so.   *)
LEMMA OverlaysKept ==
    ASSUME Overlays, buffer' = buffer, due \subseteq due',
           aliases \subseteq aliases', early \subseteq early',
           \A f \in File : documents'[f].open = documents[f].open
                        /\ symbols'[f].open = symbols[f].open,
           AliasesEmpty'
    PROVE  Overlays'
<1>1. OneOpen' /\ OpenIsKnown'
  BY DEF Overlays, OneOpen, OpenIsKnown
<1>2. \A f : Resolved(f)' => Resolved(f)
  BY DEF Resolved
<1>3. Overlaid'
  BY <1>2 DEF Overlays, Overlaid, Source
<1> QED
  BY <1>1, <1>3 DEF Overlays

(* The same, when it leaves the entries as they are too.                     *)
LEMMA EntriesKept ==
    ASSUME Overlays, UNCHANGED << buffer, documents, symbols >>, due \subseteq due',
           aliases \subseteq aliases', early \subseteq early'
    PROVE  Overlays'
<1>1. AliasesEmpty'
  BY DEF Overlays, AliasesEmpty
<1> QED
  BY <1>1, OverlaysKept

(* The saved layer of a file is written into the entry its spelling has.     *)
LEMMA IndexXrefsKeeps ==
    ASSUME Shape, Overlays, NEW j \in Job, IndexXrefs(j)
    PROVE  Overlays'
<1>1. UNCHANGED << buffer, due, symbols >>
  BY DEF IndexXrefs, Works, sources
<1>2. PICK s \in DOMAIN job[j].texts :
        IF job[j].texts[s] = Null
        THEN RemoveDiskDocument(j, Key(s, aliases)) /\ UNCHANGED << aliases, early >>
        ELSE Register(s) /\ IndexDiskComponents(j, Key(s, aliases'), LayerOf[job[j].texts[s]])
  BY DEF IndexXrefs
<1>3. s \in File
  BY InHand
<1>d. documents \in [File -> Layers]
  BY DEF Shape, Typed
<1>4. CASE job[j].texts[s] = Null
  <2> DEFINE k == Key(s, aliases)
  <2>1. documents' = [documents EXCEPT ![k] = [documents[k] EXCEPT !.disk = << >>]]
        /\ UNCHANGED << aliases, early >>
    BY <1>2, <1>4 DEF RemoveDiskDocument, WriteLayer
  <2> HIDE DEF k
  <2>2. \A f \in File : documents'[f].open = documents[f].open
    BY <1>d, <2>1 DEF Layers
  <2>3. \A f \in File : documents[f] = NoLayers => documents'[f] = NoLayers
    BY <1>d, <2>1 DEF NoLayers
  <2>4. AliasesEmpty'
    BY <1>1, <2>1, <2>3, AliasAssumption DEF Overlays, AliasesEmpty
  <2> QED
    BY <1>1, <2>1, <2>2, <2>4, OverlaysKept
<1>5. CASE job[j].texts[s] # Null
  <2> DEFINE k == Key(s, aliases')
             layer == LayerOf[job[j].texts[s]]
  <2>1. documents' = [documents EXCEPT ![k] = [documents[k] EXCEPT !.disk = layer]]
    BY <1>2, <1>5 DEF IndexDiskComponents, WriteLayer
  <2>2. /\ aliases \subseteq aliases' /\ aliases' \subseteq Alias /\ early \subseteq early'
        /\ s \in Alias \ aliases' => s \in early'
    BY <1>2, <1>3, <1>5, Registers DEF Shape
  <2>3. k \in Alias => k \in early'
    BY <1>3, <2>2, KeyType, AliasAssumption DEF Source
  <2> HIDE DEF k, layer
  <2>4. \A f \in File : documents'[f].open = documents[f].open
    BY <1>d, <2>1 DEF Layers
  <2>5. \A f \in File \ {k} : documents'[f] = documents[f]
    BY <1>d, <2>1
  <2>6. AliasesEmpty'
    BY <1>1, <2>2, <2>3, <2>5, AliasAssumption DEF Overlays, AliasesEmpty
  <2> QED
    BY <1>1, <2>2, <2>4, <2>6, OverlaysKept
<1> QED
  BY <1>4, <1>5

(* And the saved text, into the symbol index.                                *)
LEMMA IndexSymbolsKeeps ==
    ASSUME Shape, Overlays, NEW j \in Job, IndexSymbols(j)
    PROVE  Overlays'
<1> DEFINE s == job[j].uri
           text == job[j].texts[s]
           k == Key(s, aliases')
<1>1. UNCHANGED << buffer, due, documents >>
      /\ symbols' = [symbols EXCEPT ![k].disk = text]
      /\ IF text = Null THEN UNCHANGED << aliases, early >> ELSE Register(s)
  BY DEF IndexSymbols, Works, sources, vars
<1>2. s \in File
  <2>1. s \in DOMAIN job[j].texts
    BY DEF IndexSymbols, At, Shape, JobsTyped, Ready
  <2> QED
    BY <2>1, InHand
<1>d. symbols \in [File -> [disk : Text \cup {Null}, open : Text \cup {Null}]]
  BY DEF Shape, SourcesTyped
<1>3. /\ aliases \subseteq aliases' /\ aliases' \subseteq Alias /\ early \subseteq early'
      /\ text # Null /\ s \in Alias \ aliases' => s \in early'
  BY <1>1, <1>2, Registers DEF Shape, SourcesTyped
<1>4. text # Null /\ k \in Alias => k \in early'
  <2> HIDE DEF s, text
  <2>1. k = IF s \in Alias \ aliases' THEN s ELSE FileOf(s)
    BY <1>2, <1>3, KeyType
  <2>2. FileOf(s) \notin Alias
    BY <1>2, KeyType DEF Source
  <2> QED
    BY <1>3, <2>1, <2>2
<1> HIDE DEF k, text
<1>5. \A f \in File : symbols'[f].open = symbols[f].open
  BY <1>1, <1>d
<1>6. \A f \in File \ {k} : symbols'[f] = symbols[f]
  BY <1>1, <1>d
<1>7. text = Null => \A f \in File : symbols[f] = NoTexts => symbols'[f] = NoTexts
  BY <1>1, <1>d DEF NoTexts
<1>8. AliasesEmpty'
  BY <1>1, <1>3, <1>4, <1>6, <1>7, AliasAssumption DEF Overlays, AliasesEmpty
<1> QED
  BY <1>1, <1>3, <1>5, <1>8, OverlaysKept

(* A document that opens is due, and is the only spelling of its file open.  *)
LEMMA OpenKeeps ==
    ASSUME Shape, Overlays, NEW s \in File, DidOpen(s)
    PROVE  Overlays'
<1>1. /\ \A t \in Spellings(FileOf(s)) : buffer[t] = Null
      /\ Register(s) /\ due' = due \cup {s} /\ UNCHANGED << documents, symbols >>
  BY DEF DidOpen, vars
<1>2. PICK text \in Text : buffer' = [buffer EXCEPT ![s] = text]
  BY DEF DidOpen
<1>3. \A t \in File \ {s} : buffer'[t] = buffer[t]
  BY <1>2 DEF Shape, SourcesTyped
<1>4. buffer'[s] # Null
  BY <1>2, TextAssumption DEF Shape, SourcesTyped
<1>5. /\ aliases \subseteq aliases' /\ early \subseteq early'
      /\ s \in Alias \ aliases' => s \in early'
  BY <1>1, Registers DEF Shape
<1>6. OneOpen'
  BY <1>1, <1>3 DEF Overlays, OneOpen, Spellings
<1>7. OpenIsKnown'
  BY <1>3, <1>5, AliasAssumption DEF Overlays, OpenIsKnown
<1>8. AliasesEmpty'
  BY <1>1, <1>5 DEF Overlays, AliasesEmpty
<1>9. \A f : Resolved(f)' => Resolved(f)
  BY <1>5 DEF Resolved
<1>10. Overlaid'
  <2> SUFFICES ASSUME NEW f \in Source, Resolved(f)
               PROVE /\ \A t \in Spellings(f) \ due' : buffer'[t] # Null
                          => documents'[f].open = LayerOf[buffer'[t]] /\ symbols'[f].open = buffer'[t]
                     /\ (\A t \in Spellings(f) : buffer'[t] = Null)
                          => documents'[f].open = Null /\ symbols'[f].open = Null
    BY <1>9 DEF Overlaid
  <2>1. \A t \in Spellings(f) \ due' : buffer'[t] = buffer[t] /\ t \notin due
    BY <1>1, <1>3 DEF Spellings
  <2>2. (\A t \in Spellings(f) : buffer'[t] = Null) => \A t \in Spellings(f) : buffer[t] = Null
    BY <1>3, <1>4 DEF Spellings
  <2> QED
    BY <1>1, <2>1, <2>2 DEF Overlays, Overlaid
<1> QED
  BY <1>6, <1>7, <1>8, <1>10 DEF Overlays

(* A document that changes is due again.                                     *)
LEMMA ChangeKeeps ==
    ASSUME Shape, Overlays, NEW s \in File, DidChange(s)
    PROVE  Overlays'
<1>1. /\ buffer[s] # Null /\ due' = due \cup {s}
      /\ UNCHANGED << documents, symbols, aliases, early >>
  BY DEF DidChange, vars, workspace, history
<1>2. PICK text \in Text : buffer' = [buffer EXCEPT ![s] = text]
  BY DEF DidChange
<1>3. \A t \in File \ {s} : buffer'[t] = buffer[t]
  BY <1>2 DEF Shape, SourcesTyped
<1>4. \A t \in File : buffer'[t] = Null <=> buffer[t] = Null
  BY <1>1, <1>2, <1>3, TextAssumption DEF Shape, SourcesTyped
<1>5. OneOpen' /\ OpenIsKnown'
  BY <1>1, <1>4, AliasAssumption DEF Overlays, OneOpen, OpenIsKnown
<1>6. AliasesEmpty'
  BY <1>1 DEF Overlays, AliasesEmpty
<1>7. Overlaid'
  <2>1. \A f : \A t \in Spellings(f) \ due' : buffer'[t] = buffer[t] /\ t \notin due
    BY <1>1, <1>3 DEF Spellings
  <2>2. \A f : (\A t \in Spellings(f) : buffer'[t] = Null) => \A t \in Spellings(f) : buffer[t] = Null
    BY <1>4 DEF Spellings
  <2> QED
    BY <1>1, <2>1, <2>2 DEF Overlays, Overlaid, Resolved
<1> QED
  BY <1>5, <1>6, <1>7 DEF Overlays

(* An open document that is not resolved was looked up too early; any other  *)
(* has the entry of its file.                                                *)
LEMMA OpenKey ==
    ASSUME Shape, Overlays, NEW s \in File, buffer[s] # Null
    PROVE  /\ Key(s, aliases) \in Source => Key(s, aliases) = FileOf(s)
           /\ Key(s, aliases) \notin Source => Key(s, aliases) \in early /\ s \in early
           /\ Resolved(FileOf(s)) => Key(s, aliases) = FileOf(s)
<1>1. aliases \in SUBSET Alias
  BY DEF Shape, SourcesTyped
<1>2. s \in Alias \ aliases => s \in early
  BY DEF Overlays, OpenIsKnown
<1>3. Key(s, aliases) = IF s \in Alias \ aliases THEN s ELSE FileOf(s)
  BY <1>1, KeyType
<1>4. FileOf(s) \in Source
  BY KeyType
<1>5. s \in Spellings(FileOf(s))
  BY DEF Spellings
<1> QED
  BY <1>2, <1>3, <1>4, <1>5 DEF Resolved, Source

(* What an analysis or a close writes over the entry of the document.        *)
LEMMA EntryWritten ==
    ASSUME Shape, Overlays, NEW s \in File, buffer[s] # Null,
           NEW layer \in Layer \cup {Null}, NEW text \in Text \cup {Null},
           documents' = [documents EXCEPT ![Key(s, aliases)] =
                            [documents[Key(s, aliases)] EXCEPT !.open = layer]],
           symbols' = [symbols EXCEPT ![Key(s, aliases)].open = text],
           UNCHANGED << aliases, early >>
    PROVE  /\ AliasesEmpty'
           /\ \A f \in Source \ {FileOf(s)} : documents'[f].open = documents[f].open
                                           /\ symbols'[f].open = symbols[f].open
           /\ Resolved(FileOf(s)) => /\ documents'[FileOf(s)].open = layer
                                     /\ symbols'[FileOf(s)].open = text
<1> DEFINE k == Key(s, aliases)
<1>1. /\ documents \in [File -> Layers]
      /\ symbols \in [File -> [disk : Text \cup {Null}, open : Text \cup {Null}]]
  BY DEF Shape, Typed, SourcesTyped
<1>2. k \in File /\ FileOf(s) \in Source
  BY KeyType DEF Shape, SourcesTyped
<1>3. /\ k \in Source => k = FileOf(s)
      /\ k \notin Source => k \in early
      /\ Resolved(FileOf(s)) => k = FileOf(s)
  BY OpenKey
<1> HIDE DEF k
<1>4. /\ \A f \in File \ {k} : documents'[f] = documents[f] /\ symbols'[f] = symbols[f]
      /\ documents'[k].open = layer /\ symbols'[k].open = text
  BY <1>1, <1>2 DEF k, Layers
<1>5. AliasesEmpty'
  BY <1>2, <1>3, <1>4, AliasAssumption DEF Overlays, AliasesEmpty, Source
<1> QED
  BY <1>2, <1>3, <1>4, <1>5 DEF Source

(* An analysis lays the document over the entry of its file.                 *)
LEMMA AnalyzeKeeps ==
    ASSUME Shape, Overlays, NEW s \in File, Analyze(s)
    PROVE  Overlays'
<1> DEFINE k == Key(s, aliases)
<1>1. /\ s \in due /\ due' = due \ {s} /\ UNCHANGED << buffer, aliases, early >>
      /\ documents' = [documents EXCEPT ![k] = [documents[k] EXCEPT !.open = LayerOf[buffer[s]]]]
      /\ symbols' = [symbols EXCEPT ![k].open = buffer[s]]
  BY DEF Analyze, IndexComponents, WriteLayer, history
<1>2. buffer[s] # Null /\ buffer[s] \in Text
  BY <1>1 DEF Shape, SourcesTyped
<1>3. LayerOf[buffer[s]] \in Layer
  BY <1>2, TextAssumption
<1>4. /\ AliasesEmpty'
      /\ \A f \in Source \ {FileOf(s)} : documents'[f].open = documents[f].open
                                      /\ symbols'[f].open = symbols[f].open
      /\ Resolved(FileOf(s)) => /\ documents'[FileOf(s)].open = LayerOf[buffer[s]]
                                /\ symbols'[FileOf(s)].open = buffer[s]
  BY <1>1, <1>2, <1>3, EntryWritten
<1>5. OneOpen' /\ OpenIsKnown'
  BY <1>1 DEF Overlays, OneOpen, OpenIsKnown
<1>6. Overlaid'
  <2> SUFFICES ASSUME NEW f \in Source, Resolved(f)
               PROVE /\ \A t \in Spellings(f) \ due' : buffer[t] # Null
                          => documents'[f].open = LayerOf[buffer[t]] /\ symbols'[f].open = buffer[t]
                     /\ (\A t \in Spellings(f) : buffer[t] = Null)
                          => documents'[f].open = Null /\ symbols'[f].open = Null
    BY <1>1 DEF Overlaid, Resolved
  <2>1. CASE f = FileOf(s)
    <3>1. \A t \in Spellings(f) : buffer[t] # Null => t = s
      BY <1>2, <2>1 DEF Overlays, OneOpen, Spellings
    <3>2. s \in Spellings(f)
      BY <2>1 DEF Spellings
    <3> QED
      BY <1>2, <1>4, <2>1, <3>1, <3>2
  <2>2. CASE f # FileOf(s)
    <3>1. \A t \in Spellings(f) : t # s
      BY <2>2 DEF Spellings
    <3> QED
      BY <1>1, <1>4, <2>2, <3>1 DEF Overlays, Overlaid
  <2> QED
    BY <2>1, <2>2
<1> QED
  BY <1>4, <1>5, <1>6 DEF Overlays

(* A close takes it off.                                                     *)
LEMMA CloseKeeps ==
    ASSUME Shape, Overlays, NEW s \in File, DidClose(s)
    PROVE  Overlays'
<1> DEFINE k == Key(s, aliases)
<1>1. /\ buffer[s] # Null /\ due' = due \ {s} /\ UNCHANGED << aliases, early >>
      /\ buffer' = [buffer EXCEPT ![s] = Null]
      /\ documents' = [documents EXCEPT ![k] = [documents[k] EXCEPT !.open = Null]]
      /\ symbols' = [symbols EXCEPT ![k].open = Null]
  BY DEF DidClose, RemoveDocument, WriteLayer, history
<1>2. /\ AliasesEmpty'
      /\ \A f \in Source \ {FileOf(s)} : documents'[f].open = documents[f].open
                                      /\ symbols'[f].open = symbols[f].open
      /\ Resolved(FileOf(s)) => /\ documents'[FileOf(s)].open = Null
                                /\ symbols'[FileOf(s)].open = Null
  BY <1>1, EntryWritten
<1>3. buffer'[s] = Null /\ \A t \in File \ {s} : buffer'[t] = buffer[t]
  BY <1>1 DEF Shape, SourcesTyped
<1>4. OneOpen' /\ OpenIsKnown'
  BY <1>1, <1>3, AliasAssumption DEF Overlays, OneOpen, OpenIsKnown
<1>5. Overlaid'
  <2> SUFFICES ASSUME NEW f \in Source, Resolved(f)
               PROVE /\ \A t \in Spellings(f) \ due' : buffer'[t] # Null
                          => documents'[f].open = LayerOf[buffer'[t]] /\ symbols'[f].open = buffer'[t]
                     /\ (\A t \in Spellings(f) : buffer'[t] = Null)
                          => documents'[f].open = Null /\ symbols'[f].open = Null
    BY <1>1 DEF Overlaid, Resolved
  <2>1. CASE f = FileOf(s)
    <3>1. \A t \in Spellings(f) : buffer'[t] = Null
      BY <1>1, <1>3, <2>1 DEF Overlays, OneOpen, Spellings
    <3> QED
      BY <1>2, <2>1, <3>1
  <2>2. CASE f # FileOf(s)
    <3>1. \A t \in Spellings(f) : t # s /\ buffer'[t] = buffer[t]
      BY <1>3, <2>2 DEF Spellings
    <3> QED
      BY <1>1, <1>2, <2>2, <3>1 DEF Overlays, Overlaid
  <2> QED
    BY <2>1, <2>2
<1> QED
  BY <1>2, <1>4, <1>5 DEF Overlays

(* Every step keeps the overlays with the open documents.                    *)
LEMMA NextOverlays == Shape /\ Overlays /\ [WNext]_wVars => Overlays'
<1> SUFFICES ASSUME Shape, Overlays, [WNext]_wVars PROVE Overlays'
  OBVIOUS
<1> USE DEF vars, sources, workspace, history
<1>1. CASE UNCHANGED << buffer, documents, symbols, aliases, early >> /\ due \subseteq due'
  BY <1>1, EntriesKept
<1>2. ASSUME NEW j \in Job, JobStep(j) PROVE Overlays'
  <2>1. CASE IndexXrefs(j) \/ IndexSymbols(j)
    BY <2>1, IndexXrefsKeeps, IndexSymbolsKeeps
  <2>2. CASE ~ (IndexXrefs(j) \/ IndexSymbols(j))
    BY <1>1, <1>2, <2>2 DEF JobStep, StartScan, ScanFile, ScanFails, ScanEnds, DropEnds,
       RefreshEnds, FoldersDone, Refresh, RefreshFails, DropFolders, Works, Indexed
  <2> QED
    BY <2>1, <2>2
<1>3. ASSUME NEW w \in Writer,
             Step(w) /\ UNCHANGED << sources, workspace, job, reported, events, history >>
      PROVE  Overlays'
  BY <1>1, <1>3 DEF Step, InsertName, ForgetDeclaration, ReadDeclaration, WriteGraph, Bump
<1>4. CASE \/ \E j \in Job : DidChangeWatchedFiles(j)
           \/ \E f \in Source : DiskWrite(f)
           \/ \E j \in Job, s \in File : DidSave(j, s)
           \/ \E j \in Job, removed \in SUBSET Folder,
                added \in {<< >>} \cup {<< d >> : d \in Folder} : ChangeFolders(j, removed, added)
           \/ UNCHANGED wVars
  BY <1>1, <1>4 DEF DidChangeWatchedFiles, DiskWrite, DidSave, ChangeFolders, wVars
<1> QED
  BY <1>2, <1>3, <1>4, OpenKeeps, ChangeKeeps, AnalyzeKeeps, CloseKeeps DEF WNext

(* AnswersOnce (didOpen, analyze, didClose over DocumentUris): once the jobs *)
(* and the analyses are done, a document is laid over the one entry its file *)
(* has in each index and over no other, and nothing is laid over a file that *)
(* is open under no spelling.                                                *)
THEOREM OverlaysFollowDocuments == WSpec => []AnswersOnce
<1>1. WInit => Shape /\ InStep /\ Overlays
  BY InitTyped, InitInStep, InitOverlays
<1>2. Shape /\ InStep /\ Overlays /\ [WNext]_wVars => (Shape /\ InStep /\ Overlays)'
  BY NextIndex, NextShape, NextOverlays
<1>3. Overlays => AnswersOnce
  <2> SUFFICES ASSUME Overlays, due = {}, NEW f \in Source, Resolved(f)
               PROVE /\ \A s \in Spellings(f) : buffer[s] # Null
                          => documents[f].open = LayerOf[buffer[s]] /\ symbols[f].open = buffer[s]
                     /\ (\A s \in Spellings(f) : buffer[s] = Null)
                          => documents[f].open = Null /\ symbols[f].open = Null
                     /\ \A s \in Spellings(f) \ {f} :
                          /\ documents[s] = [disk |-> << >>, open |-> Null]
                          /\ symbols[s] = [disk |-> Null, open |-> Null]
    BY DEF AnswersOnce
  <2>1. \A s \in Spellings(f) \ {f} : s \in Alias \ early
    BY DEF Spellings, FileOf, Resolved
  <2> QED
    BY <2>1 DEF Overlays, Overlaid, AliasesEmpty, NoLayers, NoTexts
<1> QED
  BY <1>1, <1>2, <1>3, PTL DEF WSpec

-----------------------------------------------------------------------------
(* The saved layers follow the disk.                                        *)

(* A step of one job: what the others have in hand stays.                    *)
LEMMA OthersKeep ==
    ASSUME JobsTyped, NEW j \in Job, NEW new, job' = [job EXCEPT ![j] = new]
    PROVE  /\ job'[j] = new
           /\ \A i \in Job \ {j} : job'[i] = job[i]
           /\ \A i \in Job \ {j}, f \in File : Holds(i, f)' <=> Holds(i, f)
<1>1. job'[j] = new /\ \A i \in Job \ {j} : job'[i] = job[i]
  BY DEF JobsTyped
<1> QED
  BY <1>1 DEF Holds, At

(* What is planned stays planned, but for what the job gives up.             *)
LEMMA PlansKept ==
    ASSUME JobsTyped, NEW j \in Job, NEW new, job' = [job EXCEPT ![j] = new], NEW f
    PROVE  /\ Refreshes(new, f) => Changed(f)'
           /\ Scans(new, f) => MayLack(f)'
           /\ (\E i \in Job : Refreshes(job[i], f)) /\ (Refreshes(job[j], f) => Refreshes(new, f))
                => Changed(f)'
           /\ (\E i \in Job : Scans(job[i], f)) /\ (Scans(job[j], f) => Scans(new, f))
                => MayLack(f)'
<1>1. job'[j] = new /\ \A i \in Job \ {j} : job'[i] = job[i]
  BY OthersKeep
<1> QED
  BY <1>1 DEF Changed, MayLack

(* A step in which a job reads, gives up or takes in hand, and writes        *)
(* nothing: it has `read` files read anew, and `taken` in hand since now.    *)
LEMMA HandlingKeeps ==
    ASSUME JobsTyped, SourcesTyped, Layered, NEW j \in Job, NEW new, job' = [job EXCEPT ![j] = new],
           NEW read \in SUBSET Source, NEW taken \in SUBSET Source, read \subseteq taken,
           Takes(j, taken),
           documents' = documents, symbols' = symbols, raced' = raced, early \subseteq early',
           job[j].pc # "symbols", new.pc # "symbols",
           \A f \in Source : disk'[f] = disk[f] \/ Changed(f)',
           \A f \in Source \ read : Changed(f) => Changed(f)',
           \A f \in Source \ read : MayLack(f) => MayLack(f)' \/ Changed(f)' \/ disk[f] = Null,
           \A s \in DOMAIN job[j].texts : s \in DOMAIN new.texts \/ Changed(FileOf(s))',
           \A s \in DOMAIN new.texts :
              /\ s \in File
              /\ Resolved(FileOf(s)) =>
                  \/ FileOf(s) \in read /\ new.texts[s] = disk[FileOf(s)]
                  \/ /\ FileOf(s) \notin taken
                     /\ \/ s \in DOMAIN job[j].texts /\ new.texts[s] = job[j].texts[s]
                        \/ /\ s \in Source /\ new.texts[s] = Null
                           /\ job[j].pc = "drop" /\ FolderOf[s] \in job[j].removed,
           \A f \in read : \E s \in DOMAIN new.texts : FileOf(s) = f,
           \A f \in Source : new.pc = "drop" /\ FolderOf[f] \in new.removed
              => f \in taken /\ MayLack(f)'
    PROVE  Layered'
<1>1. /\ job'[j] = new
      /\ \A i \in Job \ {j} : job'[i] = job[i]
      /\ \A i \in Job \ {j}, f \in File : Holds(i, f)' <=> Holds(i, f)
  BY OthersKeep
<1>2. \A f \in Source : f \in File /\ FileOf(f) = f
  BY DEF Source, FileOf
<1>3. \A f : Resolved(f)' => Resolved(f)
  BY DEF Resolved
<1>4. ASSUME NEW f \in Source, f \notin shared'
      PROVE  \/ /\ f \in taken
                /\ \A i \in Job \ {j} : ~ Holds(i, f)
             \/ f \notin taken /\ f \notin shared
  <2>1. shared' = {g \in shared \cup taken : g \in taken => \E i \in Job \ {j} : Holds(i, g)}
    BY DEF Takes
  <2> QED
    BY <1>4, <2>1
<1>5. \A f \in Source : Resolved(f) /\ Holds(j, f)' => Holds(j, f) \/ f \in taken
  <2> SUFFICES ASSUME NEW f \in Source, Resolved(f), Holds(j, f)', f \notin taken
               PROVE  Holds(j, f)
    OBVIOUS
  <2>1. ~ (At(j, "drop")' /\ FolderOf[f] \in job'[j].removed)
    BY <1>1 DEF At
  <2>2. PICK s \in DOMAIN new.texts : FileOf(s) = f
    BY <1>1, <2>1 DEF Holds
  <2>3. \/ s \in DOMAIN job[j].texts
        \/ s \in Source /\ job[j].pc = "drop" /\ FolderOf[s] \in job[j].removed
    BY <2>2
  <2> QED
    BY <1>2, <2>2, <2>3 DEF Holds, At
<1>6. HeldOnce'
  <2> SUFFICES ASSUME NEW f \in Source, f \notin shared', Resolved(f),
                      NEW i \in Job, NEW k \in Job, Holds(i, f)', Holds(k, f)'
               PROVE  i = k
    BY <1>3 DEF HeldOnce
  <2>1. CASE f \in taken /\ \A l \in Job \ {j} : ~ Holds(l, f)
    BY <1>1, <1>2, <2>1
  <2>2. CASE f \notin taken /\ f \notin shared
    BY <1>1, <1>2, <1>5, <2>2 DEF Layered, HeldOnce
  <2> QED
    BY <1>4, <2>1, <2>2
<1>7. \A f \in Source \ read : \A text : ~ Changed(f)' /\ Current(text, f) => Current(text, f)'
  BY DEF Current
<1>8. TextsCurrent'
  <2> SUFFICES ASSUME NEW f \in Source, f \notin shared', Resolved(f), ~ Changed(f)', NEW i \in Job
               PROVE  /\ \A s \in DOMAIN job'[i].texts : FileOf(s) = f => Current(job[i].texts[s], f)'
                      /\ job'[i].pc = "drop" /\ FolderOf[f] \in job'[i].removed => Current(Null, f)'
    BY <1>3 DEF TextsCurrent, At
  <2>1. disk'[f] = disk[f]
    OBVIOUS
  <2>2. CASE i = j
    <3>1. new.pc = "drop" /\ FolderOf[f] \in new.removed => Current(Null, f)'
      BY DEF Current
    <3>2. ASSUME NEW s \in DOMAIN new.texts, FileOf(s) = f PROVE Current(new.texts[s], f)'
      <4>1. CASE f \in read /\ new.texts[s] = disk[f]
        BY <2>1, <4>1 DEF Current
      <4>2. CASE /\ f \notin taken
                 /\ s \in DOMAIN job[j].texts /\ new.texts[s] = job[j].texts[s]
        <5>1. f \notin shared /\ f \notin read /\ ~ Changed(f)
          BY <1>4, <4>2
        <5>2. Current(new.texts[s], f)
          BY <3>2, <4>2, <5>1 DEF Layered, TextsCurrent
        <5> QED
          BY <1>7, <5>1, <5>2
      <4>3. CASE /\ f \notin taken
                 /\ s \in Source /\ new.texts[s] = Null
                 /\ job[j].pc = "drop" /\ FolderOf[s] \in job[j].removed
        <5>1. f \notin shared /\ f \notin read /\ ~ Changed(f) /\ s = f
          BY <1>2, <1>4, <3>2, <4>3
        <5>2. Current(Null, f)
          BY <4>3, <5>1 DEF Layered, TextsCurrent, At
        <5> QED
          BY <1>7, <4>3, <5>1, <5>2
      <4> QED
        BY <3>2, <4>1, <4>2, <4>3
    <3> QED
      BY <1>1, <2>2, <3>1, <3>2 DEF Current
  <2>3. CASE i # j
    <3>1. CASE f \in taken /\ \A l \in Job \ {j} : ~ Holds(l, f)
      BY <1>1, <2>3, <3>1 DEF Holds, At
    <3>2. CASE f \notin taken /\ f \notin shared
      <4>1. f \notin read /\ ~ Changed(f) /\ job'[i] = job[i]
        BY <1>1, <2>3, <3>2
      <4>2. /\ \A s \in DOMAIN job[i].texts : FileOf(s) = f => Current(job[i].texts[s], f)
            /\ job[i].pc = "drop" /\ FolderOf[f] \in job[i].removed => Current(Null, f)
        BY <3>2, <4>1 DEF Layered, TextsCurrent, At
      <4> QED
        BY <1>7, <4>1, <4>2 DEF Current
    <3> QED
      BY <1>4, <3>1, <3>2
  <2> QED
    BY <2>2, <2>3
<1>9. LayersMatch'
  <2>1. \A i \in Job, f \in Source : (Halfway(i, f)' <=> Halfway(i, f)) /\ ~ Halfway(j, f)
    BY <1>1 DEF Halfway, At
  <2> QED
    BY <1>1, <1>3, <2>1 DEF Layered, LayersMatch, Parse
<1>10. LayersCurrent'
  <2> SUFFICES ASSUME NEW f \in Source, f \notin raced, Resolved(f), ~ Changed(f)'
               PROVE  \/ LayerCurrent(f)'
                      \/ \E i \in Job : \E s \in File : FileOf(s) = f /\ Unwritten(i, s)'
    BY <1>3 DEF LayersCurrent
  <2>1. \A s \in DOMAIN new.texts : Unwritten(j, s)'
    BY <1>1 DEF Unwritten, At
  <2>2. CASE f \in read
    BY <2>1, <2>2
  <2>3. CASE f \notin read
    <3>1. ~ Changed(f) /\ disk'[f] = disk[f]
      BY <2>3
    <3>2. CASE LayerCurrent(f)
      BY <2>3, <3>1, <3>2 DEF LayerCurrent, Parse
    <3>3. ASSUME NEW i \in Job, NEW s \in File, FileOf(s) = f, Unwritten(i, s)
          PROVE  Unwritten(i, s)'
      <4>1. CASE i = j
        BY <2>1, <3>3, <4>1 DEF Unwritten
      <4>2. CASE i # j
        BY <1>1, <3>3, <4>2 DEF Unwritten, At
      <4> QED
        BY <4>1, <4>2
    <3> QED
      BY <3>1, <3>2, <3>3 DEF Layered, LayersCurrent
  <2> QED
    BY <2>2, <2>3
<1> QED
  BY <1>6, <1>8, <1>9, <1>10 DEF Layered

(* A step that leaves the jobs, the saved layers and the folders alone.      *)
LEMMA OutsideKeeps ==
    ASSUME Layered, job' = job, shared' = shared, raced' = raced, folders' = folders,
           early \subseteq early',
           \A f \in Source : documents'[f].disk = documents[f].disk
                          /\ symbols'[f].disk = symbols[f].disk,
           unseen \cup reported \subseteq unseen' \cup reported',
           \A f \in Source : disk'[f] = disk[f] \/ f \in unseen' \cup reported'
    PROVE  Layered'
<1>1. \A f : Resolved(f)' => Resolved(f)
  BY DEF Resolved
<1>2. \A f : (MayLack(f)' <=> MayLack(f)) /\ (Changed(f) => Changed(f)')
  BY DEF MayLack, Changed, InWorkspace
<1>3. \A f \in Source : ~ Changed(f)' => disk'[f] = disk[f]
  BY DEF Changed
<1>4. \A f \in Source : \A text : ~ Changed(f)' /\ Current(text, f) => Current(text, f)'
  BY <1>2, <1>3 DEF Current
<1>5. \A f \in Source : ~ Changed(f)' /\ LayerCurrent(f) => LayerCurrent(f)'
  BY <1>2, <1>3 DEF LayerCurrent, Parse
<1>6. \A j, f : (Holds(j, f)' <=> Holds(j, f)) /\ (Halfway(j, f)' <=> Halfway(j, f))
  BY DEF Holds, Halfway, At
<1>7. \A j, s : Unwritten(j, s)' <=> Unwritten(j, s)
  BY DEF Unwritten, At
<1>8. HeldOnce'
  BY <1>1, <1>6 DEF Layered, HeldOnce
<1>9. TextsCurrent'
  BY <1>1, <1>2, <1>4 DEF Layered, TextsCurrent, At
<1>10. LayersMatch'
  BY <1>1, <1>6 DEF Layered, LayersMatch, Parse
<1>11. LayersCurrent'
  BY <1>1, <1>2, <1>5, <1>7 DEF Layered, LayersCurrent
<1> QED
  BY <1>8, <1>9, <1>10, <1>11 DEF Layered

(* What is known of what a job has in hand, when it moves on.                *)
LEMMA HandWritten ==
    ASSUME JobsTyped, HandsKnown, NEW j \in Job, NEW new, job' = [job EXCEPT ![j] = new],
           aliases \subseteq aliases', early \subseteq early',
           HandKnown(new, aliases' \cup early')
    PROVE  HandsKnown'
<1>1. job'[j] = new /\ \A i \in Job \ {j} : job'[i] = job[i]
  BY OthersKeep
<1>2. \A task : HandKnown(task, aliases \cup early) => HandKnown(task, aliases' \cup early')
  BY DEF HandKnown
<1> QED
  BY <1>1, <1>2 DEF HandsKnown

(* A step in which a job plans, or gives up what it has in hand.             *)
LEMMA PlanningKeeps ==
    ASSUME JobsTyped, SourcesTyped, Layered, NEW j \in Job, NEW new, job' = [job EXCEPT ![j] = new],
           documents' = documents, symbols' = symbols, shared' = shared, raced' = raced,
           folders' = folders, early \subseteq early',
           job[j].pc # "symbols", new.pc \notin {"symbols", "drop"},
           \/ new.texts = job[j].texts
           \/ DOMAIN new.texts = {} /\ \A s \in DOMAIN job[j].texts : FileOf(s) \in unseen',
           \A f \in Source : f \in unseen \cup reported
              => f \in unseen' \cup reported' \/ Refreshes(new, f),
           \A f \in Source : disk'[f] = disk[f] \/ f \in unseen' \cup reported' \/ Refreshes(new, f),
           \A f \in Source : Refreshes(job[j], f) => Refreshes(new, f) \/ f \in unseen',
           \A f \in Source : Scans(job[j], f) => Scans(new, f) \/ f \in unseen'
    PROVE  Layered'
<1>1. Takes(j, {})
  BY DEF Takes
<1>2. \A f : (f \in unseen' \cup reported' => Changed(f)') /\ (Refreshes(new, f) => Changed(f)')
  BY PlansKept DEF Changed
<1>3. \A f \in Source : disk'[f] = disk[f] \/ Changed(f)'
  BY <1>2
<1>4. \A f \in Source : Changed(f) => Changed(f)'
  BY <1>2, PlansKept DEF Changed
<1>5. \A f \in Source : MayLack(f) => MayLack(f)' \/ Changed(f)'
  <2>1. \A f : ~ InWorkspace(f) => MayLack(f)'
    BY DEF MayLack, InWorkspace
  <2> QED
    BY <1>2, <2>1, PlansKept DEF MayLack
<1>6. \A s \in DOMAIN job[j].texts : s \in File
  BY TextsInHand DEF JobsTyped, JobState
<1>7. \A s \in DOMAIN job[j].texts : s \in DOMAIN new.texts \/ Changed(FileOf(s))'
  BY <1>2
<1>8. \A s \in DOMAIN new.texts : s \in DOMAIN job[j].texts /\ new.texts[s] = job[j].texts[s]
  OBVIOUS
<1>9. \A f \in Source \ {} : Changed(f) => Changed(f)'
  BY <1>4
<1>10. \A f \in Source \ {} : MayLack(f) => MayLack(f)' \/ Changed(f)' \/ disk[f] = Null
  BY <1>5
<1>11. \A s \in DOMAIN new.texts :
          /\ s \in File
          /\ Resolved(FileOf(s)) =>
              \/ FileOf(s) \in {} /\ new.texts[s] = disk[FileOf(s)]
              \/ /\ FileOf(s) \notin {}
                 /\ \/ s \in DOMAIN job[j].texts /\ new.texts[s] = job[j].texts[s]
                    \/ /\ s \in Source /\ new.texts[s] = Null
                       /\ job[j].pc = "drop" /\ FolderOf[s] \in job[j].removed
  BY <1>6, <1>8
<1>12. /\ {} \in SUBSET Source /\ {} \subseteq {}
       /\ \A f \in {} : \E s \in DOMAIN new.texts : FileOf(s) = f
       /\ \A f \in Source : new.pc = "drop" /\ FolderOf[f] \in new.removed => f \in {} /\ MayLack(f)'
       /\ new.pc # "symbols"
  OBVIOUS
<1> QED
  BY <1>1, <1>3, <1>7, <1>9, <1>10, <1>11, <1>12, HandlingKeeps

(* The folders to come are those of the list, or of its tail while the first *)
(* is being scanned.                                                         *)
LEMMA ComingTail ==
    ASSUME NEW task \in JobState, NEW next \in JobState, task.todo # << >>,
           next.todo = Tail(task.todo), ~ Scanning(next)
    PROVE  Scanning(task) => Coming(task) \subseteq Coming(next)
<1> SUFFICES ASSUME Scanning(task), NEW i \in DOMAIN task.todo \ {1}
             PROVE  \E k \in DOMAIN next.todo : next.todo[k] = task.todo[i]
  BY DEF Coming
<1>1. task.todo \in Seq(Folder)
  BY DEF JobState
<1>2. i - 1 \in DOMAIN next.todo /\ next.todo[i - 1] = task.todo[i]
  BY <1>1
<1> QED
  BY <1>2

(* The steps of a job that plan or give up.                                  *)
LEMMA PlansFollowed ==
    ASSUME Shape, HandsKnown, Layered, NEW j \in Job,
           \/ StartScan(j) \/ ScanFails(j) \/ ScanEnds(j) \/ DropEnds(j) \/ RefreshEnds(j)
           \/ FoldersDone(j) \/ RefreshFails(j)
    PROVE  HandsKnown' /\ Layered'
<1> DEFINE task == job[j]
<1>t. task \in JobState /\ Ready(task) /\ HandKnown(task, aliases \cup early)
  BY DEF Shape, JobsTyped, HandsKnown
<1>s. JobsTyped /\ SourcesTyped /\ job \in [Job -> JobState]
  BY DEF Shape, JobsTyped
<1>i. /\ IdleJob.pc = "idle" /\ IdleJob.kind = "none" /\ DOMAIN IdleJob.texts = {}
      /\ IdleJob.uris = {} /\ IdleJob.removed = {} /\ IdleJob.todo = << >>
      /\ \A known : HandKnown(IdleJob, known)
  BY DEF IdleJob, HandKnown
<1>f. \A f \in Source : f \in File /\ f \notin Alias /\ FileOf(f) = f
  BY DEF Source, FileOf
<1> USE DEF history, sources, workspace
<1>1. CASE StartScan(j)
  <2> DEFINE listed == {f \in Source : FolderOf[f] = Head(task.todo)}
             pc == IF listed = {} THEN "xrefs" ELSE "walk"
             new == [task EXCEPT !.pc = pc, !.uris = listed]
  <2>1. /\ task.pc = "folder" /\ task.todo # << >> /\ job' = [job EXCEPT ![j] = new]
        /\ UNCHANGED << documents, symbols, shared, raced, folders, early, aliases, unseen, reported, disk >>
    BY <1>1, <1>s DEF StartScan, At, Works, vars
  <2>2. /\ new.pc = pc /\ new.uris = listed /\ new.texts = task.texts /\ new.kind = task.kind
        /\ new.todo = task.todo
    BY <1>t DEF JobState
  <2>3. pc \in {"xrefs", "walk"} /\ (pc = "walk" <=> listed # {}) /\ DOMAIN task.texts = {}
        /\ task.kind # "refresh"
    BY <1>t, <2>1 DEF HandKnown
  <2> HIDE DEF new, pc
  <2>4. HandKnown(new, aliases' \cup early')
    BY <1>f, <2>2, <2>3 DEF HandKnown
  <2>5. \A f \in Source : Scans(task, f) => Scans(new, f)
    <3> SUFFICES ASSUME NEW f \in Source, NEW i \in DOMAIN task.todo, FolderOf[f] = task.todo[i]
                 PROVE  Scans(new, f)
      BY <2>1 DEF Scans, Coming
    <3>1. CASE i = 1
      <4>1. f \in listed
        BY <1>t, <2>1, <3>1 DEF JobState
      <4> QED
        BY <2>2, <2>3, <4>1 DEF Scans
    <3>2. CASE i # 1
      BY <2>2, <3>2 DEF Scans, Coming
    <3> QED
      BY <3>1, <3>2
  <2>6. \A f \in Source : Refreshes(task, f) => Refreshes(new, f)
    BY <2>3 DEF Refreshes
  <2> HIDE DEF task, listed
  <2>7. HandsKnown'
    BY <1>s, <2>1, <2>4, HandWritten
  <2>8. Layered'
    BY <1>s, <2>1, <2>2, <2>3, <2>5, <2>6, PlanningKeeps DEF task
  <2> QED
    BY <2>7, <2>8
<1>e. \A s : s \notin DOMAIN << >>
  OBVIOUS
<1>n. ASSUME task.todo # << >>
      PROVE  LET new == NextFolder(j) IN
             /\ new \in JobState /\ new.pc = "folder" /\ new.kind = task.kind
             /\ new.todo = Tail(task.todo) /\ new.uris = {} /\ new.removed = {}
             /\ DOMAIN new.texts = {} /\ new.texts = << >> /\ ~ Scanning(new)
  <2>1. Tail(task.todo) \in Seq(Folder)
    BY <1>n, <1>t DEF JobState
  <2> QED
    BY <1>t, <2>1, IdleJobType DEF NextFolder, IdleJob, JobState, Scanning
<1>2. CASE ScanFails(j)
  <2> DEFINE new == NextFolder(j)
  <2>1. /\ task.pc = "walk" /\ job' = [job EXCEPT ![j] = new]
        /\ unseen' = unseen \cup {f \in Source : FolderOf[f] = Head(task.todo)}
        /\ UNCHANGED << documents, symbols, shared, raced, folders, early, aliases, reported, disk >>
    BY <1>2 DEF ScanFails, At, vars
  <2>2. task.todo # << >> /\ task.kind # "refresh" /\ Scanning(task)
    BY <1>t, <2>1 DEF Ready, Scanning, HandKnown
  <2>3. /\ new \in JobState /\ new.pc = "folder" /\ new.kind = task.kind
        /\ new.todo = Tail(task.todo) /\ new.uris = {} /\ DOMAIN new.texts = {} /\ ~ Scanning(new)
    BY <1>n, <2>2
  <2> HIDE DEF new
  <2>4. HandKnown(new, aliases' \cup early')
    BY <2>2, <2>3 DEF HandKnown
  <2>5. \A s \in task.uris \cup DOMAIN task.texts : s \in Source /\ s \in unseen'
    BY <1>t, <2>1 DEF HandKnown
  <2>6. Coming(task) \subseteq Coming(new)
    BY <1>t, <2>2, <2>3, ComingTail
  <2>7. \A f \in Source : Scans(task, f) => Scans(new, f) \/ f \in unseen'
    BY <2>5, <2>6 DEF Scans
  <2>8. \A f \in Source : ~ Refreshes(task, f)
    BY <2>2 DEF Refreshes
  <2>9. \A s \in DOMAIN task.texts : FileOf(s) \in unseen'
    BY <1>f, <2>5
  <2> HIDE DEF task
  <2>10. HandsKnown'
    BY <1>s, <2>1, <2>4, HandWritten
  <2>11. Layered'
    BY <1>s, <2>1, <2>3, <2>7, <2>8, <2>9, PlanningKeeps DEF task
  <2> QED
    BY <2>10, <2>11
<1>3. CASE ScanEnds(j)
  <2> DEFINE new == NextFolder(j)
  <2>1. /\ task.pc = "xrefs" /\ task.texts = << >> /\ task.kind # "refresh" /\ task.removed = {}
        /\ job' = [job EXCEPT ![j] = new]
        /\ UNCHANGED << documents, symbols, shared, raced, folders, early, aliases, unseen, reported, disk >>
    BY <1>3 DEF ScanEnds, Indexed, Works, At, vars
  <2>2. task.todo # << >> /\ Scanning(task)
    BY <1>t, <2>1 DEF Ready, Scanning
  <2>3. /\ new \in JobState /\ new.pc = "folder" /\ new.kind = task.kind
        /\ new.todo = Tail(task.todo) /\ new.uris = {} /\ DOMAIN new.texts = {}
        /\ new.texts = task.texts /\ ~ Scanning(new)
    BY <1>n, <2>1, <2>2
  <2> HIDE DEF new
  <2>4. HandKnown(new, aliases' \cup early')
    BY <2>1, <2>3 DEF HandKnown
  <2>5. Coming(task) \subseteq Coming(new)
    BY <1>t, <2>2, <2>3, ComingTail
  <2>6. \A f \in Source : Scans(task, f) => Scans(new, f)
    BY <2>1, <2>5 DEF Scans
  <2>7. \A f \in Source : ~ Refreshes(task, f)
    BY <2>1 DEF Refreshes
  <2> HIDE DEF task
  <2>8. HandsKnown'
    BY <1>s, <2>1, <2>4, HandWritten
  <2>9. Layered'
    BY <1>s, <2>1, <2>3, <2>6, <2>7, PlanningKeeps DEF task
  <2> QED
    BY <2>8, <2>9
<1>4. CASE DropEnds(j)
  <2> DEFINE new == [task EXCEPT !.pc = "folder", !.removed = {}]
  <2>1. /\ task.pc = "xrefs" /\ task.texts = << >> /\ task.removed # {}
        /\ job' = [job EXCEPT ![j] = new]
        /\ UNCHANGED << documents, symbols, shared, raced, folders, early, aliases, unseen, reported, disk >>
    BY <1>4, <1>s DEF DropEnds, Indexed, Works, At, vars
  <2>2. task.kind # "refresh" /\ ~ Scanning(task)
    BY <1>t, <2>1 DEF Scanning, HandKnown
  <2>3. /\ new.pc = "folder" /\ new.kind = task.kind /\ new.todo = task.todo
        /\ new.uris = task.uris /\ new.texts = task.texts
    BY <1>t DEF JobState
  <2> HIDE DEF new
  <2>4. HandKnown(new, aliases' \cup early')
    BY <1>e, <1>t, <2>1, <2>2, <2>3 DEF HandKnown
  <2>5. \A f \in Source : Scans(task, f) => Scans(new, f)
    BY <2>1, <2>2, <2>3 DEF Scans, Coming, Scanning
  <2>6. \A f \in Source : ~ Refreshes(task, f)
    BY <2>2 DEF Refreshes
  <2> HIDE DEF task
  <2>7. HandsKnown'
    BY <1>s, <2>1, <2>4, HandWritten
  <2>8. Layered'
    BY <1>s, <2>1, <2>3, <2>5, <2>6, PlanningKeeps DEF task
  <2> QED
    BY <2>7, <2>8
<1>5. CASE RefreshEnds(j)
  <2> DEFINE again == [task EXCEPT !.pc = "read"]
             new == IF task.uris = {} THEN IdleJob ELSE again
  <2>1. /\ task.pc = "xrefs" /\ task.texts = << >> /\ task.kind = "refresh"
        /\ job' = [job EXCEPT ![j] = new]
        /\ UNCHANGED << documents, symbols, shared, raced, folders, early, aliases, unseen, reported, disk >>
    BY <1>5, <1>s DEF RefreshEnds, Indexed, Works, At, vars
  <2>2. task.todo = << >> /\ task.removed = {}
    BY <1>t, <2>1 DEF HandKnown
  <2>3. /\ again.pc = "read" /\ again.kind = "refresh" /\ again.todo = << >> /\ again.removed = {}
        /\ again.uris = task.uris /\ again.texts = << >>
    BY <1>t, <2>1, <2>2 DEF JobState
  <2> HIDE DEF again
  <2>4. HandKnown(again, aliases' \cup early')
    BY <1>e, <1>t, <2>1, <2>3 DEF HandKnown
  <2>5. /\ HandKnown(new, aliases' \cup early') /\ DOMAIN new.texts = {}
        /\ new.pc \notin {"symbols", "drop"}
    BY <1>e, <1>i, <2>3, <2>4
  <2>6. \A f \in Source : ~ Scans(task, f)
    BY <1>e, <2>1, <2>2 DEF Scans, Coming
  <2>7. \A f \in Source : Refreshes(task, f) => Refreshes(new, f)
    BY <2>3 DEF Refreshes
  <2> HIDE DEF new
  <2>8. DOMAIN task.texts = {}
    BY <2>1
  <2> HIDE DEF task
  <2>9. HandsKnown'
    BY <1>s, <2>1, <2>5, HandWritten
  <2>10. Layered'
    BY <1>s, <2>1, <2>5, <2>6, <2>7, <2>8, PlanningKeeps DEF task
  <2> QED
    BY <2>9, <2>10
<1>6. CASE FoldersDone(j)
  <2>1. /\ task.pc = "folder" /\ task.todo = << >> /\ job' = [job EXCEPT ![j] = IdleJob]
        /\ UNCHANGED << documents, symbols, shared, raced, folders, early, aliases, unseen, reported, disk >>
    BY <1>6 DEF FoldersDone, Works, At, vars
  <2>2. DOMAIN task.texts = {} /\ task.kind # "refresh"
    BY <1>t, <2>1 DEF HandKnown
  <2>3. \A f \in Source : ~ Scans(task, f) /\ ~ Refreshes(task, f)
    BY <1>e, <2>1, <2>2 DEF Scans, Coming, Refreshes
  <2> HIDE DEF task
  <2>4. HandsKnown'
    BY <1>i, <1>s, <2>1, HandWritten
  <2>5. Layered'
    BY <1>i, <1>s, <2>1, <2>2, <2>3, PlanningKeeps DEF task
  <2> QED
    BY <2>4, <2>5
<1>7. CASE RefreshFails(j)
  <2>1. PICK s \in task.uris :
          /\ job' = [job EXCEPT ![j] = IF task.uris \ {s} = {} THEN IdleJob
                                       ELSE [@ EXCEPT !.uris = task.uris \ {s}]]
          /\ unseen' = unseen \cup {FileOf(s)}
    BY <1>7 DEF RefreshFails
  <2> DEFINE left == task.uris \ {s}
             again == [task EXCEPT !.uris = left]
             new == IF left = {} THEN IdleJob ELSE again
  <2>2. /\ task.pc = "read" /\ job' = [job EXCEPT ![j] = new]
        /\ UNCHANGED << documents, symbols, shared, raced, folders, early, aliases, reported, disk >>
    BY <1>7, <1>s, <2>1 DEF RefreshFails, Works, At, vars
  <2>3. task.kind = "refresh" /\ task.todo = << >> /\ task.removed = {} /\ DOMAIN task.texts = {}
    BY <1>t, <2>2 DEF HandKnown, Ready
  <2>4. /\ again.pc = "read" /\ again.kind = "refresh" /\ again.todo = << >> /\ again.removed = {}
        /\ again.uris = left /\ again.texts = task.texts
    BY <1>t, <2>2, <2>3 DEF JobState
  <2> HIDE DEF again
  <2>5. HandKnown(again, aliases' \cup early')
    BY <1>t, <2>2, <2>3, <2>4 DEF HandKnown
  <2>6. /\ HandKnown(new, aliases' \cup early') /\ DOMAIN new.texts = {}
        /\ new.pc \notin {"symbols", "drop"}
    BY <1>i, <2>3, <2>4, <2>5
  <2>7. \A f \in Source : ~ Scans(task, f)
    BY <1>e, <2>2, <2>3 DEF Scans, Coming
  <2>8. \A f \in Source : Refreshes(task, f) => Refreshes(new, f) \/ f \in unseen'
    BY <2>1, <2>4 DEF Refreshes
  <2> HIDE DEF new, task
  <2>9. HandsKnown'
    BY <1>s, <2>2, <2>6, HandWritten
  <2>10. Layered'
    BY <1>s, <2>1, <2>2, <2>3, <2>6, <2>7, <2>8, PlanningKeeps DEF task
  <2> QED
    BY <2>9, <2>10
<1> QED
  BY <1>1, <1>2, <1>3, <1>4, <1>5, <1>6, <1>7

(* A job reads a file, or lists what it is to drop.                          *)
LEMMA FilesTaken ==
    ASSUME Shape, Overlays, HandsKnown, Layered, NEW j \in Job,
           ScanFile(j) \/ Refresh(j) \/ DropFolders(j)
    PROVE  HandsKnown' /\ Layered'
<1> DEFINE task == job[j]
<1>t. task \in JobState /\ Ready(task) /\ HandKnown(task, aliases \cup early)
  BY DEF Shape, JobsTyped, HandsKnown
<1>s. JobsTyped /\ SourcesTyped /\ job \in [Job -> JobState]
  BY DEF Shape, JobsTyped
<1>f. \A f \in Source : f \in File /\ f \notin Alias /\ FileOf(f) = f
  BY DEF Source, FileOf
<1>e. \A s : s \notin DOMAIN << >>
  OBVIOUS
<1> USE DEF history, sources, workspace
<1>1. CASE ScanFile(j)
  <2>1. PICK f \in task.uris :
          LET read == [s \in DOMAIN task.texts \cup {f} |-> IF s = f THEN disk[f] ELSE task.texts[s]]
          IN /\ job' = [job EXCEPT ![j].uris = @ \ {f},
                           ![j].pc = IF task.uris = {f} THEN "xrefs" ELSE @,
                           ![j].texts = IF disk[f] = Null THEN @ ELSE read]
             /\ IF disk[f] = Null THEN UNCHANGED << unseen, shared >>
                ELSE unseen' = unseen \ {f} /\ Takes(j, {f})
    BY <1>1 DEF ScanFile
  <2> DEFINE texts == IF disk[f] = Null THEN task.texts
                      ELSE [s \in DOMAIN task.texts \cup {f} |->
                              IF s = f THEN disk[f] ELSE task.texts[s]]
             pc == IF task.uris = {f} THEN "xrefs" ELSE task.pc
             new == [task EXCEPT !.uris = @ \ {f}, !.pc = pc, !.texts = texts]
             taken == IF disk[f] = Null THEN {} ELSE {f}
  <2>2. /\ task.pc = "walk" /\ job' = [job EXCEPT ![j] = new]
        /\ UNCHANGED << documents, symbols, raced, folders, early, aliases, reported, disk >>
    BY <1>1, <1>s, <2>1 DEF ScanFile, Works, At, vars
  <2>3. /\ \A s \in task.uris \cup DOMAIN task.texts : s \in Source /\ FolderOf[s] = Head(task.todo)
        /\ task.kind # "refresh" /\ Scanning(task)
    BY <1>t, <2>2 DEF HandKnown, Scanning
  <2>4. f \in Source /\ taken \in SUBSET Source /\ f \in task.uris
    BY <2>3
  <2>5. pc \in {"walk", "xrefs"} /\ (task.uris # {f} => pc = "walk")
    BY <2>2
  <2>6. /\ new.pc = pc /\ new.uris = task.uris \ {f} /\ new.texts = texts /\ new.kind = task.kind
        /\ new.todo = task.todo
    BY <1>t DEF JobState
  <2>7. DOMAIN texts = DOMAIN task.texts \cup taken
    OBVIOUS
  <2>8. /\ \A s \in DOMAIN texts \ taken : s \in DOMAIN task.texts /\ texts[s] = task.texts[s]
        /\ \A s \in taken : texts[s] = disk[s] /\ s \in DOMAIN texts
    OBVIOUS
  <2>9. Takes(j, taken) /\ unseen' = unseen \ taken
    BY <2>1 DEF Takes
  <2>10. \A g \in Source \ taken : g # f \/ disk[g] = Null
    OBVIOUS
  <2> HIDE DEF new, pc, texts
  <2>11. HandKnown(new, aliases' \cup early')
    <3>1. \A s \in new.uris \cup DOMAIN new.texts : s \in Source /\ FolderOf[s] = Head(new.todo)
      BY <2>3, <2>4, <2>6, <2>7
    <3> QED
      BY <1>f, <2>3, <2>5, <2>6, <3>1 DEF HandKnown
  <2>12. \A g \in Source : Scans(task, g) => Scans(new, g) \/ g = f
    <3>1. Coming(task) \subseteq Coming(new)
      BY <2>3, <2>6 DEF Coming
    <3>2. \A g \in task.uris : g = f \/ (g \in new.uris /\ new.pc = "walk")
      BY <2>5, <2>6
    <3> QED
      BY <3>1, <3>2 DEF Scans
  <2>13. \A g \in Source : ~ Refreshes(task, g)
    BY <2>3 DEF Refreshes
  <2> HIDE DEF task, taken
  <2>14. HandsKnown'
    BY <1>s, <2>2, <2>11, HandWritten
  <2>15. \A g \in Source \ taken : Changed(g) => Changed(g)'
    BY <1>s, <2>2, <2>9, <2>13, PlansKept DEF Changed, task
  <2>16. \A g \in Source \ taken : MayLack(g) => MayLack(g)' \/ disk[g] = Null
    <3>1. \A g : ~ InWorkspace(g) => MayLack(g)'
      BY <2>2 DEF MayLack, InWorkspace
    <3> QED
      BY <1>s, <2>2, <2>10, <2>12, <3>1, PlansKept DEF MayLack, task
  <2>17. \A s \in DOMAIN new.texts :
            /\ s \in File
            /\ \/ FileOf(s) \in taken /\ new.texts[s] = disk[FileOf(s)]
               \/ FileOf(s) \notin taken /\ s \in DOMAIN task.texts /\ new.texts[s] = task.texts[s]
    BY <1>f, <2>3, <2>4, <2>6, <2>7, <2>8
  <2>18. /\ \A s \in DOMAIN task.texts : s \in DOMAIN new.texts
         /\ \A g \in taken : g \in DOMAIN new.texts /\ FileOf(g) = g
    BY <1>f, <2>4, <2>6, <2>7
  <2>19. Layered'
    <3>1. /\ taken \subseteq taken /\ new.pc \notin {"symbols", "drop"} /\ task.pc # "symbols"
          /\ \A g \in taken : \E s \in DOMAIN new.texts : FileOf(s) = g
      BY <2>2, <2>5, <2>6, <2>18
    <3>2. \A g \in Source : disk'[g] = disk[g]
      BY <2>2
    <3>3. \A s \in DOMAIN new.texts :
            /\ s \in File
            /\ Resolved(FileOf(s)) =>
                \/ FileOf(s) \in taken /\ new.texts[s] = disk[FileOf(s)]
                \/ /\ FileOf(s) \notin taken
                   /\ \/ s \in DOMAIN job[j].texts /\ new.texts[s] = job[j].texts[s]
                      \/ /\ s \in Source /\ new.texts[s] = Null
                         /\ job[j].pc = "drop" /\ FolderOf[s] \in job[j].removed
      BY <2>17 DEF task
    <3>4. \A s \in DOMAIN job[j].texts : s \in DOMAIN new.texts
      BY <2>18 DEF task
    <3>5. job[j].pc # "symbols" /\ early \subseteq early'
      BY <2>2, <3>1 DEF task
    <3> HIDE DEF history, sources, workspace
    <3> QED
      BY <1>s, <2>2, <2>4, <2>9, <2>15, <2>16, <3>1, <3>2, <3>3, <3>4, <3>5, HandlingKeeps
  <2> QED
    BY <2>14, <2>19
<1>2. CASE Refresh(j)
  <2>1. PICK s \in task.uris :
          /\ job' = [job EXCEPT ![j].uris = @ \ {s}, ![j].pc = "xrefs",
                                ![j].texts = [x \in {s} |-> disk[FileOf(s)]]]
          /\ unseen' = unseen \ {FileOf(s)}
          /\ Takes(j, {FileOf(s)})
    BY <1>2 DEF Refresh
  <2> DEFINE text == disk[FileOf(s)]
             texts == [x \in {s} |-> text]
             new == [task EXCEPT !.uris = @ \ {s}, !.pc = "xrefs", !.texts = texts]
  <2>2. /\ task.pc = "read" /\ job' = [job EXCEPT ![j] = new]
        /\ UNCHANGED << documents, symbols, raced, folders, early, aliases, reported, disk >>
    BY <1>2, <1>s, <2>1 DEF Refresh, Works, At, vars
  <2>3. task.kind = "refresh" /\ task.todo = << >> /\ task.removed = {} /\ DOMAIN task.texts = {}
    BY <1>t, <2>2 DEF HandKnown, Ready
  <2>4. s \in File /\ FileOf(s) \in Source
    BY <1>t, KeyType, AliasAssumption DEF JobState
  <2>5. DOMAIN texts = {s} /\ texts[s] = text
    OBVIOUS
  <2> HIDE DEF texts
  <2>6. /\ new.pc = "xrefs" /\ new.uris = task.uris \ {s} /\ new.texts = texts /\ new.kind = "refresh"
        /\ new.todo = << >> /\ new.removed = {}
    BY <1>t, <2>3 DEF JobState
  <2> HIDE DEF new
  <2>7. HandKnown(new, aliases' \cup early')
    BY <1>t, <2>1, <2>2, <2>5, <2>6 DEF HandKnown
  <2>8. \A g \in Source : ~ Scans(task, g)
    BY <1>e, <2>2, <2>3 DEF Scans, Coming
  <2>9. \A g \in Source : Refreshes(task, g) => Refreshes(new, g) \/ g = FileOf(s)
    BY <2>6 DEF Refreshes
  <2> HIDE DEF task
  <2>10. HandsKnown'
    BY <1>s, <2>2, <2>7, HandWritten
  <2>11. \A g \in Source \ {FileOf(s)} : Changed(g) => Changed(g)'
    BY <1>s, <2>1, <2>2, <2>9, PlansKept DEF Changed, task
  <2>12. \A g \in Source : MayLack(g) => MayLack(g)'
    <3>1. \A g : ~ InWorkspace(g) => MayLack(g)'
      BY <2>2 DEF MayLack, InWorkspace
    <3> QED
      BY <1>s, <2>2, <2>8, <3>1, PlansKept DEF MayLack, task
  <2>13. Layered'
    <3> DEFINE taken == {FileOf(s)}
    <3>1. /\ taken \in SUBSET Source /\ taken \subseteq taken /\ Takes(j, taken)
          /\ new.pc \notin {"symbols", "drop"} /\ task.pc # "symbols"
          /\ \A g \in taken : \E x \in DOMAIN new.texts : FileOf(x) = g
      BY <2>1, <2>2, <2>4, <2>5, <2>6
    <3>2. \A x \in DOMAIN new.texts :
            x \in File /\ FileOf(x) \in taken /\ new.texts[x] = disk[FileOf(x)]
      BY <2>4, <2>5, <2>6
    <3>3. \A g \in Source : disk'[g] = disk[g]
      BY <2>2
    <3>4. /\ \A g \in Source \ taken : Changed(g) => Changed(g)'
          /\ \A g \in Source \ taken : MayLack(g) => MayLack(g)'
          /\ \A x \in DOMAIN task.texts : x \in DOMAIN new.texts
      BY <2>3, <2>11, <2>12
    <3> HIDE DEF taken, history, sources, workspace
    <3> QED
      BY <1>s, <2>2, <3>1, <3>2, <3>3, <3>4, HandlingKeeps DEF task
  <2> QED
    BY <2>10, <2>13
<1>3. CASE DropFolders(j)
  <2> DEFINE gone == {k \in File : /\ FolderOf[k] \in task.removed
                                   /\ documents[k] # [disk |-> << >>, open |-> Null]}
             texts == [k \in gone |-> Null]
             new == [task EXCEPT !.pc = "xrefs", !.texts = texts]
  <2>1. /\ task.pc = "drop" /\ job' = [job EXCEPT ![j] = new]
        /\ UNCHANGED << documents, symbols, raced, folders, early, aliases, reported, disk,
                        unseen, shared >>
    BY <1>3, <1>s DEF DropFolders, Works, At, vars
  <2>2. task.kind # "refresh" /\ task.removed # {} /\ DOMAIN task.texts = {}
    BY <1>t, <2>1 DEF HandKnown, Ready
  <2>3. \A s \in gone : s \in File /\ FolderOf[s] \in task.removed
    OBVIOUS
  <2>4. \A s \in gone : s \in Alias => s \in early
    BY DEF Overlays, AliasesEmpty, NoLayers
  <2>5. \A s \in gone : Resolved(FileOf(s)) => s \in Source
    <3>1. \A s \in File : s \in Spellings(FileOf(s))
      BY DEF Spellings
    <3> QED
      BY <2>3, <2>4, <3>1 DEF Resolved, Source
  <2> HIDE DEF gone
  <2>6. DOMAIN texts = gone /\ \A s \in gone : texts[s] = Null
    OBVIOUS
  <2> HIDE DEF texts
  <2>7. /\ new.pc = "xrefs" /\ new.uris = task.uris /\ new.texts = texts /\ new.kind = task.kind
        /\ new.todo = task.todo /\ new.removed = task.removed
    BY <1>t DEF JobState
  <2> HIDE DEF new
  <2>8. HandKnown(new, aliases' \cup early')
    BY <1>t, <2>1, <2>2, <2>4, <2>6, <2>7 DEF HandKnown
  <2>9. \A g \in Source : (Scans(task, g) => Scans(new, g)) /\ ~ Refreshes(task, g)
    BY <2>1, <2>2, <2>7 DEF Scans, Coming, Scanning, Refreshes
  <2>10. Takes(j, {})
    BY <2>1 DEF Takes
  <2> HIDE DEF task
  <2>11. HandsKnown'
    BY <1>s, <2>1, <2>8, HandWritten
  <2>12. \A g \in Source : Changed(g) => Changed(g)'
    BY <1>s, <2>1, <2>9, PlansKept DEF Changed, task
  <2>13. \A g \in Source : MayLack(g) => MayLack(g)'
    <3>1. \A g : ~ InWorkspace(g) => MayLack(g)'
      BY <2>1 DEF MayLack, InWorkspace
    <3> QED
      BY <1>s, <2>1, <2>9, <3>1, PlansKept DEF MayLack, task
  <2>14. \A s \in DOMAIN new.texts :
            /\ s \in File
            /\ Resolved(FileOf(s)) =>
                /\ s \in Source /\ new.texts[s] = Null
                /\ task.pc = "drop" /\ FolderOf[s] \in task.removed
    BY <2>1, <2>3, <2>5, <2>6, <2>7
  <2>15. /\ {} \in SUBSET Source /\ {} \subseteq {}
         /\ \A g \in {} : \E s \in DOMAIN new.texts : FileOf(s) = g
         /\ \A g \in Source : new.pc = "drop" /\ FolderOf[g] \in new.removed => g \in {} /\ MayLack(g)'
    BY <2>7
  <2>16. Layered'
    BY <1>s, <2>1, <2>2, <2>7, <2>10, <2>12, <2>13, <2>14, <2>15, HandlingKeeps DEF task
  <2> QED
    BY <2>11, <2>16
<1> QED
  BY <1>1, <1>2, <1>3

(* The spelling in hand of a resolved file has the file's own key.           *)
LEMMA HandKey ==
    ASSUME Shape, HandsKnown, NEW j \in Job, NEW s \in DOMAIN job[j].texts,
           NEW known \in SUBSET Alias, aliases \subseteq known
    PROVE  /\ s \in File /\ FileOf(s) \in Source
           /\ Resolved(FileOf(s)) => Key(s, known) = FileOf(s)
           /\ Key(s, known) \in File /\ Key(s, known) \in {s, FileOf(s)}
           /\ \A g \in Source \ {FileOf(s)} : Key(s, known) # g
<1>1. s \in File
  BY InHand
<1>2. s \in Alias => s \in aliases \cup early
  BY DEF HandsKnown, HandKnown
<1>3. s \in Spellings(FileOf(s))
  BY <1>1 DEF Spellings
<1>4. Key(s, known) = IF s \in Alias \ known THEN s ELSE FileOf(s)
  BY <1>1, KeyType
<1>5. FileOf(s) \in Source /\ Key(s, known) \in File
  BY <1>1, KeyType
<1>6. s \in Alias => s \notin Source
  BY DEF Source
<1> QED
  BY <1>1, <1>2, <1>3, <1>4, <1>5, <1>6 DEF Resolved

(* What a job is still to do, when it indexes what it has in hand.           *)
LEMMA IndexingPlans ==
    ASSUME JobsTyped, HandsKnown, NEW j \in Job, NEW new, job' = [job EXCEPT ![j] = new],
           {job[j].pc, new.pc} \subseteq {"xrefs", "symbols"},
           new.kind = job[j].kind, new.todo = job[j].todo, new.removed = job[j].removed,
           new.uris = job[j].uris, DOMAIN new.texts \subseteq DOMAIN job[j].texts,
           aliases \subseteq aliases', early \subseteq early',
           UNCHANGED << folders, disk, unseen, reported >>
    PROVE  /\ HandsKnown'
           /\ \A f : Changed(f)' <=> Changed(f)
           /\ \A f : MayLack(f)' <=> MayLack(f)
<1> DEFINE task == job[j]
<1>1. job'[j] = new /\ \A i \in Job \ {j} : job'[i] = job[i]
  BY OthersKeep
<1>2. HandKnown(task, aliases \cup early)
  BY DEF HandsKnown
<1>3. HandKnown(new, aliases' \cup early')
  BY <1>2 DEF HandKnown
<1>4. HandsKnown'
  BY <1>3, HandWritten
<1>5. \A f : (Scans(new, f) <=> Scans(task, f)) /\ (Refreshes(new, f) <=> Refreshes(task, f))
  BY DEF Scans, Refreshes, Coming, Scanning
<1>6. \A i \in Job : \A f :
        /\ Scans(job'[i], f) <=> Scans(job[i], f)
        /\ Refreshes(job'[i], f) <=> Refreshes(job[i], f)
  BY <1>1, <1>5
<1>7. \A f : InWorkspace(f)' <=> InWorkspace(f)
  BY DEF InWorkspace
<1>8. \A f : Changed(f)' <=> Changed(f)
  BY <1>6 DEF Changed
<1>9. \A f : MayLack(f)' <=> MayLack(f)
  BY <1>6, <1>7 DEF MayLack
<1> QED
  BY <1>4, <1>8, <1>9

(* The cross-reference index takes a file: what it takes is what is saved,   *)
(* for no other job has had the file in hand.                                *)
LEMMA XrefsTaken ==
    ASSUME Shape, HandsKnown, Layered, NEW j \in Job, IndexXrefs(j)
    PROVE  HandsKnown' /\ Layered'
<1> DEFINE task == job[j]
<1>t. task \in JobState /\ Ready(task) /\ HandKnown(task, aliases \cup early)
  BY DEF Shape, JobsTyped, HandsKnown
<1>s. JobsTyped /\ SourcesTyped /\ job \in [Job -> JobState]
  BY DEF Shape, JobsTyped
<1>d. documents \in [File -> Layers]
  BY DEF Shape, Typed
<1>f. \A f \in Source : f \in File /\ f \notin Alias /\ FileOf(f) = f
  BY DEF Source, FileOf
<1>1. PICK s \in DOMAIN task.texts :
        /\ IF task.texts[s] = Null
           THEN RemoveDiskDocument(j, Key(s, aliases)) /\ UNCHANGED << aliases, early >>
           ELSE Register(s) /\ IndexDiskComponents(j, Key(s, aliases'), LayerOf[task.texts[s]])
        /\ job' = [job EXCEPT ![j].pc = "symbols", ![j].uri = s]
        /\ raced' = IF FileOf(s) \in shared THEN raced \cup {FileOf(s)} ELSE raced \ {FileOf(s)}
  BY DEF IndexXrefs
<1> DEFINE f == FileOf(s)
           k == Key(s, aliases')
           text == task.texts[s]
           new == [task EXCEPT !.pc = "symbols", !.uri = s]
<1>2. /\ task.pc = "xrefs" /\ job' = [job EXCEPT ![j] = new]
      /\ UNCHANGED << symbols, folders, reported, disk, unseen, shared >>
  BY <1>1, <1>s DEF IndexXrefs, Works, At, sources
<1>3. s \in File
  BY InHand
<1>4. /\ aliases \subseteq aliases' /\ aliases' \in SUBSET Alias /\ early \subseteq early'
  BY <1>1, <1>3, Registers DEF Shape, SourcesTyped
<1>5. documents' = [documents EXCEPT ![k] = [documents[k] EXCEPT !.disk = Parse(text)]]
  <2>1. CASE text = Null
    BY <1>1, <2>1 DEF RemoveDiskDocument, WriteLayer, Parse
  <2>2. CASE text # Null
    BY <1>1, <2>2 DEF IndexDiskComponents, WriteLayer, Parse
  <2> QED
    BY <2>1, <2>2
<1>6. /\ f \in Source /\ k \in File
      /\ Resolved(f) => k = f
      /\ \A g \in Source \ {f} : k # g
  BY <1>4, HandKey
<1>7. /\ new.pc = "symbols" /\ new.uri = s /\ new.texts = task.texts /\ new.kind = task.kind
      /\ new.todo = task.todo /\ new.removed = task.removed /\ new.uris = task.uris
  BY <1>t DEF JobState
<1> HIDE DEF new, k
<1>8. /\ documents'[k].disk = Parse(text)
      /\ \A g \in File \ {k} : documents'[g] = documents[g]
  BY <1>d, <1>5, <1>6 DEF Layers
<1>9. /\ HandsKnown'
      /\ \A g : Changed(g)' <=> Changed(g)
      /\ \A g : MayLack(g)' <=> MayLack(g)
  BY <1>s, <1>2, <1>4, <1>7, IndexingPlans
<1>10. job'[j] = new /\ \A i \in Job \ {j} : job'[i] = job[i]
  BY <1>2, <1>s, OthersKeep
<1>11. \A g : Resolved(g)' => Resolved(g)
  BY <1>4 DEF Resolved
<1>12. \A i \in Job : \A g : Holds(i, g)' <=> Holds(i, g)
  BY <1>2, <1>7, <1>10 DEF Holds, At
<1>13. HeldOnce'
  BY <1>2, <1>11, <1>12 DEF Layered, HeldOnce
<1>14. \A g, x : Current(x, g)' <=> Current(x, g)
  BY <1>2, <1>9 DEF Current
<1>15. TextsCurrent'
  <2> SUFFICES ASSUME NEW g \in Source, g \notin shared, Resolved(g), ~ Changed(g), NEW i \in Job
               PROVE  /\ \A x \in DOMAIN job'[i].texts : FileOf(x) = g => Current(job'[i].texts[x], g)
                      /\ job'[i].pc = "drop" /\ FolderOf[g] \in job'[i].removed => Current(Null, g)
    BY <1>2, <1>9, <1>11, <1>14 DEF TextsCurrent, At
  <2>1. job'[i].texts = job[i].texts
    BY <1>7, <1>10
  <2>2. job'[i].pc = "drop" => job[i] = job'[i]
    BY <1>7, <1>10
  <2> QED
    BY <2>1, <2>2 DEF Layered, TextsCurrent, At
<1>16. \A g \in Source \ {f} : (g \in raced' <=> g \in raced) /\ documents'[g] = documents[g]
  BY <1>1, <1>6, <1>8, <1>f
<1>17. ASSUME f \notin raced', Resolved(f)
       PROVE  /\ documents'[f].disk = Parse(text)
              /\ \A i \in Job : Holds(i, f) => i = j
              /\ ~ Changed(f) => Current(text, f)
  <2>1. f \notin shared
    BY <1>1, <1>17
  <2>2. k = f /\ f \in Source
    BY <1>6, <1>17
  <2>3. Holds(j, f)
    BY DEF Holds
  <2> QED
    BY <1>8, <1>17, <2>1, <2>2, <2>3 DEF Layered, HeldOnce, TextsCurrent
<1>18. LayersMatch'
  <2>1. \A i \in Job : \A g : Halfway(i, g) => Holds(i, g)
    BY DEF Halfway, Holds, At, Shape, JobsTyped, Ready
  <2>2. \A i \in Job \ {j} : \A g : Halfway(i, g)' <=> Halfway(i, g)
    BY <1>10 DEF Halfway, At
  <2>3. \A g : (Halfway(j, g)' <=> g = f) /\ ~ Halfway(j, g)
    BY <1>2, <1>7, <1>10 DEF Halfway, At
  <2>4. ASSUME NEW g \in Source \ {f}, g \notin raced', Resolved(g)
        PROVE  /\ \A i, l \in Job : Halfway(i, g)' /\ Halfway(l, g)' => i = l
               /\ \A i \in Job : Halfway(i, g)' => documents'[g].disk = Parse(job'[i].texts[job'[i].uri])
               /\ (\A i \in Job : ~ Halfway(i, g)') => documents'[g].disk = Parse(symbols'[g].disk)
    <3>1. \A i \in Job : Halfway(i, g)' => Halfway(i, g) /\ job'[i] = job[i]
      BY <1>10, <2>2, <2>3, <2>4
    <3>2. \A i \in Job : Halfway(i, g) => Halfway(i, g)'
      BY <2>2, <2>3
    <3>3. g \notin raced /\ documents'[g] = documents[g] /\ symbols' = symbols
      BY <1>2, <1>16, <2>4
    <3> QED
      BY <2>4, <3>1, <3>2, <3>3 DEF Layered, LayersMatch
  <2>5. ASSUME f \notin raced', Resolved(f)
        PROVE  /\ \A i, l \in Job : Halfway(i, f)' /\ Halfway(l, f)' => i = l
               /\ \A i \in Job : Halfway(i, f)' => documents'[f].disk = Parse(job'[i].texts[job'[i].uri])
               /\ \E i \in Job : Halfway(i, f)'
    <3>1. \A i \in Job : Halfway(i, f)' => i = j
      BY <1>17, <2>1, <2>2, <2>5
    <3>2. job'[j].texts[job'[j].uri] = text
      BY <1>7, <1>10
    <3> QED
      BY <1>17, <2>3, <2>5, <3>1, <3>2
  <2> HIDE DEF f
  <2> QED
    BY <1>11, <2>4, <2>5 DEF LayersMatch, Parse
<1>19. LayersCurrent'
  <2>1. ASSUME NEW g \in Source \ {f}, g \notin raced', Resolved(g), ~ Changed(g)
        PROVE  LayerCurrent(g)' \/ \E i \in Job : \E x \in File : FileOf(x) = g /\ Unwritten(i, x)'
    <3>1. g \notin raced /\ documents'[g] = documents[g]
      BY <1>16, <2>1
    <3>2. LayerCurrent(g) => LayerCurrent(g)'
      BY <1>2, <1>9, <3>1 DEF LayerCurrent, Parse
    <3>3. \A i \in Job, x \in File : FileOf(x) = g /\ Unwritten(i, x) => Unwritten(i, x)'
      BY <1>7, <1>10, <2>1 DEF Unwritten, At
    <3> QED
      BY <2>1, <3>1, <3>2, <3>3 DEF Layered, LayersCurrent
  <2>2. ASSUME f \notin raced', Resolved(f), ~ Changed(f) PROVE LayerCurrent(f)'
    <3>1. documents'[f].disk = Parse(text) /\ Current(text, f)
      BY <1>17, <2>2
    <3>2. Parse(Null) = << >>
      BY DEF Parse
    <3>3. MayLack(f)' <=> MayLack(f)
      BY <1>9
    <3>4. disk' = disk
      BY <1>2
    <3> HIDE DEF f, text
    <3> QED
      BY <3>1, <3>2, <3>3, <3>4 DEF Current, LayerCurrent, Parse
  <2> HIDE DEF f
  <2> QED
    BY <1>9, <1>11, <2>1, <2>2 DEF LayersCurrent
<1> QED
  BY <1>9, <1>13, <1>15, <1>18, <1>19 DEF Layered

(* The symbol index takes the same text after it.                            *)
LEMMA SymbolsTaken ==
    ASSUME Shape, HandsKnown, Layered, NEW j \in Job, IndexSymbols(j)
    PROVE  HandsKnown' /\ Layered'
<1> DEFINE task == job[j]
<1>u. PICK s : s = task.uri
  OBVIOUS
<1> DEFINE f == FileOf(s)
           k == Key(s, aliases')
           text == task.texts[s]
           texts == Without(task.texts, s)
           new == [task EXCEPT !.pc = "xrefs", !.uri = Null, !.texts = texts]
<1>t. task \in JobState /\ Ready(task)
  BY DEF Shape, JobsTyped
<1>s. JobsTyped /\ SourcesTyped /\ job \in [Job -> JobState]
  BY DEF Shape, JobsTyped
<1>d. symbols \in [File -> [disk : Text \cup {Null}, open : Text \cup {Null}]]
  BY DEF Shape, SourcesTyped
<1>1. /\ task.pc = "symbols" /\ job' = [job EXCEPT ![j] = new]
      /\ IF text = Null THEN UNCHANGED << aliases, early >> ELSE Register(s)
      /\ symbols' = [symbols EXCEPT ![k].disk = text]
      /\ UNCHANGED << documents, folders, reported, disk, unseen, shared, raced >>
  BY <1>s, <1>u DEF IndexSymbols, Works, At, sources, vars
<1>2. s \in DOMAIN task.texts
  BY <1>t, <1>u, <1>1 DEF Ready
<1>3. s \in File
  BY <1>2, InHand
<1>4. /\ aliases \subseteq aliases' /\ aliases' \in SUBSET Alias /\ early \subseteq early'
  BY <1>1, <1>3, Registers DEF Shape, SourcesTyped
<1>5. /\ f \in Source /\ k \in File
      /\ Resolved(f) => k = f
      /\ \A g \in Source \ {f} : k # g
  BY <1>2, <1>4, HandKey
<1>6. DOMAIN texts = DOMAIN task.texts \ {s} /\ \A x \in DOMAIN texts : texts[x] = task.texts[x]
  BY DEF Without
<1> HIDE DEF texts
<1>7. /\ new.pc = "xrefs" /\ new.texts = texts /\ new.kind = task.kind
      /\ new.todo = task.todo /\ new.removed = task.removed /\ new.uris = task.uris
  BY <1>t DEF JobState
<1> HIDE DEF new, k, text
<1>8. /\ symbols'[k].disk = text
      /\ \A g \in File \ {k} : symbols'[g] = symbols[g]
  BY <1>d, <1>1, <1>5
<1>9. /\ HandsKnown'
      /\ \A g : Changed(g)' <=> Changed(g)
      /\ \A g : MayLack(g)' <=> MayLack(g)
  BY <1>s, <1>1, <1>4, <1>6, <1>7, IndexingPlans
<1>10. job'[j] = new /\ \A i \in Job \ {j} : job'[i] = job[i]
  BY <1>1, <1>s, OthersKeep
<1>11. \A g : Resolved(g)' => Resolved(g)
  BY <1>4 DEF Resolved
<1>12. \A i \in Job : \A g : Holds(i, g)' => Holds(i, g)
  BY <1>1, <1>6, <1>7, <1>10 DEF Holds, At
<1>13. HeldOnce'
  BY <1>1, <1>11, <1>12 DEF Layered, HeldOnce
<1>14. \A g, x : Current(x, g)' <=> Current(x, g)
  BY <1>1, <1>9 DEF Current
<1>15. TextsCurrent'
  <2> SUFFICES ASSUME NEW g \in Source, g \notin shared, Resolved(g), ~ Changed(g), NEW i \in Job
               PROVE  /\ \A x \in DOMAIN job'[i].texts : FileOf(x) = g => Current(job'[i].texts[x], g)
                      /\ job'[i].pc = "drop" /\ FolderOf[g] \in job'[i].removed => Current(Null, g)
    BY <1>1, <1>9, <1>11, <1>14 DEF TextsCurrent, At
  <2>1. \A x \in DOMAIN job'[i].texts : x \in DOMAIN job[i].texts /\ job'[i].texts[x] = job[i].texts[x]
    BY <1>6, <1>7, <1>10
  <2>2. job'[i].pc = "drop" => job[i] = job'[i]
    BY <1>7, <1>10
  <2> QED
    BY <2>1, <2>2 DEF Layered, TextsCurrent, At
<1>16. LayersMatch'
  <2>1. \A i \in Job \ {j} : \A g : Halfway(i, g)' <=> Halfway(i, g)
    BY <1>10 DEF Halfway, At
  <2>2. \A g : ~ Halfway(j, g)' /\ (Halfway(j, g) <=> g = f)
    BY <1>1, <1>u, <1>7, <1>10 DEF Halfway, At
  <2>3. ASSUME NEW g \in Source \ {f}, g \notin raced, Resolved(g)
        PROVE  /\ \A i, l \in Job : Halfway(i, g)' /\ Halfway(l, g)' => i = l
               /\ \A i \in Job : Halfway(i, g)' => documents[g].disk = Parse(job'[i].texts[job'[i].uri])
               /\ (\A i \in Job : ~ Halfway(i, g)') => documents[g].disk = Parse(symbols'[g].disk)
    <3>1. \A i \in Job : Halfway(i, g)' => Halfway(i, g) /\ job'[i] = job[i]
      BY <1>10, <2>1, <2>2
    <3>2. \A i \in Job : Halfway(i, g) => Halfway(i, g)'
      BY <2>1, <2>2
    <3>3. symbols'[g] = symbols[g]
      BY <1>5, <1>8 DEF Source
    <3> QED
      BY <2>3, <3>1, <3>2, <3>3 DEF Layered, LayersMatch
  <2>4. ASSUME f \notin raced, Resolved(f)
        PROVE  /\ \A i \in Job : ~ Halfway(i, f)'
               /\ documents[f].disk = Parse(symbols'[f].disk)
    <3>1. \A i \in Job : Halfway(i, f) => i = j
      BY <1>5, <2>2, <2>4 DEF Layered, LayersMatch
    <3>2. documents[f].disk = Parse(text)
      BY <1>5, <1>u, <2>2, <2>4 DEF Layered, LayersMatch, text
    <3>3. symbols'[f].disk = text
      BY <1>5, <1>8, <2>4
    <3> HIDE DEF f
    <3>4. \A i \in Job : ~ Halfway(i, f)'
      BY <2>1, <2>2, <3>1
    <3> QED
      BY <3>2, <3>3, <3>4
  <2> HIDE DEF f
  <2>5. ASSUME NEW g \in Source, g \notin raced, Resolved(g)
        PROVE  /\ \A i, l \in Job : Halfway(i, g)' /\ Halfway(l, g)' => i = l
               /\ \A i \in Job : Halfway(i, g)' => documents[g].disk = Parse(job'[i].texts[job'[i].uri])
               /\ (\A i \in Job : ~ Halfway(i, g)') => documents[g].disk = Parse(symbols'[g].disk)
    <3>1. CASE g = f
      <4>1. /\ \A i \in Job : ~ Halfway(i, g)'
            /\ documents[g].disk = Parse(symbols'[g].disk)
        BY <2>4, <2>5, <3>1
      <4> QED
        BY <4>1
    <3>2. CASE g # f
      BY <2>3, <2>5, <3>2
    <3> QED
      BY <3>1, <3>2
  <2> QED
    BY <1>1, <1>11, <2>5 DEF LayersMatch, Parse
<1>17. LayersCurrent'
  <2>1. ASSUME NEW g \in Source, g \notin raced, Resolved(g), ~ Changed(g)
        PROVE  LayerCurrent(g)' \/ \E i \in Job : \E x \in File : FileOf(x) = g /\ Unwritten(i, x)'
    <3>1. LayerCurrent(g) => LayerCurrent(g)'
      BY <1>1, <1>9 DEF LayerCurrent, Parse
    <3>2. \A i \in Job, x \in File : Unwritten(i, x) => Unwritten(i, x)'
      BY <1>1, <1>u, <1>6, <1>7, <1>10 DEF Unwritten, At
    <3> QED
      BY <2>1, <3>1, <3>2 DEF Layered, LayersCurrent
  <2> QED
    BY <1>1, <1>9, <1>11, <2>1 DEF LayersCurrent
<1> QED
  BY <1>9, <1>13, <1>15, <1>16, <1>17 DEF Layered

(* A job begins for a save or for a batch of reports: what it is to read is  *)
(* known to have changed until it does.                                      *)
LEMMA RefreshStarts ==
    ASSUME Shape, Overlays, HandsKnown, Layered, NEW j \in Job, NEW s \in File,
           DidSave(j, s) \/ DidChangeWatchedFiles(j)
    PROVE  HandsKnown' /\ Layered'
<1> USE DEF sources, workspace, history
<1> DEFINE new(uris) == [IdleJob EXCEPT !.pc = "read", !.kind = "refresh", !.uris = uris]
<1>s. JobsTyped /\ SourcesTyped
  BY DEF Shape
<1>e. \A x : x \notin DOMAIN << >>
  OBVIOUS
<1>1. \A uris : /\ new(uris).pc = "read" /\ new(uris).kind = "refresh" /\ new(uris).uris = uris
                /\ DOMAIN new(uris).texts = {} /\ new(uris).todo = << >> /\ new(uris).removed = {}
  BY DEF IdleJob
<1> HIDE DEF new
<1>2. ASSUME NEW uris, Starts(j, uris), uris \subseteq File,
             \A x \in uris : x \in Alias => x \in aliases \cup early,
             UNCHANGED << documents, symbols, shared, raced, folders, aliases, early >>,
             \A f \in Source : f \in unseen \cup reported => f \in unseen' \cup reported' \cup uris,
             \A f \in Source : disk'[f] = disk[f] \/ \E x \in uris : FileOf(x) = f
      PROVE  HandsKnown' /\ Layered'
  <2> DEFINE next == new(uris)
  <2>1. job' = [job EXCEPT ![j] = next] /\ job[j].pc = "idle"
    BY <1>2 DEF Starts, At, new
  <2>2. job[j] = IdleJob
    BY <2>1 DEF HandsKnown, HandKnown
  <2>3. \A f \in Source : ~ Scans(job[j], f) /\ ~ Refreshes(job[j], f)
    BY <1>e, <2>2 DEF Scans, Coming, Refreshes, IdleJob
  <2>4. \A f \in Source : f \in uris => FileOf(f) = f
    BY DEF Source, FileOf
  <2>5. DOMAIN job[j].texts = {}
    BY <2>2 DEF IdleJob
  <2>6. /\ next.pc = "read" /\ next.kind = "refresh" /\ next.uris = uris
        /\ DOMAIN next.texts = {} /\ next.todo = << >> /\ next.removed = {}
    BY <1>1
  <2> HIDE DEF next
  <2>7. HandKnown(next, aliases' \cup early')
    BY <1>2, <2>6 DEF HandKnown
  <2>8. HandsKnown'
    BY <1>2, <1>s, <2>1, <2>7, HandWritten
  <2>9. \A f : (\E x \in uris : FileOf(x) = f) => Refreshes(next, f)
    BY <2>6 DEF Refreshes
  <2>10. /\ \A f \in Source : f \in unseen \cup reported
                => f \in unseen' \cup reported' \/ Refreshes(next, f)
         /\ \A f \in Source : disk'[f] = disk[f] \/ f \in unseen' \cup reported' \/ Refreshes(next, f)
    BY <1>2, <2>4, <2>9
  <2> HIDE DEF sources, workspace, history
  <2>11. Layered'
    BY <1>2, <1>s, <2>1, <2>3, <2>5, <2>6, <2>10, PlanningKeeps
  <2> QED
    BY <2>8, <2>11
<1>3. CASE DidSave(j, s)
  <2>1. /\ buffer[s] # Null /\ Starts(j, {s})
        /\ disk' = [disk EXCEPT ![FileOf(s)] = buffer[s]]
        /\ reported \subseteq reported' /\ unseen' = unseen
        /\ UNCHANGED << documents, symbols, shared, raced, folders, aliases, early >>
    BY <1>3 DEF DidSave, Written, vars
  <2>2. s \in Alias => s \in aliases \cup early
    BY <2>1 DEF Overlays, OpenIsKnown
  <2>3. \A f \in Source : disk'[f] = disk[f] \/ FileOf(s) = f
    BY <1>s, <2>1 DEF SourcesTyped
  <2> QED
    BY <1>2, <2>1, <2>2, <2>3
<1>4. CASE DidChangeWatchedFiles(j)
  <2> DEFINE changed == {f \in reported : FolderOf[f] = root}
  <2>1. /\ unseen' = unseen \cup (reported \ changed) /\ reported' = {}
        /\ IF changed = {} THEN job' = job ELSE Starts(j, changed)
        /\ UNCHANGED << documents, symbols, shared, raced, folders, aliases, early, disk >>
    BY <1>4 DEF DidChangeWatchedFiles, vars
  <2>2. \A f \in changed : f \in Source /\ f \in File /\ f \notin Alias
    BY <1>s DEF SourcesTyped, Source
  <2> HIDE DEF changed
  <2>3. CASE changed = {}
    <3>1. HandsKnown'
      BY <2>1, <2>3 DEF HandsKnown
    <3>2. Layered'
      BY <2>1, <2>3, OutsideKeeps
    <3> QED
      BY <3>1, <3>2
  <2>4. CASE changed # {}
    BY <1>2, <2>1, <2>2, <2>4
  <2> QED
    BY <2>3, <2>4
<1> QED
  BY <1>3, <1>4

(* The folders that stay are folders of the workspace, and not removed.      *)
LEMMA RetainedType ==
    ASSUME folders \in Seq(Folder), NEW removed, NEW kept \in Retained(removed)
    PROVE  /\ kept \in Seq(Folder)
           /\ \A k \in DOMAIN kept : kept[k] \notin removed
           /\ \A k \in DOMAIN kept : \E i \in DOMAIN folders : kept[k] = folders[i]
<1> DEFINE left == {i \in DOMAIN folders : folders[i] \notin removed}
           n == Cardinality(left)
<1>1. n \in Nat
  <2>1. IsFiniteSet(1 .. Len(folders)) /\ left \subseteq 1 .. Len(folders)
    BY FS_Interval
  <2> HIDE DEF left
  <2> QED
    BY <2>1, FS_Subset, FS_CardinalityType
<1>2. PICK at \in [1 .. n -> left] : kept = [k \in DOMAIN at |-> folders[at[k]]]
  BY DEF Retained
<1> HIDE DEF n
<1>3. \A k \in 1 .. n : at[k] \in DOMAIN folders /\ folders[at[k]] \notin removed
  BY <1>2
<1>4. DOMAIN kept = 1 .. n /\ \A k \in 1 .. n : kept[k] = folders[at[k]]
  BY <1>2
<1>5. kept \in [1 .. n -> Folder]
  BY <1>2, <1>3
<1> QED
  BY <1>1, <1>3, <1>4, <1>5

(* The folders after a change of the workspace.                              *)
LEMMA FoldersAfter ==
    ASSUME folders \in Seq(Folder), NEW j \in Job, NEW removed \in SUBSET Folder,
           NEW added \in {<< >>} \cup {<< d >> : d \in Folder}, ChangeFolders(j, removed, added)
    PROVE  /\ folders' \in Seq(Folder) /\ added \in Seq(Folder)
           /\ \A i \in DOMAIN folders' :
                \/ \E k \in DOMAIN added : added[k] = folders'[i]
                \/ /\ folders'[i] \notin removed
                   /\ \E k \in DOMAIN folders : folders[k] = folders'[i]
<1>1. PICK kept \in Retained(removed) :
        folders' = IF \E i \in DOMAIN kept : added = << kept[i] >> THEN kept ELSE kept \o added
  BY DEF ChangeFolders
<1>2. /\ kept \in Seq(Folder)
      /\ \A k \in DOMAIN kept : kept[k] \notin removed
      /\ \A k \in DOMAIN kept : \E i \in DOMAIN folders : kept[k] = folders[i]
  BY RetainedType
<1>3. added \in Seq(Folder)
  <2>1. << >> \in Seq(Folder) /\ \A d \in Folder : << d >> \in Seq(Folder)
    OBVIOUS
  <2> QED
    BY <2>1
<1>4. /\ kept \o added \in Seq(Folder)
      /\ \A i \in DOMAIN (kept \o added) :
            \/ i \in DOMAIN kept /\ (kept \o added)[i] = kept[i]
            \/ i - Len(kept) \in DOMAIN added /\ (kept \o added)[i] = added[i - Len(kept)]
  BY <1>2, <1>3
<1> QED
  BY <1>1, <1>2, <1>3, <1>4

(* Folders come and go: what lies in a removed folder is taken in hand.      *)
LEMMA FoldersKeep ==
    ASSUME Shape, HandsKnown, Layered, folders \in Seq(Folder), NEW j \in Job,
           NEW removed \in SUBSET Folder, NEW added \in {<< >>} \cup {<< d >> : d \in Folder},
           ChangeFolders(j, removed, added)
    PROVE  HandsKnown' /\ Layered'
<1> DEFINE pc == IF removed = {} THEN "folder" ELSE "drop"
           new == [IdleJob EXCEPT !.kind = "folders", !.removed = removed, !.todo = added, !.pc = pc]
           taken == {f \in Source : FolderOf[f] \in removed}
<1>s. JobsTyped /\ SourcesTyped
  BY DEF Shape
<1>e. \A x : x \notin DOMAIN << >>
  OBVIOUS
<1>1. /\ job[j].pc = "idle" /\ job' = [job EXCEPT ![j] = new] /\ Takes(j, taken)
      /\ UNCHANGED << documents, symbols, raced, early, aliases, unseen, reported, disk >>
  BY DEF ChangeFolders, At, vars, sources
<1>2. job[j] = IdleJob
  BY <1>1 DEF HandsKnown, HandKnown
<1>3. pc \in {"folder", "drop"}
  OBVIOUS
<1> HIDE DEF pc
<1>4. /\ new.pc = pc /\ new.kind = "folders" /\ new.removed = removed /\ new.todo = added
      /\ new.uris = {} /\ DOMAIN new.texts = {}
  BY DEF IdleJob
<1> HIDE DEF new
<1>5. HandKnown(new, aliases' \cup early')
  BY <1>3, <1>4 DEF HandKnown
<1>6. HandsKnown'
  BY <1>s, <1>1, <1>5, HandWritten
<1>7. \A f \in Source : ~ Scans(job[j], f) /\ ~ Refreshes(job[j], f)
  BY <1>e, <1>2 DEF Scans, Coming, Refreshes, IdleJob
<1>8. \A f \in Source : Changed(f) => Changed(f)'
  BY <1>s, <1>1, <1>7, PlansKept DEF Changed
<1>9. \A f \in Source : InWorkspace(f)' => Scans(new, f) \/ (InWorkspace(f) /\ FolderOf[f] \notin removed)
  <2> SUFFICES ASSUME NEW f \in Source, NEW i \in DOMAIN folders', folders'[i] = FolderOf[f]
               PROVE  Scans(new, f) \/ (InWorkspace(f) /\ FolderOf[f] \notin removed)
    BY DEF InWorkspace
  <2>1. CASE \E k \in DOMAIN added : added[k] = folders'[i]
    BY <1>3, <1>4, <2>1 DEF Scans, Coming, Scanning
  <2>2. CASE folders'[i] \notin removed /\ \E k \in DOMAIN folders : folders[k] = folders'[i]
    BY <2>2 DEF InWorkspace
  <2> QED
    BY <2>1, <2>2, FoldersAfter
<1>10. \A f \in Source : ~ InWorkspace(f)' \/ Scans(new, f) => MayLack(f)'
  BY <1>s, <1>1, PlansKept DEF MayLack
<1>11. \A f \in Source : MayLack(f) => MayLack(f)'
  BY <1>s, <1>1, <1>7, <1>9, <1>10, PlansKept DEF MayLack
<1>12. /\ \A f \in Source : FolderOf[f] \in removed => f \in taken /\ MayLack(f)'
       /\ taken \in SUBSET Source /\ {} \in SUBSET Source /\ {} \subseteq taken
  BY <1>9, <1>10
<1>13. /\ DOMAIN job[j].texts = {} /\ new.pc # "symbols" /\ job[j].pc # "symbols"
       /\ \A f \in {} : \E s \in DOMAIN new.texts : FileOf(s) = f
       /\ early \subseteq early'
  BY <1>1, <1>2, <1>3, <1>4 DEF IdleJob
<1> HIDE DEF taken
<1>14. Layered'
  BY <1>s, <1>1, <1>4, <1>8, <1>11, <1>12, <1>13, HandlingKeeps
<1> QED
  BY <1>6, <1>14

(* The steps that touch no job: the client's, other programs', a write's.    *)
LEMMA OutsideSteps ==
    ASSUME Shape, HandsKnown, Layered,
           \/ UNCHANGED wVars
           \/ \E w \in Writer :
                Step(w) /\ UNCHANGED << sources, workspace, job, reported, events, history >>
           \/ \E f \in Source : DiskWrite(f)
           \/ \E s \in File : DidOpen(s) \/ DidChange(s) \/ Analyze(s) \/ DidClose(s)
    PROVE  HandsKnown' /\ Layered'
<1> USE DEF sources, workspace, history
<1>d. /\ documents \in [File -> Layers] /\ disk \in [Source -> Text \cup {Null}]
      /\ symbols \in [File -> [disk : Text \cup {Null}, open : Text \cup {Null}]]
      /\ \A f \in Source : f \in File
  BY DEF Shape, Typed, SourcesTyped, Source
<1>1. ASSUME job' = job, aliases \subseteq aliases', early \subseteq early' PROVE HandsKnown'
  <2>1. \A task : HandKnown(task, aliases \cup early) => HandKnown(task, aliases' \cup early')
    BY <1>1 DEF HandKnown
  <2> QED
    BY <1>1, <2>1 DEF HandsKnown
<1>2. CASE UNCHANGED << documents, sources, workspace, job, reported, history >>
  BY <1>1, <1>2, OutsideKeeps
<1>3. CASE \E w \in Writer :
             Step(w) /\ UNCHANGED << sources, workspace, job, reported, events, history >>
  <2>1. documents' = documents
    BY <1>3 DEF Step, InsertName, ForgetDeclaration, ReadDeclaration, WriteGraph, Bump
  <2> QED
    BY <1>2, <1>3, <2>1
<1>4. ASSUME NEW f \in Source, DiskWrite(f) PROVE HandsKnown' /\ Layered'
  <2>1. /\ \E text : disk' = [disk EXCEPT ![f] = text]
        /\ reported' = IF watching THEN reported \cup {f} ELSE reported
        /\ unseen' = IF watching THEN unseen ELSE unseen \cup {f}
        /\ UNCHANGED << documents, symbols, folders, aliases, early, job, shared, raced >>
    BY <1>4 DEF DiskWrite, Written, vars
  <2>2. unseen \cup reported \subseteq unseen' \cup reported' /\ f \in unseen' \cup reported'
    BY <2>1
  <2>3. \A g \in Source : disk'[g] = disk[g] \/ g = f
    BY <1>d, <2>1
  <2> QED
    BY <1>1, <2>1, <2>2, <2>3, OutsideKeeps
<1>5. ASSUME NEW s \in File, DidOpen(s) \/ DidChange(s) PROVE HandsKnown' /\ Layered'
  <2>1. /\ UNCHANGED << documents, symbols, disk, folders, job, reported, unseen, shared, raced >>
        /\ aliases \subseteq aliases' /\ early \subseteq early'
    BY <1>5, Registers DEF DidOpen, DidChange, vars, Shape
  <2> QED
    BY <1>1, <2>1, OutsideKeeps
<1>6. ASSUME NEW s \in File, Analyze(s) \/ DidClose(s) PROVE HandsKnown' /\ Layered'
  <2> DEFINE k == Key(s, aliases)
  <2>1. /\ \E layer : documents' = [documents EXCEPT ![k] = [documents[k] EXCEPT !.open = layer]]
        /\ \E text : symbols' = [symbols EXCEPT ![k].open = text]
        /\ UNCHANGED << disk, folders, job, reported, unseen, shared, raced, aliases, early >>
    BY <1>6 DEF Analyze, DidClose, IndexComponents, RemoveDocument, WriteLayer
  <2> HIDE DEF k
  <2>2. \A f \in File : documents'[f].disk = documents[f].disk
    BY <1>d, <2>1 DEF Layers
  <2>3. \A f \in File : symbols'[f].disk = symbols[f].disk
    BY <1>d, <2>1
  <2> QED
    BY <1>1, <1>d, <2>1, <2>2, <2>3, OutsideKeeps
<1>7. CASE UNCHANGED wVars
  BY <1>2, <1>7 DEF wVars, vars
<1> QED
  BY <1>3, <1>4, <1>5, <1>6, <1>7

(* Every step of the system.                                                 *)
LEMMA NextLayered ==
    Shape /\ Overlays /\ HandsKnown /\ Layered /\ folders \in Seq(Folder) /\ [WNext]_wVars
    => HandsKnown' /\ Layered' /\ folders' \in Seq(Folder)
<1> SUFFICES ASSUME Shape, Overlays, HandsKnown, Layered, folders \in Seq(Folder), [WNext]_wVars
             PROVE  HandsKnown' /\ Layered' /\ folders' \in Seq(Folder)
  OBVIOUS
<1>1. ASSUME NEW j \in Job, JobStep(j)
      PROVE  HandsKnown' /\ Layered' /\ folders' = folders
  <2>1. folders' = folders
    BY <1>1 DEF JobStep, StartScan, ScanFile, ScanFails, IndexXrefs, IndexSymbols, ScanEnds,
                DropEnds, RefreshEnds, FoldersDone, Refresh, RefreshFails, DropFolders, Indexed,
                Works, workspace
  <2>2. HandsKnown' /\ Layered'
    BY <1>1, PlansFollowed, FilesTaken, XrefsTaken, SymbolsTaken DEF JobStep
  <2> QED
    BY <2>1, <2>2
<1>2. ASSUME NEW j \in Job, NEW s \in File, DidSave(j, s) \/ DidChangeWatchedFiles(j)
      PROVE  HandsKnown' /\ Layered' /\ folders' = folders
  <2>1. folders' = folders
    BY <1>2 DEF DidSave, DidChangeWatchedFiles, workspace
  <2> QED
    BY <1>2, <2>1, RefreshStarts
<1>3. ASSUME NEW j \in Job, DidChangeWatchedFiles(j)
      PROVE  HandsKnown' /\ Layered' /\ folders' = folders
  <2>1. PICK s \in File : TRUE
    BY <1>3 DEF DidChangeWatchedFiles, Shape, SourcesTyped, Source
  <2> QED
    BY <1>2, <1>3, <2>1
<1>4. ASSUME NEW j \in Job, NEW removed \in SUBSET Folder,
             NEW added \in {<< >>} \cup {<< d >> : d \in Folder}, ChangeFolders(j, removed, added)
      PROVE  HandsKnown' /\ Layered' /\ folders' \in Seq(Folder)
  BY <1>4, FoldersKeep, FoldersAfter
<1>5. ASSUME \/ UNCHANGED wVars
             \/ \E w \in Writer :
                  Step(w) /\ UNCHANGED << sources, workspace, job, reported, events, history >>
             \/ \E f \in Source : DiskWrite(f)
             \/ \E s \in File : DidOpen(s) \/ DidChange(s) \/ Analyze(s) \/ DidClose(s)
      PROVE  HandsKnown' /\ Layered' /\ folders' = folders
  <2>1. folders' = folders
    BY <1>5 DEF wVars, workspace, DiskWrite, DidOpen, DidChange, Analyze, DidClose
  <2> QED
    BY <1>5, <2>1, OutsideSteps
<1> QED
  BY <1>1, <1>2, <1>3, <1>4, <1>5 DEF WNext

(* Nothing is indexed yet, and the first job is to scan every folder.        *)
LEMMA InitLayered == WInit => HandsKnown /\ Layered /\ folders \in Seq(Folder)
<1> SUFFICES ASSUME WInit PROVE HandsKnown /\ Layered /\ folders \in Seq(Folder)
  OBVIOUS
<1> DEFINE first == [IdleJob EXCEPT !.pc = "folder", !.kind = "startup", !.todo = folders]
<1>1. /\ documents = [f \in File |-> NoLayers] /\ symbols = [f \in File |-> NoTexts]
      /\ job = [j \in Job |-> IF j = Startup THEN first ELSE IdleJob]
  BY DEF WInit, Init, NoLayers, NoTexts
<1>2. /\ first.pc = "folder" /\ first.kind = "startup" /\ first.todo = folders /\ first.uris = {}
      /\ DOMAIN first.texts = {} /\ first.removed = {}
  BY DEF IdleJob
<1>3. /\ IdleJob.pc = "idle" /\ DOMAIN IdleJob.texts = {} /\ IdleJob.uris = {}
      /\ IdleJob.kind = "none"
  BY DEF IdleJob
<1>4. folders \in Seq(Folder)
  BY InitialAssumption DEF WInit
<1> HIDE DEF first
<1>5. \A j \in Job : job[j] = first \/ job[j] = IdleJob
  BY <1>1
<1>6. HandsKnown
  BY <1>2, <1>3, <1>5 DEF HandsKnown, HandKnown
<1>7. \A j \in Job, f \in Source : ~ Holds(j, f) /\ ~ Halfway(j, f)
  BY <1>2, <1>3, <1>5 DEF Holds, Halfway, At
<1>8. HeldOnce
  BY <1>7 DEF HeldOnce
<1>9. TextsCurrent
  BY <1>2, <1>3, <1>5 DEF TextsCurrent, At
<1>10. \A f \in Source : documents[f].disk = << >> /\ symbols[f].disk = Null
  BY <1>1 DEF Source, NoLayers, NoTexts
<1>11. LayersMatch
  BY <1>7, <1>10 DEF LayersMatch, Parse
<1>12. LayersCurrent
  <2>1. Startup \in Job /\ job[Startup] = first
    BY <1>1, JobAssumption
  <2>2. \A f \in Source : InWorkspace(f) => Scans(first, f)
    BY <1>2 DEF InWorkspace, Scans, Coming, Scanning
  <2>3. \A f \in Source : MayLack(f)
    BY <2>1, <2>2 DEF MayLack
  <2> QED
    BY <1>10, <2>3 DEF LayersCurrent, LayerCurrent
<1> QED
  BY <1>4, <1>6, <1>8, <1>9, <1>11, <1>12 DEF Layered

(* SavedLayersSettle (refresh_saved_layers, scan_workspace_with, "the two    *)
(* cannot disagree about what is on disk"): once the jobs and the client's   *)
(* reports are done, both indexes hold of every resolved file the same, and  *)
(* of a file of the workspace what is saved, over every order of scans,      *)
(* saves, reports and changes of folders; but for the files two jobs wrote   *)
(* out of order.                                                             *)
THEOREM SavedLayersFollowDisk == WSpec => []SavedLayersSettle
<1> DEFINE Inv == Shape /\ InStep /\ Overlays /\ HandsKnown /\ Layered /\ folders \in Seq(Folder)
<1>1. WInit => Inv
  BY InitTyped, InitInStep, InitOverlays, InitLayered
<1>2. Inv /\ [WNext]_wVars => Inv'
  BY NextIndex, NextShape, NextOverlays, NextLayered
<1>3. Inv => SavedLayersSettle
  <2> SUFFICES ASSUME Inv, Settled, NEW f \in Source \ raced, Resolved(f)
               PROVE  /\ documents[f].disk = Parse(symbols[f].disk)
                      /\ InWorkspace(f) /\ f \notin unseen => documents[f].disk = Parse(disk[f])
    BY DEF SavedLayersSettle
  <2>1. \A j \in Job : job[j] = IdleJob
    BY DEF Settled, At, HandsKnown, HandKnown
  <2>2. /\ IdleJob.pc = "idle" /\ DOMAIN IdleJob.texts = {} /\ IdleJob.kind = "none"
        /\ IdleJob.todo = << >>
    BY DEF IdleJob
  <2>3. \A j \in Job : /\ ~ Halfway(j, f) /\ ~ Scans(job[j], f) /\ ~ Refreshes(job[j], f)
                       /\ \A s : ~ Unwritten(j, s)
    BY <2>1, <2>2 DEF Halfway, At, Scans, Coming, Scanning, Refreshes, Unwritten
  <2>4. documents[f].disk = Parse(symbols[f].disk)
    BY <2>3 DEF Layered, LayersMatch
  <2>5. ASSUME InWorkspace(f), f \notin unseen PROVE documents[f].disk = Parse(disk[f])
    <3>1. ~ Changed(f)
      BY <2>3, <2>5 DEF Changed, Settled
    <3>2. ~ MayLack(f)
      BY <2>3, <2>5 DEF MayLack
    <3> QED
      BY <2>3, <3>1, <3>2 DEF Layered, LayersCurrent, LayerCurrent
  <2> QED
    BY <2>4, <2>5
<1> QED
  BY <1>1, <1>2, <1>3, PTL DEF WSpec

(* The folders that stay are distinct when the folders are.                  *)
LEMMA RetainedDistinct ==
    ASSUME folders \in Seq(Folder), NEW removed, NEW kept \in Retained(removed),
           \A i, k \in DOMAIN folders : folders[i] = folders[k] => i = k
    PROVE  \A i, k \in DOMAIN kept : kept[i] = kept[k] => i = k
<1> DEFINE left == {i \in DOMAIN folders : folders[i] \notin removed}
           n == Cardinality(left)
<1>1. PICK at \in [1 .. n -> left] :
        /\ kept = [k \in DOMAIN at |-> folders[at[k]]]
        /\ \A k, l \in DOMAIN at : k < l => at[k] < at[l]
  BY DEF Retained
<1>2. n \in Nat
  <2>1. IsFiniteSet(1 .. Len(folders)) /\ left \subseteq 1 .. Len(folders)
    BY FS_Interval
  <2> HIDE DEF left
  <2> QED
    BY <2>1, FS_Subset, FS_CardinalityType
<1> HIDE DEF n
<1>3. DOMAIN kept = 1 .. n /\ \A k \in 1 .. n : kept[k] = folders[at[k]] /\ at[k] \in DOMAIN folders
  BY <1>1
<1> SUFFICES ASSUME NEW i \in 1 .. n, NEW k \in 1 .. n, kept[i] = kept[k] PROVE i = k
  BY <1>3
<1>4. at[i] = at[k] /\ at[i] \in Nat
  BY <1>3
<1>5. ~ (i < k) /\ ~ (k < i)
  BY <1>1, <1>4
<1> QED
  BY <1>2, <1>5

(* A change of the workspace keeps the root the first folder.                *)
LEMMA FoldersRooted ==
    ASSUME Rooted, NEW j \in Job, NEW removed \in SUBSET Folder,
           NEW added \in {<< >>} \cup {<< d >> : d \in Folder}, ChangeFolders(j, removed, added)
    PROVE  Rooted'
<1>1. PICK kept \in Retained(removed) :
        /\ folders' = IF \E i \in DOMAIN kept : added = << kept[i] >> THEN kept ELSE kept \o added
        /\ root' = RootOf(folders')
  BY DEF ChangeFolders
<1>2. kept \in Seq(Folder) /\ \A i, k \in DOMAIN kept : kept[i] = kept[k] => i = k
  BY RetainedType, RetainedDistinct DEF Rooted
<1>3. folders' \in Seq(Folder)
  BY FoldersAfter DEF Rooted
<1>4. \A i, k \in DOMAIN folders' : folders'[i] = folders'[k] => i = k
  <2>1. CASE \/ \E i \in DOMAIN kept : added = << kept[i] >>
             \/ added = << >>
    <3>1. folders' = kept
      BY <1>1, <1>2, <2>1
    <3> QED
      BY <1>2, <3>1
  <2>2. ASSUME NEW d \in Folder, added = << d >>, \A i \in DOMAIN kept : added # << kept[i] >>
        PROVE  \A i, k \in DOMAIN folders' : folders'[i] = folders'[k] => i = k
    <3>1. folders' = Append(kept, d)
      BY <1>1, <1>2, <2>2
    <3>2. \A i \in DOMAIN kept : kept[i] # d
      BY <2>2
    <3>3. /\ DOMAIN folders' = 1 .. Len(kept) + 1 /\ folders'[Len(kept) + 1] = d
          /\ \A i \in DOMAIN kept : folders'[i] = kept[i]
          /\ DOMAIN kept = 1 .. Len(kept) /\ Len(kept) \in Nat
      BY <1>2, <3>1
    <3>4. \A i \in 1 .. Len(kept) + 1 : i \in 1 .. Len(kept) \/ i = Len(kept) + 1
      BY <3>3
    <3> QED
      BY <1>2, <3>2, <3>3, <3>4
  <2> QED
    BY <2>1, <2>2
<1>5. /\ root' = Null => folders' = << >>
      /\ root' # Null /\ folders' # << >> => root' = Head(folders')
  <2>1. CASE folders' = << >>
    BY <2>1
  <2>2. CASE folders' # << >>
    <3>1. Head(folders') \in Folder /\ root' = Head(folders')
      BY <1>1, <1>3, <2>2 DEF RootOf
    <3> QED
      BY <2>2, <3>1, FolderAssumption
  <2> QED
    BY <2>1, <2>2
<1>6. unseen' = unseen /\ raced' = raced /\ shared' \subseteq shared \cup Source
      /\ watching' = watching /\ complete' = complete
  BY DEF ChangeFolders, Takes
<1> QED
  BY <1>3, <1>4, <1>5, <1>6 DEF Rooted

(* Every other step leaves the folders and the root.                         *)
LEMMA NextRooted ==
    Shape /\ HandsKnown /\ Rooted /\ [WNext]_wVars => Rooted'
<1> SUFFICES ASSUME Shape, HandsKnown, Rooted, [WNext]_wVars PROVE Rooted'
  OBVIOUS
<1> USE DEF sources, workspace, history
<1>f. \A s \in File : FileOf(s) \in Source
  BY KeyType, AliasAssumption
<1>1. ASSUME UNCHANGED << folders, root >>, watching' => complete',
             unseen' \cup shared' \cup raced' \subseteq Source
      PROVE  Rooted'
  BY <1>1 DEF Rooted
<1>2. ASSUME UNCHANGED << folders, root, watching, complete, shared, raced >>, unseen' \subseteq Source
      PROVE  Rooted'
  BY <1>1, <1>2 DEF Rooted
<1>3. ASSUME NEW j \in Job, JobStep(j) PROVE Rooted'
  <2>t. job[j] \in JobState /\ Ready(job[j])
    BY DEF Shape, JobsTyped
  <2>1. CASE \/ StartScan(j) \/ IndexSymbols(j) \/ ScanEnds(j) \/ DropEnds(j) \/ RefreshEnds(j)
             \/ DropFolders(j) \/ ScanFails(j)
    <3>1. /\ UNCHANGED << folders, root, watching, complete, shared, raced >>
          /\ unseen' \subseteq unseen \cup Source
      BY <2>1 DEF StartScan, IndexSymbols, ScanEnds, DropEnds, RefreshEnds, DropFolders, ScanFails,
                  Indexed, Works
    <3> QED
      BY <1>2, <3>1 DEF Rooted
  <2>2. CASE ScanFile(j)
    <3>1. PICK f \in job[j].uris :
            IF disk[f] = Null THEN UNCHANGED << unseen, shared >>
            ELSE unseen' = unseen \ {f} /\ Takes(j, {f})
      BY <2>2 DEF ScanFile
    <3>2. f \in Source
      BY <2>2, <2>t DEF ScanFile, At, Ready
    <3>3. UNCHANGED << folders, root, watching, complete, raced >>
      BY <2>2 DEF ScanFile, Works
    <3>4. unseen' \subseteq unseen /\ shared' \subseteq shared \cup {f}
      BY <3>1 DEF Takes
    <3> QED
      BY <1>1, <3>2, <3>3, <3>4 DEF Rooted
  <2>3. CASE IndexXrefs(j)
    <3>1. PICK s \in DOMAIN job[j].texts :
            raced' = IF FileOf(s) \in shared THEN raced \cup {FileOf(s)} ELSE raced \ {FileOf(s)}
      BY <2>3 DEF IndexXrefs
    <3>2. FileOf(s) \in Source
      BY <1>f, InHand
    <3>3. UNCHANGED << folders, root, watching, complete, unseen, shared >>
      BY <2>3 DEF IndexXrefs, Works
    <3> QED
      BY <1>1, <3>1, <3>2, <3>3 DEF Rooted
  <2>4. CASE FoldersDone(j)
    <3>1. /\ UNCHANGED << folders, root, unseen, shared, raced >>
          /\ complete' = (complete \/ job[j].kind = "startup")
          /\ watching' = IF job[j].kind = "startup" THEN root # Null ELSE watching
      BY <2>4 DEF FoldersDone, Works
    <3> QED
      BY <1>1, <3>1 DEF Rooted
  <2>5. CASE Refresh(j)
    <3>1. PICK s \in job[j].uris : unseen' = unseen \ {FileOf(s)} /\ Takes(j, {FileOf(s)})
      BY <2>5 DEF Refresh
    <3>2. FileOf(s) \in Source
      BY <1>f, <2>t DEF JobState
    <3>3. UNCHANGED << folders, root, watching, complete, raced >>
      BY <2>5 DEF Refresh, Works
    <3>4. unseen' \subseteq unseen /\ shared' \subseteq shared \cup {FileOf(s)}
      BY <3>1 DEF Takes
    <3> QED
      BY <1>1, <3>2, <3>3, <3>4 DEF Rooted
  <2>6. CASE RefreshFails(j)
    <3>1. PICK s \in job[j].uris : unseen' = unseen \cup {FileOf(s)}
      BY <2>6 DEF RefreshFails
    <3>2. FileOf(s) \in Source
      BY <1>f, <2>t DEF JobState
    <3>3. UNCHANGED << folders, root, watching, complete, shared, raced >>
      BY <2>6 DEF RefreshFails, Works
    <3> QED
      BY <1>2, <3>1, <3>2, <3>3 DEF Rooted
  <2> QED
    BY <1>3, <2>1, <2>2, <2>3, <2>4, <2>5, <2>6 DEF JobStep
<1>4. CASE \/ UNCHANGED wVars
           \/ \E w \in Writer :
                Step(w) /\ UNCHANGED << sources, workspace, job, reported, events, history >>
           \/ \E j \in Job : DidChangeWatchedFiles(j)
           \/ \E f \in Source : DiskWrite(f)
           \/ \E j \in Job, s \in File : DidSave(j, s)
           \/ \E s \in File : DidOpen(s) \/ DidChange(s) \/ Analyze(s) \/ DidClose(s)
  <2>1. UNCHANGED << folders, root, watching, complete, shared, raced >>
    BY <1>4 DEF wVars, DidChangeWatchedFiles, DiskWrite, DidSave, DidOpen, DidChange, Analyze,
                DidClose
  <2>2. unseen' \subseteq unseen \cup reported \cup Source
    BY <1>4 DEF wVars, DidChangeWatchedFiles, DiskWrite, DidSave, DidOpen, DidChange, Analyze,
                DidClose
  <2> QED
    BY <1>2, <2>1, <2>2 DEF Rooted, Shape, SourcesTyped
<1>5. CASE \E j \in Job, removed \in SUBSET Folder, added \in {<< >>} \cup {<< d >> : d \in Folder} :
             ChangeFolders(j, removed, added)
  BY <1>5, FoldersRooted
<1> QED
  BY <1>3, <1>4, <1>5 DEF WNext

(* WTypeOK: the indexes and the jobs hold what the code can put in them, the *)
(* root is the first folder while there is one, and reports are asked for    *)
(* only once the scan that starts with the server is done.                   *)
THEOREM ScanTypeCorrect == WSpec => []WTypeOK
<1> DEFINE Inv == Shape /\ InStep /\ Overlays /\ HandsKnown /\ Layered /\ Rooted
<1>1. WInit => Rooted
  <2> SUFFICES ASSUME WInit PROVE Rooted
    OBVIOUS
  <2>1. PICK w \in Initial : folders = w.folders
    BY DEF WInit
  <2>2. folders \in Seq(Folder) /\ \A i, k \in DOMAIN folders : folders[i] = folders[k] => i = k
    BY <2>1, InitialAssumption
  <2>3. root = IF folders = << >> THEN Null ELSE folders[1]
    BY DEF WInit
  <2>4. folders # << >> => folders[1] \in Folder /\ Head(folders) = folders[1]
    BY <2>2
  <2>5. watching = FALSE /\ unseen = {} /\ shared = {} /\ raced = {}
    BY DEF WInit
  <2> QED
    BY <2>2, <2>3, <2>4, <2>5, FolderAssumption DEF Rooted
<1>2. WInit => Inv
  BY <1>1, InitTyped, InitInStep, InitOverlays, InitLayered
<1>3. Inv /\ [WNext]_wVars => Inv'
  <2> SUFFICES ASSUME Inv, [WNext]_wVars PROVE Inv'
    OBVIOUS
  <2>1. folders \in Seq(Folder)
    BY DEF Rooted
  <2> QED
    BY <2>1, NextIndex, NextShape, NextOverlays, NextLayered, NextRooted
<1>4. Inv => WTypeOK
  <2> SUFFICES ASSUME Inv PROVE WTypeOK
    OBVIOUS
  <2>1. TypeOK
    <3>1. \A w \in Writer : writer[w] \in WriterState
      BY DEF Shape, Typed
    <3>2. \A w \in Writer : /\ DOMAIN writer[w].pending \subseteq Name
                            /\ \A n \in DOMAIN writer[w].pending :
                                 writer[w].pending[n] \in Loc \cup {Null}
      <4> SUFFICES ASSUME NEW w \in Writer
                   PROVE  /\ DOMAIN writer[w].pending \subseteq Name
                          /\ \A n \in DOMAIN writer[w].pending :
                               writer[w].pending[n] \in Loc \cup {Null}
        OBVIOUS
      <4>1. PICK S \in SUBSET Name : writer[w].pending \in [S -> Loc \cup {Null}]
        BY <3>1 DEF WriterState, Pending
      <4> QED
        BY <4>1
    <3> QED
      BY <3>1, <3>2 DEF TypeOK, Shape, Typed, WriterState, Layers
  <2>2. \A j \in Job : /\ job[j].pc = "symbols" => job[j].uri \in DOMAIN job[j].texts
                       /\ DOMAIN job[j].texts \subseteq File
                       /\ job[j].uris # {} => job[j].pc # "idle"
    <3> SUFFICES ASSUME NEW j \in Job
                 PROVE  /\ job[j].pc = "symbols" => job[j].uri \in DOMAIN job[j].texts
                        /\ DOMAIN job[j].texts \subseteq File
                        /\ job[j].uris # {} => job[j].pc # "idle"
      OBVIOUS
    <3>1. job[j].pc = "symbols" => job[j].uri \in DOMAIN job[j].texts
      BY DEF Shape, JobsTyped, Ready
    <3>2. DOMAIN job[j].texts \subseteq File
      BY InHand
    <3>3. job[j].pc = "idle" => job[j].uris = {}
      BY DEF HandsKnown, HandKnown, IdleJob
    <3> QED
      BY <3>1, <3>2, <3>3
  <2> QED
    BY <2>1, <2>2 DEF WTypeOK, Shape, SourcesTyped, Rooted
<1> QED
  BY <1>2, <1>3, <1>4, PTL DEF WSpec
=============================================================================
