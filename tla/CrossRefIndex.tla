---------------------------- MODULE CrossRefIndex ----------------------------
(***************************************************************************)
(* The workspace index of the language server (eventb-lsp,                 *)
(* cross_references.rs): which components each file declares, on disk and  *)
(* in the open buffer that shadows it, which files declare each name, and  *)
(* the dependency graph's node for each name.                              *)
(*                                                                         *)
(* Writers are the threads that index: analyses, the workspace scan and    *)
(* the watched-file and save refreshes.  Each runs write_layer, whose      *)
(* steps are separated here where the code holds no lock across them: the  *)
(* edit of the layers, each update of the name index, each lookup of a     *)
(* declaration, the one write of the graph, the generation.                *)
(*                                                                         *)
(* A file is a canonical identity (DocumentUris::key has been applied) and *)
(* files are ordered as numbers.  A file with no layers and a file the map *)
(* does not hold are one state: nothing but all_component_uris tells them  *)
(* apart, and write_layer drops the entry itself.                          *)
(***************************************************************************)
EXTENDS Naturals, Sequences

CONSTANTS
    File,           \* file identities, numbers that order as the URIs do
    Name,           \* component names
    Edges,          \* what a component refines, sees or extends
    Layer,          \* what one layer of a file may declare: sequences of Loc
    Writer,         \* threads that index
    MaxGeneration,  \* bound on the writes, for model checking
    Null

Kind == {"context", "machine"}
Loc == [name : Name, kind : Kind, edges : Edges]

ASSUME FileAssumption == File \subseteq Nat
ASSUME LayerAssumption == Layer \subseteq Seq(Loc) /\ << >> \in Layer
ASSUME NullAssumption == Null \notin File /\ Null \notin Edges /\ Null \notin Loc /\ Null \notin Layer

VARIABLES
    documents,      \* file -> its saved layer and its open overlay, or Null
    name_to_uris,   \* name -> the files indexed as declaring it
    graph,          \* name -> kind -> the edges of its node, or Null
    generation,     \* how many writes the index has taken
    writer          \* per writer: its write_layer in progress

vars == << documents, name_to_uris, graph, generation, writer >>

Idle == [pc |-> "idle", uri |-> Null, overlay |-> FALSE, insert |-> {}, forget |-> {},
         unread |-> {}, pending |-> << >>]

(* DocumentComponents::effective: an open buffer answers for its file.       *)
Effective(d) == IF d.open # Null THEN d.open ELSE d.disk

DeclaredNames(layer) == {layer[i].name : i \in DOMAIN layer}

(* The first component of name n a layer declares.                           *)
FirstOf(layer, n) ==
    layer[CHOOSE i \in DOMAIN layer : /\ layer[i].name = n
                                      /\ \A j \in 1 .. i - 1 : layer[j].name # n]

Declares(f, n) == n \in DeclaredNames(Effective(documents[f]))

(* The declaration that represents n, when only the files of fs are asked:   *)
(* the first one in the lowest file.                                         *)
Representative(fs, n) ==
    LET owners == {f \in fs : Declares(f, n)} IN
    IF owners = {} THEN Null
    ELSE FirstOf(Effective(documents[CHOOSE f \in owners : \A g \in owners : f <= g]), n)

(* The nodes rewrite_in leaves for a declaration: the other kind's goes.     *)
NoNode == [k \in Kind |-> Null]
Node(loc) == IF loc = Null THEN NoNode
             ELSE [k \in Kind |-> IF k = loc.kind THEN loc.edges ELSE Null]

Init ==
    /\ documents = [f \in File |-> [disk |-> << >>, open |-> Null]]
    /\ name_to_uris = [n \in Name |-> {}]
    /\ graph = [n \in Name |-> NoNode]
    /\ generation = 0
    /\ writer = [w \in Writer |-> Idle]

-----------------------------------------------------------------------------
(* write_layer: the edit runs under the entry's lock and tells whether it    *)
(* moved what the file answers with.                                         *)

WriteLayer(w, f, overlay, new, moved) ==
    /\ writer[w].pc = "idle"
    /\ generation < MaxGeneration
    /\ documents' = [documents EXCEPT ![f] = new]
    /\ LET before == DeclaredNames(Effective(documents[f]))
           after == DeclaredNames(Effective(new))
       IN writer' = [writer EXCEPT ![w] =
            IF moved THEN [Idle EXCEPT !.pc = "index", !.uri = f, !.overlay = overlay,
                                       !.insert = after, !.forget = before \ after,
                                       !.unread = before \cup after]
            ELSE [Idle EXCEPT !.pc = "bump", !.uri = f, !.overlay = overlay]]
    /\ UNCHANGED << name_to_uris, graph, generation >>

(* Writes of a file's overlay take turns: an analysis commits under the      *)
(* buffer's diagnostic lock and its read guard, which a close must write.    *)
OverlayFree(f) == \A v \in Writer : ~ (writer[v].overlay /\ writer[v].uri = f)

IndexComponents(w, f, layer) ==
    /\ OverlayFree(f)
    /\ WriteLayer(w, f, TRUE, [documents[f] EXCEPT !.open = layer],
                  documents[f].open # layer)

(* Mutant: a save that changes only what a machine sees moves nothing.       *)
IndexDiskByName(w, f, layer) ==
    WriteLayer(w, f, FALSE, [documents[f] EXCEPT !.disk = layer],
               /\ documents[f].open = Null
               /\ DeclaredNames(documents[f].disk) # DeclaredNames(layer))

(* The workspace scan, a save and a watched file write the saved layer,      *)
(* alongside any of the others.                                              *)
IndexDiskComponents(w, f, layer) ==
    WriteLayer(w, f, FALSE, [documents[f] EXCEPT !.disk = layer],
               documents[f].open = Null /\ documents[f].disk # layer)

RemoveDocument(w, f) ==
    /\ OverlayFree(f)
    /\ WriteLayer(w, f, TRUE, [documents[f] EXCEPT !.open = Null],
                  documents[f].open # Null /\ documents[f].open # documents[f].disk)

(* Mutant: the removal of a file's saved layer never shows.                  *)
RemoveDiskQuietly(w, f) ==
    WriteLayer(w, f, FALSE, [documents[f] EXCEPT !.disk = << >>], FALSE)

RemoveDiskDocument(w, f) ==
    WriteLayer(w, f, FALSE, [documents[f] EXCEPT !.disk = << >>],
               documents[f].open = Null /\ documents[f].disk # << >>)

(* The name index: every name declared now, then every name dropped.         *)
InsertName(w) ==
    /\ writer[w].pc = "index"
    /\ \E n \in writer[w].insert :
        /\ name_to_uris' = [name_to_uris EXCEPT ![n] = @ \cup {writer[w].uri}]
        /\ writer' = [writer EXCEPT ![w].insert = @ \ {n}]
    /\ UNCHANGED << documents, graph, generation >>

ForgetDeclaration(w) ==
    /\ writer[w].pc = "index"
    /\ writer[w].insert = {}
    /\ \E n \in writer[w].forget :
        /\ name_to_uris' = [name_to_uris EXCEPT ![n] = @ \ {writer[w].uri}]
        /\ writer' = [writer EXCEPT ![w].forget = @ \ {n}]
    /\ UNCHANGED << documents, graph, generation >>

(* The names a write has still to draw anew: those before or after its edit. *)
Rebuilds(w) == writer[w].unread \cup DOMAIN writer[w].pending

(* rebuild_names: every declaration is looked up before the graph is locked. *)
(* A lookup holds the name's entry and is one step here, though it visits    *)
(* the files one after another: an edit between two of them is of a write    *)
(* that rebuilds the name as well.                                           *)
ReadDeclaration(w) ==
    /\ writer[w].pc = "index"
    /\ writer[w].insert = {} /\ writer[w].forget = {}
    /\ \E n \in writer[w].unread :
        writer' = [writer EXCEPT ![w].unread = @ \ {n},
                     ![w].pending = [x \in DOMAIN @ \cup {n} |->
                        IF x = n THEN Representative(name_to_uris[n], n) ELSE @[x]]]
    /\ UNCHANGED << documents, name_to_uris, graph, generation >>

WriteGraph(w) ==
    /\ writer[w].pc = "index"
    /\ writer[w].insert = {} /\ writer[w].forget = {} /\ writer[w].unread = {}
    /\ graph' = [n \in Name |-> IF n \in DOMAIN writer[w].pending
                                THEN Node(writer[w].pending[n]) ELSE graph[n]]
    /\ writer' = [writer EXCEPT ![w].pc = "bump", ![w].pending = << >>]
    /\ UNCHANGED << documents, name_to_uris, generation >>

(* Mutant: only a write under no overlay counts.                             *)
BumpSaved(w) ==
    /\ writer[w].pc = "bump"
    /\ generation' = IF writer[w].overlay THEN generation ELSE generation + 1
    /\ writer' = [writer EXCEPT ![w] = Idle]
    /\ UNCHANGED << documents, name_to_uris, graph >>

Bump(w) ==
    /\ writer[w].pc = "bump"
    /\ generation' = generation + 1
    /\ writer' = [writer EXCEPT ![w] = Idle]
    /\ UNCHANGED << documents, name_to_uris, graph >>

Step(w) ==
    InsertName(w) \/ ForgetDeclaration(w) \/ ReadDeclaration(w) \/ WriteGraph(w) \/ Bump(w)

-----------------------------------------------------------------------------
(* Properties.                                                              *)

(* Types: a name or file the code's maps do not hold stands for its empty    *)
(* entry, and every node of the graph is a declaration's.                    *)
TypeOK ==
    /\ documents \in [File -> [disk : Layer, open : Layer \cup {Null}]]
    /\ name_to_uris \in [Name -> SUBSET File]
    /\ graph \in [Name -> [Kind -> Edges \cup {Null}]]
    /\ generation \in Nat
    /\ \A w \in Writer :
        /\ writer[w].pc \in {"idle", "index", "bump"}
        /\ writer[w].uri \in File \cup {Null}
        /\ writer[w].overlay \in BOOLEAN
        /\ writer[w].insert \subseteq Name
        /\ writer[w].forget \subseteq Name
        /\ writer[w].unread \subseteq Name
        /\ DOMAIN writer[w].pending \subseteq Name
        /\ \A n \in DOMAIN writer[w].pending : writer[w].pending[n] \in Loc \cup {Null}

AtRest == \A w \in Writer : writer[w].pc = "idle"

(* "Kind-aware (a context and a machine may share a name)": a declaration of *)
(* either kind is found by contains(kind, name).                             *)
(* The code does not keep it; no run checks it.                             *)
ContainsEveryKind ==
    AtRest => \A f \in File : \A i \in DOMAIN Effective(documents[f]) :
        LET loc == Effective(documents[f])[i] IN graph[loc.name][loc.kind] # Null
=============================================================================
