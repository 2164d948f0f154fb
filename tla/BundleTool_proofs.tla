-------------------------- MODULE BundleTool_proofs --------------------------
(* Proofs about module BundleTool. *)
EXTENDS BundleTool, TLAPS, FiniteSetTheorems, WellFoundedInduction

-----------------------------------------------------------------------------
(* The inductive invariant *)

\* A directory that exists: each file missing, cut off or of some document.
LayerFiles == [Files -> Contents \cup {Absent, Part}]

Ops == {"none", "add", "remove", "retire"}

PCs == {"done", "rm", "mkdir", "open", "write", "openRes", "writeRes"}

Commands ==
    [op : Ops, pc : PCs, version : Versions \cup {Absent}, doc : Docs \cup {Absent},
     force : BOOLEAN, file : 0..3, was : Resolutions \cup {Absent, Part},
     out : Resolutions \cup {Absent}]

Types ==
    /\ layers \in [Versions -> LayerFiles \cup {NoDir}]
    /\ res \in Resolutions \cup {Absent, Part}
    /\ cmd \in Commands

\* The files of one directory are of one document.
OneDocument(l) ==
    \A f, g \in Files :
        l[f] \in Contents /\ l[g] \in Contents => l[f].doc = l[g].doc

\* The file before the current one is written, the current one perhaps created,
\* and no later one is there: writeLayer removed what was.
Written(l, i) ==
    l[FileOrder[i]] =
        IF i < cmd.file THEN Whole(cmd.doc)
        ELSE IF i = cmd.file /\ cmd.pc = "write" THEN Part
        ELSE Absent

Adding ==
    /\ cmd.op = "add"
    /\ cmd.version \in Versions
    /\ cmd.doc \in Docs /\ cmd.doc.version = cmd.version
    /\ \/ cmd.pc = "rm" /\ cmd.force /\ layers[cmd.version] # NoDir
       \/ cmd.pc = "mkdir" /\ layers[cmd.version] = NoDir
       \/ /\ cmd.pc \in {"open", "write"} /\ cmd.file \in 1..3
          /\ layers[cmd.version] # NoDir
          /\ \A i \in 1..3 : Written(layers[cmd.version], i)

Removing ==
    /\ cmd.op = "remove" /\ cmd.pc = "rm"
    /\ cmd.version \in Dirs
    /\ \A w \in Dirs : cmd.version <= w
    /\ Dirs # {cmd.version}

Retiring ==
    /\ cmd.op = "retire" /\ cmd.pc \in {"openRes", "writeRes"}
    /\ cmd.version \in Versions /\ cmd.out \in Resolutions

Idle == cmd = NoCommand

IInv ==
    /\ Types
    /\ \A v \in Versions : layers[v] # NoDir => OneDocument(layers[v])
    /\ Idle \/ Adding \/ Removing \/ Retiring

-----------------------------------------------------------------------------
(* Files and directories *)

LayerMap == [Versions -> LayerFiles \cup {NoDir}]

\* writeLayer writes each of the three files once.
LEMMA FileOrderFacts ==
    /\ \A i \in 1..3 : FileOrder[i] \in Files
    /\ \A i, j \in 1..3 : i # j => FileOrder[i] # FileOrder[j]
    /\ \A f \in Files : \E i \in 1..3 : FileOrder[i] = f
<1>1. 1..3 = {1, 2, 3}
  OBVIOUS
<1>2. FileOrder[1] = "descriptors" /\ FileOrder[2] = "openapi" /\ FileOrder[3] = "versions"
  BY DEF FileOrder
<1> QED
  BY <1>1, <1>2 DEF Files

\* What a document's files say is contents, and of that document.
LEMMA WholeFacts ==
    ASSUME NEW d \in Docs
    PROVE  Whole(d) \in Contents /\ Whole(d).doc = d
           /\ Whole(d) # Absent /\ Whole(d) # Part
<1>1. Whole(d) \in Contents /\ Whole(d).doc = d
  BY ToolAssumption DEF Whole, Contents
<1> QED
  BY <1>1, FileAssumption

\* So is what is left of its manifest when the disk fills up.
LEMMA PrefixFacts ==
    ASSUME NEW d \in Docs, NEW c \in Prefixes(d)
    PROVE  c \in Contents /\ c.doc = d
<1>1. PICK k \in d.routes : c = [doc |-> d, routes |-> {rt \in d.routes : rt < k}]
  BY DEF Prefixes
<1>2. {rt \in d.routes : rt < k} \in SUBSET Routes
  BY ToolAssumption
<1> QED
  BY <1>1, <1>2 DEF Contents

\* A directory, even an empty one, is not a missing one.
LEMMA LayerFacts ==
    /\ \A l \in LayerFiles : l # NoDir
    /\ EmptyDir \in LayerFiles
    /\ \A d \in Docs : Layer(d) \in LayerFiles /\ OneDocument(Layer(d))
<1>1. ASSUME NEW l \in LayerFiles PROVE l # NoDir
  <2>1. DOMAIN l = Files /\ DOMAIN NoDir = {}
    BY DEF LayerFiles, NoDir
  <2>2. "openapi" \in Files
    BY DEF Files
  <2> QED
    BY <2>1, <2>2
<1>2. EmptyDir \in LayerFiles
  BY DEF EmptyDir, LayerFiles
<1>3. ASSUME NEW d \in Docs PROVE Layer(d) \in LayerFiles /\ OneDocument(Layer(d))
  BY WholeFacts DEF Layer, LayerFiles, OneDocument
<1> QED
  BY <1>1, <1>2, <1>3

FileSet(L, v, f, x) == [L EXCEPT ![v][f] = x]

\* One file of one directory changes.
LEMMA SetFile ==
    ASSUME NEW L \in LayerMap, NEW v \in Versions, L[v] # NoDir,
           NEW f \in Files, NEW x \in Contents \cup {Absent, Part},
           NEW M, M = FileSet(L, v, f, x)
    PROVE  /\ M \in LayerMap
           /\ M[v] \in LayerFiles
           /\ \A g \in Files : M[v][g] = IF g = f THEN x ELSE L[v][g]
           /\ \A w \in Versions : w # v => M[w] = L[w]
<1>1. L[v] \in LayerFiles
  BY DEF LayerMap
<1>2. M[v] = [L[v] EXCEPT ![f] = x]
  BY DEF LayerMap, FileSet
<1>3. M[v] \in LayerFiles
  BY <1>1, <1>2 DEF LayerFiles
<1>4. \A g \in Files : M[v][g] = IF g = f THEN x ELSE L[v][g]
  BY <1>1, <1>2 DEF LayerFiles
<1>5. \A w \in Versions : w # v => M[w] = L[w]
  BY DEF LayerMap, FileSet
<1>6. M = [w \in Versions |-> IF w = v THEN M[v] ELSE L[w]]
  BY <1>2 DEF LayerMap, FileSet
<1>7. M \in LayerMap
  BY <1>3, <1>6 DEF LayerMap
<1> QED
  BY <1>3, <1>4, <1>5, <1>7

\* One directory appears or goes.
LEMMA SetDir ==
    ASSUME NEW L \in LayerMap, NEW v \in Versions, NEW l \in LayerFiles \cup {NoDir},
           NEW M, M = [L EXCEPT ![v] = l]
    PROVE  /\ M \in LayerMap
           /\ M[v] = l
           /\ \A w \in Versions : w # v => M[w] = L[w]
  BY DEF LayerMap

-----------------------------------------------------------------------------
(* Commands *)

LEMMA CommandFacts ==
    /\ {"none", "add", "remove", "retire"} \subseteq Ops
    /\ {"done", "rm", "mkdir", "open", "write", "openRes", "writeRes"} \subseteq PCs
    /\ NoCommand \in Commands
    /\ NoCommand.op = "none" /\ NoCommand.pc = "done"
  BY DEF Ops, PCs, Commands, NoCommand

\* A step that leaves the directories and the command alone.
LEMMA Frame ==
    ASSUME IInv, UNCHANGED <<layers, cmd>>, res' \in Resolutions \cup {Absent, Part}
    PROVE  IInv'
<1>1. Types'
  BY DEF IInv, Types
<1>2. \A v \in Versions : layers'[v] # NoDir => OneDocument(layers'[v])
  BY DEF IInv
<1>3. Dirs' = Dirs
  BY DEF Dirs
<1>4. Idle' \/ Adding' \/ Removing' \/ Retiring'
  BY <1>3 DEF IInv, Idle, Adding, Removing, Retiring, Written
<1> QED
  BY <1>1, <1>2, <1>4 DEF IInv

\* A step after which no command is carried out.
LEMMA Ended ==
    ASSUME cmd' = NoCommand, layers' \in LayerMap,
           \A v \in Versions : layers'[v] # NoDir => OneDocument(layers'[v]),
           res' \in Resolutions \cup {Absent, Part}
    PROVE  IInv'
<1>1. Types'
  BY CommandFacts DEF Types, LayerMap
<1>2. Idle'
  BY DEF Idle
<1> QED
  BY <1>1, <1>2 DEF IInv

LEMMA InitHolds == Init => IInv
<1> SUFFICES ASSUME Init PROVE IInv
  OBVIOUS
<1>1. PICK c \in Committed :
        layers = [v \in Versions |-> IF c[v] = Absent THEN NoDir ELSE Layer(c[v])]
  BY DEF Init
<1>2. c \in [Versions -> Docs \cup {Absent}]
  BY FileAssumption
<1>3. \A v \in Versions : layers[v] = NoDir \/ \E d \in Docs : layers[v] = Layer(d)
  BY <1>1, <1>2
<1>4. \A v \in Versions : layers[v] \in LayerFiles \cup {NoDir}
  BY <1>3, LayerFacts
<1>5. layers \in [Versions -> LayerFiles \cup {NoDir}]
  BY <1>1, <1>4
<1>6. \A v \in Versions : layers[v] # NoDir => OneDocument(layers[v])
  BY <1>3, LayerFacts
<1>7. Types /\ Idle
  BY <1>5, CommandFacts DEF Init, Types, Idle
<1> QED
  BY <1>6, <1>7 DEF IInv

-----------------------------------------------------------------------------
(* add *)

LEMMA AddStartStep ==
    ASSUME IInv, NEW d \in Docs, NEW force \in BOOLEAN, AddStart(d, force)
    PROVE  IInv'
<1> USE DEF AddStart
<1>1. CASE ~ d.accepted \/ (d.version \in Dirs /\ ~ force)
  <2>1. UNCHANGED <<layers, res, cmd>>
    BY <1>1 DEF ExitAtOnce
  <2> QED
    BY <2>1, Frame DEF IInv, Types
<1>2. CASE ~ (~ d.accepted \/ (d.version \in Dirs /\ ~ force))
  <2>1. d.version \in Versions
    BY ToolAssumption
  <2>2. cmd' = [NoCommand EXCEPT !.op = "add", !.version = d.version, !.doc = d,
                                 !.force = force, !.pc = FirstStep(d.version)]
    BY <1>2
  <2>3. /\ cmd'.op = "add" /\ cmd'.version = d.version /\ cmd'.doc = d
        /\ cmd'.force = force /\ cmd'.pc = FirstStep(d.version)
    BY <2>2 DEF NoCommand
  <2>4. FirstStep(d.version) \in {"rm", "mkdir"}
    BY DEF FirstStep
  <2>5. cmd' \in Commands
    BY <2>1, <2>2, <2>4, CommandFacts DEF Commands, NoCommand
  <2>6. UNCHANGED <<layers, res>>
    OBVIOUS
  <2>7. Adding'
    BY <1>2, <2>1, <2>3, <2>6 DEF Adding, FirstStep, Dirs
  <2> QED
    BY <2>5, <2>6, <2>7 DEF IInv, Types
<1> QED
  BY <1>1, <1>2

\* What a command that removes files is.
LEMMA RmFacts ==
    ASSUME IInv, cmd.pc = "rm"
    PROVE  /\ Adding \/ Removing
           /\ cmd.version \in Versions /\ layers[cmd.version] # NoDir
           /\ layers[cmd.version] \in LayerFiles
<1>1. Adding \/ Removing
  BY CommandFacts DEF IInv, Idle, Retiring
<1>2. cmd.version \in Versions /\ layers[cmd.version] # NoDir
  BY <1>1 DEF Adding, Removing, Dirs
<1> QED
  BY <1>1, <1>2 DEF IInv, Types

LEMMA RemoveFileStep ==
    ASSUME IInv, RemoveFile
    PROVE  IInv'
<1> DEFINE v == cmd.version
<1>1. cmd.pc = "rm" /\ UNCHANGED <<res, cmd>>
  BY DEF RemoveFile
<1>2. PICK f \in Files : layers' = FileSet(layers, v, f, Absent)
  BY DEF RemoveFile, FileSet
<1>3. v \in Versions /\ layers[v] # NoDir /\ layers \in LayerMap
  BY <1>1, RmFacts DEF IInv, Types, LayerMap
<1>4. /\ layers' \in LayerMap
      /\ layers'[v] \in LayerFiles
      /\ \A g \in Files : layers'[v][g] = IF g = f THEN Absent ELSE layers[v][g]
      /\ \A w \in Versions : w # v => layers'[w] = layers[w]
  BY <1>2, <1>3, SetFile
<1>5. layers'[v] # NoDir
  BY <1>4, LayerFacts
<1>6. OneDocument(layers'[v])
  BY <1>3, <1>4, FileAssumption DEF IInv, OneDocument
<1>7. \A w \in Versions : layers'[w] # NoDir => OneDocument(layers'[w])
  BY <1>4, <1>6 DEF IInv
<1>8. Types'
  BY <1>1, <1>4 DEF IInv, Types, LayerMap
<1>9. Dirs' = Dirs
  BY <1>3, <1>4, <1>5 DEF Dirs
<1>10. Adding' \/ Removing'
  <2>1. CASE Adding
    BY <1>1, <1>5, <2>1 DEF Adding
  <2>2. CASE Removing
    BY <1>1, <1>9, <2>2 DEF Removing
  <2> QED
    BY <1>1, <2>1, <2>2, RmFacts
<1> QED
  BY <1>7, <1>8, <1>10 DEF IInv

LEMMA RemoveDirStep ==
    ASSUME IInv, RemoveDir
    PROVE  IInv'
<1> DEFINE v == cmd.version
<1>1. cmd.pc = "rm" /\ UNCHANGED res /\ layers' = [layers EXCEPT ![v] = NoDir]
  BY DEF RemoveDir
<1>2. v \in Versions /\ layers \in LayerMap
  BY <1>1, RmFacts DEF IInv, Types, LayerMap
<1>3. /\ layers' \in LayerMap
      /\ layers'[v] = NoDir
      /\ \A w \in Versions : w # v => layers'[w] = layers[w]
  BY <1>1, <1>2 DEF LayerMap
<1>4. \A w \in Versions : layers'[w] # NoDir => OneDocument(layers'[w])
  BY <1>3 DEF IInv
<1>5. CASE cmd.op = "add"
  <2>1. cmd' = [cmd EXCEPT !.pc = "mkdir"]
    BY <1>5 DEF RemoveDir
  <2>2. cmd' \in Commands /\ cmd'.pc = "mkdir" /\ cmd'.op = "add"
        /\ cmd'.version = v /\ cmd'.doc = cmd.doc /\ cmd'.force = cmd.force
    BY <1>5, <2>1, CommandFacts DEF IInv, Types, Commands
  <2>3. Adding
    BY <1>1, <1>5, RmFacts DEF Removing
  <2>4. Adding'
    BY <1>3, <2>2, <2>3 DEF Adding
  <2> QED
    BY <1>1, <1>3, <1>4, <2>2, <2>4 DEF IInv, Types, LayerMap
<1>6. CASE cmd.op # "add"
  <2>1. cmd' = NoCommand
    BY <1>6 DEF RemoveDir, Exit
  <2> QED
    BY <1>1, <1>3, <1>4, <2>1, Ended DEF IInv, Types
<1> QED
  BY <1>5, <1>6

LEMMA MkdirAllStep ==
    ASSUME IInv, MkdirAll
    PROVE  IInv'
<1> DEFINE v == cmd.version
<1>1. Adding /\ cmd.pc = "mkdir" /\ layers[v] = NoDir
  BY CommandFacts DEF IInv, MkdirAll, Idle, Adding, Removing, Retiring
<1>2. v \in Versions /\ layers \in LayerMap
  BY <1>1 DEF IInv, Types, LayerMap, Adding
<1>3. layers' = [layers EXCEPT ![v] = EmptyDir] /\ UNCHANGED res
  BY <1>1 DEF MkdirAll
<1>4. /\ layers' \in LayerMap
      /\ layers'[v] = EmptyDir
      /\ \A w \in Versions : w # v => layers'[w] = layers[w]
  BY <1>2, <1>3, LayerFacts DEF LayerMap
<1>5. OneDocument(EmptyDir) /\ EmptyDir # NoDir
  BY FileAssumption, LayerFacts DEF OneDocument, EmptyDir
<1>6. \A w \in Versions : layers'[w] # NoDir => OneDocument(layers'[w])
  BY <1>4, <1>5 DEF IInv
<1>7. cmd' = [cmd EXCEPT !.pc = "open", !.file = 1]
  BY DEF MkdirAll
<1>8. /\ cmd' \in Commands /\ cmd'.pc = "open" /\ cmd'.op = cmd.op /\ cmd'.file = 1
      /\ cmd'.version = v /\ cmd'.doc = cmd.doc /\ cmd'.force = cmd.force
  <2>1. 1 \in 0..3
    OBVIOUS
  <2> QED
    BY <1>7, <2>1, CommandFacts DEF IInv, Types, Commands
<1>9. \A i \in 1..3 : Written(layers[v], i)'
  <2> SUFFICES ASSUME NEW i \in 1..3 PROVE layers'[v][FileOrder[i]] = Absent
    BY <1>8 DEF Written
  <2> QED
    BY <1>4, FileOrderFacts DEF EmptyDir
<1>10. Adding'
  BY <1>1, <1>4, <1>5, <1>8, <1>9 DEF Adding
<1> QED
  BY <1>3, <1>4, <1>6, <1>8, <1>10 DEF IInv, Types, LayerMap

\* What a command that is at a file is.
LEMMA AtFile ==
    ASSUME IInv, cmd.pc \in {"open", "write"}
    PROVE  /\ Adding
           /\ cmd.version \in Versions /\ cmd.doc \in Docs /\ cmd.file \in 1..3
           /\ layers \in LayerMap /\ layers[cmd.version] # NoDir
           /\ \A i \in 1..3 : Written(layers[cmd.version], i)
<1>1. Adding
  BY CommandFacts DEF IInv, Idle, Removing, Retiring
<1> QED
  BY <1>1 DEF Adding, IInv, Types, LayerMap

\* The current file changes and nothing else does.
LEMMA FileStep ==
    ASSUME IInv, cmd.pc \in {"open", "write"},
           NEW x \in Contents \cup {Absent, Part},
           layers' = FileSet(layers, cmd.version, FileOrder[cmd.file], x)
    PROVE  /\ layers' \in LayerMap
           /\ layers'[cmd.version] \in LayerFiles
           /\ \A i \in 1..3 : layers'[cmd.version][FileOrder[i]] =
                 IF i < cmd.file THEN Whole(cmd.doc) ELSE IF i = cmd.file THEN x ELSE Absent
           /\ \A w \in Versions : w # cmd.version => layers'[w] = layers[w]
<1> DEFINE v == cmd.version
           f == FileOrder[cmd.file]
<1>1. v \in Versions /\ cmd.file \in 1..3 /\ layers \in LayerMap /\ layers[v] # NoDir
      /\ \A i \in 1..3 : Written(layers[v], i)
  BY AtFile
<1>2. f \in Files
  BY <1>1, FileOrderFacts
<1>3. /\ layers' \in LayerMap
      /\ layers'[v] \in LayerFiles
      /\ \A g \in Files : layers'[v][g] = IF g = f THEN x ELSE layers[v][g]
      /\ \A w \in Versions : w # v => layers'[w] = layers[w]
  BY <1>1, <1>2, SetFile
<1>4. ASSUME NEW i \in 1..3
      PROVE  layers'[v][FileOrder[i]] =
                IF i < cmd.file THEN Whole(cmd.doc) ELSE IF i = cmd.file THEN x ELSE Absent
  <2>1. FileOrder[i] \in Files /\ (FileOrder[i] = f <=> i = cmd.file)
    BY <1>1, FileOrderFacts
  <2>2. layers'[v][FileOrder[i]] = IF i = cmd.file THEN x ELSE layers[v][FileOrder[i]]
    BY <1>3, <2>1
  <2>3. i # cmd.file => layers[v][FileOrder[i]] = IF i < cmd.file THEN Whole(cmd.doc) ELSE Absent
    BY <1>1 DEF Written
  <2> QED
    BY <1>1, <2>2, <2>3
<1> QED
  BY <1>3, <1>4

\* A directory that holds files of one document, and others that hold none.
LEMMA OfOne ==
    ASSUME NEW l, NEW d,
           \A i \in 1..3 : l[FileOrder[i]] \in Contents => l[FileOrder[i]].doc = d
    PROVE  OneDocument(l)
<1> SUFFICES ASSUME NEW f \in Files, NEW g \in Files, l[f] \in Contents, l[g] \in Contents
             PROVE  l[f].doc = l[g].doc
  BY DEF OneDocument
<1>1. PICK i \in 1..3 : FileOrder[i] = f
  BY FileOrderFacts
<1>2. PICK j \in 1..3 : FileOrder[j] = g
  BY FileOrderFacts
<1> QED
  BY <1>1, <1>2

LEMMA OpenFileStep ==
    ASSUME IInv, OpenFile
    PROVE  IInv'
<1> DEFINE v == cmd.version
<1>1. cmd.pc = "open" /\ layers' = FileSet(layers, v, FileOrder[cmd.file], Part)
      /\ UNCHANGED res
  BY DEF OpenFile, FileSet
<1>2. Adding /\ v \in Versions /\ cmd.doc \in Docs /\ cmd.file \in 1..3
  BY <1>1, AtFile
<1>3. /\ layers' \in LayerMap
      /\ layers'[v] \in LayerFiles
      /\ \A i \in 1..3 : layers'[v][FileOrder[i]] =
            IF i < cmd.file THEN Whole(cmd.doc) ELSE IF i = cmd.file THEN Part ELSE Absent
      /\ \A w \in Versions : w # v => layers'[w] = layers[w]
  BY <1>1, FileStep
<1>4. OneDocument(layers'[v])
  <2>1. \A i \in 1..3 : layers'[v][FileOrder[i]] \in Contents
            => layers'[v][FileOrder[i]].doc = cmd.doc
    BY <1>2, <1>3, WholeFacts, FileAssumption
  <2> QED
    BY <2>1, OfOne
<1>5. \A w \in Versions : layers'[w] # NoDir => OneDocument(layers'[w])
  BY <1>3, <1>4 DEF IInv
<1>6. cmd' = [cmd EXCEPT !.pc = "write"]
  BY DEF OpenFile
<1>7. /\ cmd' \in Commands /\ cmd'.pc = "write" /\ cmd'.op = cmd.op /\ cmd'.file = cmd.file
      /\ cmd'.version = v /\ cmd'.doc = cmd.doc /\ cmd'.force = cmd.force
  BY <1>6, CommandFacts DEF IInv, Types, Commands
<1>8. layers'[v] # NoDir
  BY <1>3, LayerFacts
<1>9. \A i \in 1..3 : Written(layers[v], i)'
  BY <1>3, <1>7 DEF Written
<1>10. Adding'
  BY <1>2, <1>7, <1>8, <1>9 DEF Adding
<1> QED
  BY <1>1, <1>3, <1>5, <1>7, <1>10 DEF IInv, Types, LayerMap

LEMMA WriteFileStep ==
    ASSUME IInv, WriteFile
    PROVE  IInv'
<1> DEFINE v == cmd.version
<1>1. cmd.pc = "write" /\ layers' = FileSet(layers, v, FileOrder[cmd.file], Whole(cmd.doc))
      /\ UNCHANGED res
  BY DEF WriteFile, FileSet
<1>2. Adding /\ v \in Versions /\ cmd.doc \in Docs /\ cmd.file \in 1..3
  BY <1>1, AtFile
<1>3. /\ layers' \in LayerMap
      /\ layers'[v] \in LayerFiles
      /\ \A i \in 1..3 : layers'[v][FileOrder[i]] =
            IF i < cmd.file THEN Whole(cmd.doc)
            ELSE IF i = cmd.file THEN Whole(cmd.doc) ELSE Absent
      /\ \A w \in Versions : w # v => layers'[w] = layers[w]
  BY <1>1, <1>2, FileStep, WholeFacts
<1>4. OneDocument(layers'[v])
  <2>1. \A i \in 1..3 : layers'[v][FileOrder[i]] \in Contents
            => layers'[v][FileOrder[i]].doc = cmd.doc
    BY <1>2, <1>3, WholeFacts, FileAssumption
  <2> QED
    BY <2>1, OfOne
<1>5. \A w \in Versions : layers'[w] # NoDir => OneDocument(layers'[w])
  BY <1>3, <1>4 DEF IInv
<1>6. CASE cmd.file < 3
  <2>1. cmd' = [cmd EXCEPT !.pc = "open", !.file = @ + 1]
    BY <1>6 DEF WriteFile
  <2>2. cmd.file + 1 \in 1..3 /\ cmd.file + 1 \in 0..3
    BY <1>2, <1>6
  <2>3. /\ cmd' \in Commands /\ cmd'.pc = "open" /\ cmd'.op = cmd.op /\ cmd'.file = cmd.file + 1
        /\ cmd'.version = v /\ cmd'.doc = cmd.doc /\ cmd'.force = cmd.force
    BY <2>1, <2>2, CommandFacts DEF IInv, Types, Commands
  <2>4. layers'[v] # NoDir
    BY <1>3, LayerFacts
  <2>5. \A i \in 1..3 : Written(layers[v], i)'
    BY <1>2, <1>3, <2>3 DEF Written
  <2>6. Adding'
    BY <1>2, <2>2, <2>3, <2>4, <2>5 DEF Adding
  <2> QED
    BY <1>1, <1>3, <1>5, <2>3, <2>6 DEF IInv, Types, LayerMap
<1>7. CASE ~ (cmd.file < 3)
  <2>1. cmd' = NoCommand
    BY <1>7 DEF WriteFile, Exit
  <2> QED
    BY <1>1, <1>3, <1>5, <2>1, Ended DEF IInv, Types
<1> QED
  BY <1>6, <1>7

LEMMA ShortManifestStep ==
    ASSUME IInv, ShortManifest
    PROVE  IInv'
<1> DEFINE v == cmd.version
<1>1. cmd.pc = "write" /\ FileOrder[cmd.file] = "versions" /\ UNCHANGED res /\ cmd' = NoCommand
  BY DEF ShortManifest, Exit
<1>2. PICK c \in Prefixes(cmd.doc) : layers' = FileSet(layers, v, FileOrder[cmd.file], c)
  BY <1>1 DEF ShortManifest, FileSet
<1>3. Adding /\ v \in Versions /\ cmd.doc \in Docs /\ cmd.file \in 1..3
  BY <1>1, AtFile
<1>4. c \in Contents /\ c.doc = cmd.doc
  BY <1>2, <1>3, PrefixFacts
<1>5. /\ layers' \in LayerMap
      /\ layers'[v] \in LayerFiles
      /\ \A i \in 1..3 : layers'[v][FileOrder[i]] =
            IF i < cmd.file THEN Whole(cmd.doc) ELSE IF i = cmd.file THEN c ELSE Absent
      /\ \A w \in Versions : w # v => layers'[w] = layers[w]
  BY <1>1, <1>2, <1>4, FileStep
<1>6. OneDocument(layers'[v])
  <2>1. \A i \in 1..3 : layers'[v][FileOrder[i]] \in Contents
            => layers'[v][FileOrder[i]].doc = cmd.doc
    BY <1>3, <1>4, <1>5, WholeFacts, FileAssumption
  <2> QED
    BY <2>1, OfOne
<1>7. \A w \in Versions : layers'[w] # NoDir => OneDocument(layers'[w])
  BY <1>5, <1>6 DEF IInv
<1> QED
  BY <1>1, <1>5, <1>7, Ended DEF IInv, Types

-----------------------------------------------------------------------------
(* remove, retire, and everything else *)

LEMMA RemoveStartStep ==
    ASSUME IInv, NEW v \in Versions, RemoveStart(v)
    PROVE  IInv'
<1>1. CASE ~ Removable(v)
  <2>1. UNCHANGED <<layers, res, cmd>>
    BY <1>1 DEF RemoveStart, ExitAtOnce
  <2> QED
    BY <2>1, Frame DEF IInv, Types
<1>2. CASE Removable(v)
  <2>1. cmd' = [NoCommand EXCEPT !.op = "remove", !.version = v, !.pc = "rm"]
        /\ UNCHANGED <<layers, res>>
    BY <1>2 DEF RemoveStart
  <2>2. cmd' \in Commands /\ cmd'.op = "remove" /\ cmd'.version = v /\ cmd'.pc = "rm"
    BY <2>1, CommandFacts DEF Commands, NoCommand
  <2>3. v \in Dirs /\ (\A w \in Dirs : v <= w) /\ Cardinality(Dirs) >= 2
    BY <1>2 DEF Removable
  <2>4. Dirs # {v}
    <3>1. Cardinality({v}) = 1
      BY FS_Singleton
    <3> QED
      BY <2>3, <3>1
  <2>5. Dirs' = Dirs
    BY <2>1 DEF Dirs
  <2>6. Removing'
    BY <2>2, <2>3, <2>4, <2>5 DEF Removing
  <2> QED
    BY <2>1, <2>2, <2>6 DEF IInv, Types
<1> QED
  BY <1>1, <1>2

\* A rule that loses its selectors and error responses.
LEMMA RewrittenFacts ==
    ASSUME NEW r \in RuleSet
    PROVE  /\ Rewritten(r) \in RuleSet /\ Rewritten(r).sel = ""
           /\ Rewritten(r).version = r.version
           /\ Rewritten(r).kind = r.kind /\ Rewritten(r).target = r.target
<1> DEFINE Kinds == {"transform", "route"}
<1>1. RuleSet = [version : Versions, sel : Selectors, kind : Kinds,
                 target : Versions \cup {0}, errs : BOOLEAN]
  BY DEF RuleSet
<1> HIDE DEF Kinds
<1> QED
  BY <1>1, ToolAssumption DEF Rewritten

\* Rules written back by retire are rules.
LEMMA RewrittenRules ==
    ASSUME NEW rs \in Seq(RuleSet), NEW v \in Versions, NEW n \in Versions
    PROVE  [rules |-> Append([i \in DOMAIN rs |-> Rewritten(rs[i])], Shim(v, n)),
            marker |-> FALSE] \in Resolutions
<1> DEFINE out == [i \in DOMAIN rs |-> Rewritten(rs[i])]
<1>1. \A r \in RuleSet : Rewritten(r) \in RuleSet
  BY RewrittenFacts
<1>2. Shim(v, n) \in RuleSet
  BY ToolAssumption DEF Shim, RuleSet
<1>3. DOMAIN rs = 1..Len(rs) /\ Len(rs) \in Nat /\ \A i \in 1..Len(rs) : rs[i] \in RuleSet
  OBVIOUS
<1>4. out = [i \in 1..Len(rs) |-> Rewritten(rs[i])]
  BY <1>3
<1>5. \A i \in 1..Len(rs) : Rewritten(rs[i]) \in RuleSet
  BY <1>1, <1>3
<1>6. out \in Seq(RuleSet)
  <2> HIDE DEF out
  <2> QED
    BY <1>3, <1>4, <1>5
<1>7. Append(out, Shim(v, n)) \in Seq(RuleSet)
  <2> HIDE DEF out
  <2> QED
    BY <1>2, <1>6
<1> QED
  BY <1>7 DEF Resolutions

\* Versions are compared as numbers, and there is a least one of any.
LEMMA LeastVersion ==
    ASSUME NEW S \in SUBSET Versions, S # {}
    PROVE  \E w \in S : \A x \in S : w <= x
<1> DEFINE R == OpToRel(<, Nat)
<1>1. IsWellFoundedOn(R, Nat)
  BY NatLessThanWellFounded
<1>2. S \subseteq Nat
  BY ToolAssumption
<1>3. PICK w \in S : \A x \in S : ~ (<<x, w>> \in R)
  <2> HIDE DEF R
  <2> QED
    BY <1>1, <1>2, WFMin
<1>4. \A x \in S : ~ (x < w)
  BY <1>2, <1>3 DEF OpToRel
<1> QED
  BY <1>2, <1>4

LEMMA NeighbourIsVersion ==
    ASSUME NEW v \in Versions, \E w \in Dirs : ~ (w <= v)
    PROVE  Neighbour(v) \in Dirs /\ Neighbour(v) \in Versions /\ Neighbour(v) > v
<1> DEFINE newer == {w \in Dirs : w > v}
<1>1. newer \in SUBSET Versions /\ newer # {}
  <2>1. \A w \in Dirs : w \in Versions /\ w \in Nat
    BY ToolAssumption DEF Dirs
  <2>2. v \in Nat
    BY ToolAssumption
  <2>3. \E w \in Dirs : w > v
    BY <2>1, <2>2
  <2> QED
    BY <2>1, <2>3
<1>2. \E w \in newer : \A x \in newer : w <= x
  <2> HIDE DEF newer
  <2> QED
    BY <1>1, LeastVersion
<1>3. Neighbour(v) \in newer
  BY <1>2 DEF Neighbour
<1> QED
  BY <1>3 DEF Dirs

LEMMA RulesOfFile ==
    ASSUME IInv, res # Part
    PROVE  RulesOf(res) \in Seq(RuleSet)
<1>1. CASE res = Absent
  BY <1>1 DEF RulesOf
<1>2. CASE res # Absent
  BY <1>2 DEF RulesOf, IInv, Types, Resolutions
<1> QED
  BY <1>1, <1>2

LEMMA RetireStartStep ==
    ASSUME IInv, NEW v \in Versions, RetireStart(v)
    PROVE  IInv'
<1>1. CASE RetireRefused(v)
  <2>1. UNCHANGED <<layers, res, cmd>>
    BY <1>1 DEF RetireStart, ExitAtOnce
  <2> QED
    BY <2>1, Frame DEF IInv, Types
<1>2. CASE ~ RetireRefused(v)
  <2> DEFINE rs  == RulesOf(res)
             out == [rules |-> Append([i \in DOMAIN rs |-> Rewritten(rs[i])],
                                      Shim(v, Neighbour(v))),
                     marker |-> FALSE]
  <2>1. cmd' = [NoCommand EXCEPT !.op = "retire", !.version = v, !.pc = "openRes",
                                 !.was = res, !.out = out]
        /\ UNCHANGED <<layers, res>>
    BY <1>2 DEF RetireStart
  <2>2. v \in Dirs /\ (\E w \in Dirs : ~ (w <= v)) /\ res # Part
    BY <1>2 DEF RetireRefused
  <2>3. out \in Resolutions
    BY <2>2, NeighbourIsVersion, RulesOfFile, RewrittenRules
  <2>4. res \in Resolutions \cup {Absent, Part}
    BY DEF IInv, Types
  <2> HIDE DEF out
  <2>5. /\ cmd' \in Commands /\ cmd'.op = "retire" /\ cmd'.version = v
        /\ cmd'.pc = "openRes" /\ cmd'.out = out
    BY <2>1, <2>3, <2>4, CommandFacts DEF Commands, NoCommand
  <2>6. Retiring'
    BY <2>3, <2>5 DEF Retiring
  <2> QED
    BY <2>1, <2>5, <2>6 DEF IInv, Types
<1> QED
  BY <1>1, <1>2

\* What a command that is at resolution.yaml is.
LEMMA AtResolution ==
    ASSUME IInv, cmd.pc \in {"openRes", "writeRes"}
    PROVE  Retiring
  BY CommandFacts DEF IInv, Idle, Adding, Removing

LEMMA OpenResolutionStep ==
    ASSUME IInv, OpenResolution
    PROVE  IInv'
<1>1. Retiring
  BY AtResolution DEF OpenResolution
<1>2. cmd' = [cmd EXCEPT !.pc = "writeRes"] /\ res' = Part /\ UNCHANGED layers
  BY DEF OpenResolution
<1>3. /\ cmd' \in Commands /\ cmd'.pc = "writeRes" /\ cmd'.op = cmd.op
      /\ cmd'.version = cmd.version /\ cmd'.out = cmd.out
  BY <1>2, CommandFacts DEF IInv, Types, Commands
<1>4. Retiring'
  BY <1>1, <1>3 DEF Retiring
<1> QED
  BY <1>2, <1>3, <1>4 DEF IInv, Types

LEMMA ResolutionWritten ==
    ASSUME IInv, WriteResolution \/ ShortResolution
    PROVE  IInv' /\ res' \in Resolutions /\ cmd' = NoCommand /\ UNCHANGED layers /\ Retiring
<1>1. Retiring /\ UNCHANGED layers /\ cmd' = NoCommand
  BY AtResolution DEF WriteResolution, ShortResolution, Exit
<1>2. cmd.out \in Resolutions
  BY <1>1 DEF Retiring
<1>3. res' \in Resolutions
  <2>1. CASE WriteResolution
    BY <1>2, <2>1 DEF WriteResolution
  <2>2. CASE ShortResolution
    <3>1. PICK k \in 0..Len(cmd.out.rules) - 1 :
            res' = [cmd.out EXCEPT !.rules = SubSeq(cmd.out.rules, 1, k)]
      BY <2>2 DEF ShortResolution
    <3>2. cmd.out.rules \in Seq(RuleSet)
      BY <1>2 DEF Resolutions
    <3>3. SubSeq(cmd.out.rules, 1, k) \in Seq(RuleSet)
      BY <3>2
    <3> QED
      BY <1>2, <3>1, <3>3 DEF Resolutions
  <2> QED
    BY <2>1, <2>2
<1> QED
  BY <1>1, <1>3, Ended DEF IInv, Types, LayerMap

LEMMA EditStep ==
    ASSUME IInv, Edit
    PROVE  IInv' /\ res' \in Resolutions
<1>1. PICK e \in Edits : res' = e
  BY DEF Edit
<1>2. res' \in Resolutions
  BY <1>1, FileAssumption
<1> QED
  BY <1>2, Frame DEF Edit

\* Every step.
LEMMA StepHolds == IInv /\ [Next]_vars => IInv'
<1> SUFFICES ASSUME IInv, [Next]_vars PROVE IInv'
  OBVIOUS
<1>1. ASSUME NEW d \in Docs, NEW force \in BOOLEAN, AddStart(d, force) PROVE IInv'
  BY <1>1, AddStartStep
<1>2. ASSUME NEW v \in Versions, RemoveStart(v) PROVE IInv'
  BY <1>2, RemoveStartStep
<1>3. ASSUME NEW v \in Versions, RetireStart(v) PROVE IInv'
  BY <1>3, RetireStartStep
<1>4. CASE RemoveFile
  BY <1>4, RemoveFileStep
<1>5. CASE RemoveDir
  BY <1>5, RemoveDirStep
<1>6. CASE MkdirAll
  BY <1>6, MkdirAllStep
<1>7. CASE OpenFile
  BY <1>7, OpenFileStep
<1>8. CASE WriteFile
  BY <1>8, WriteFileStep
<1>9. CASE ShortManifest
  BY <1>9, ShortManifestStep
<1>10. CASE OpenResolution
  BY <1>10, OpenResolutionStep
<1>11. CASE WriteResolution \/ ShortResolution
  BY <1>11, ResolutionWritten
<1>12. CASE Interrupt
  BY <1>12, Ended DEF Interrupt, Exit, IInv, Types, LayerMap
<1>13. CASE Edit
  BY <1>13, EditStep
<1>14. CASE Verify
  BY <1>14, Frame DEF Verify, ExitAtOnce, IInv, Types
<1>15. CASE LoadStart \/ LoadResolution \/ LoadFile \/ LoadEnd
  BY <1>15, Frame DEF LoadStart, LoadResolution, LoadFile, LoadEnd, IInv, Types
<1>16. CASE UNCHANGED vars
  BY <1>16, Frame DEF vars, IInv, Types
<1> QED
  BY <1>1, <1>2, <1>3, <1>4, <1>5, <1>6, <1>7, <1>8, <1>9, <1>10, <1>11, <1>12, <1>13,
     <1>14, <1>15, <1>16 DEF Next

LEMMA Invariant == Spec => []IInv
  BY InitHolds, StepHolds, PTL DEF Spec

-----------------------------------------------------------------------------
(* The theorems *)

\* docs/concepts.md:59-66, bundlegen.go:396-404: for any documents, any number of
\* versions and commands, and wherever commands are interrupted, the files of a
\* layer are never those of two documents.
THEOREM OneDocumentPerLayerHolds == Spec => []OneDocumentPerLayer
<1>1. IInv => OneDocumentPerLayer
  <2> SUFFICES ASSUME IInv, NEW v \in Dirs PROVE OneDocument(layers[v])
    BY DEF OneDocumentPerLayer, OneDocument
  <2> QED
    BY DEF IInv, Dirs
<1> QED
  BY <1>1, Invariant, PTL

-----------------------------------------------------------------------------
(* The refinement *)

\* A directory is missing, whole or torn.
LEMMA VersionFacts ==
    ASSUME NEW v \in Versions
    PROVE  /\ layers[v] = NoDir => Version(v) = Absent
           /\ \A d \in Docs : layers[v] = Layer(d) => Version(v) = d
           /\ layers[v] # NoDir /\ (\A d \in Docs : layers[v] # Layer(d)) => Version(v) = Part
           /\ layers[v] # NoDir => Version(v) # Absent
           /\ Version(v) \in Docs => layers[v] = Layer(Version(v))
<1>1. \A d, e \in Docs : Layer(d) = Layer(e) => d = e
  <2> SUFFICES ASSUME NEW d \in Docs, NEW e \in Docs, Layer(d) = Layer(e) PROVE d = e
    OBVIOUS
  <2>1. "openapi" \in Files
    BY DEF Files
  <2>2. Layer(d)["openapi"] = Whole(d) /\ Layer(e)["openapi"] = Whole(e)
    BY <2>1 DEF Layer
  <2> QED
    BY <2>2, WholeFacts
<1>2. \A d \in Docs : Layer(d) # NoDir
  BY LayerFacts
<1>3. layers[v] = NoDir => Version(v) = Absent
  BY DEF Version
<1>4. ASSUME NEW d \in Docs, layers[v] = Layer(d) PROVE Version(v) = d
  BY <1>1, <1>2, <1>4 DEF Version, IsWhole
<1>5. ASSUME layers[v] # NoDir, \A d \in Docs : layers[v] # Layer(d) PROVE Version(v) = Part
  BY <1>5 DEF Version, IsWhole
<1> QED
  BY <1>3, <1>4, <1>5, ToolAssumption

\* In a torn directory some file is not of the document.
LEMMA TornFacts ==
    ASSUME NEW v \in Versions, layers[v] # NoDir, NEW f \in Files,
           \A d \in Docs : layers[v][f] # Whole(d)
    PROVE  Version(v) = Part
<1>1. \A d \in Docs : layers[v] # Layer(d)
  BY DEF Layer
<1> QED
  BY <1>1, VersionFacts

ver == [v \in Versions |-> Version(v)]

job == [op |-> cmd.op, version |-> cmd.version, force |-> cmd.force]

LEMMA KeptIsDirs == {v \in Versions : ver[v] # Absent} = Dirs
  BY VersionFacts DEF ver, Dirs

\* Nothing happened to the directories, or to one of them.
LEMMA SameVersions ==
    ASSUME layers' = layers
    PROVE  ver' = ver
  BY DEF ver, Version, IsWhole

LEMMA OneVersion ==
    ASSUME NEW u \in Versions, \A w \in Versions : w # u => layers'[w] = layers[w]
    PROVE  ver' = [ver EXCEPT ![u] = Version(u)'] /\ ver'[u] = Version(u)'
<1>1. \A w \in Versions : w # u => Version(w)' = Version(w)
  BY DEF Version, IsWhole
<1> QED
  BY <1>1 DEF ver

\* The job of a command, and none.
LEMMA JobFacts ==
    ASSUME IInv
    PROVE  /\ cmd = NoCommand => job = Dir!NoJob
           /\ job = Dir!NoJob => cmd = NoCommand
           /\ job.op = cmd.op /\ job.version = cmd.version /\ job.force = cmd.force
<1>1. job.op = cmd.op /\ job.version = cmd.version /\ job.force = cmd.force
  BY DEF job
<1>2. cmd = NoCommand => job = Dir!NoJob
  BY DEF job, NoCommand, Dir!NoJob
<1>3. job = Dir!NoJob => cmd.op = "none"
  BY <1>1 DEF Dir!NoJob
<1>4. cmd.op = "none" => cmd = NoCommand
  BY DEF IInv, Idle, Adding, Removing, Retiring
<1> QED
  BY <1>1, <1>2, <1>3, <1>4

LEMMA InitRefines == Init => Dir!Init
<1> SUFFICES ASSUME Init PROVE Dir!Init
  OBVIOUS
<1>1. PICK c \in Committed :
        layers = [v \in Versions |-> IF c[v] = Absent THEN NoDir ELSE Layer(c[v])]
  BY DEF Init
<1>2. c \in [Versions -> Docs \cup {Absent}]
      /\ \A v \in Versions : c[v] # Absent => c[v].version = v
  BY <1>1, FileAssumption
<1>3. \A v \in Versions : Version(v) = c[v]
  BY <1>1, <1>2, VersionFacts
<1>4. ver \in [Versions -> Docs \cup {Absent}]
      /\ \A v \in Versions : ver[v] # Absent => ver[v].version = v
  BY <1>2, <1>3 DEF ver
<1>5. job = Dir!NoJob /\ res = Absent
  BY DEF Init, job, NoCommand, Dir!NoJob
<1> QED
  BY <1>4, <1>5 DEF ver, job, Dir!Init

\* What the abstract actions say of ver, res and job.
Abstract == Dir!Next \/ (ver' = ver /\ UNCHANGED res /\ job' = job)

LEMMA AbstractIsDir == Abstract => [Dir!Next]_(Dir!vars)
  BY DEF Abstract, ver, job, Dir!vars

\* A command is asked for.
LEMMA AskRefines ==
    ASSUME IInv, cmd = NoCommand, UNCHANGED <<layers, res>>,
           cmd'.op \in {"add", "remove", "retire"}, cmd'.version \in Versions,
           cmd'.force \in BOOLEAN
    PROVE  Abstract
<1>1. ver' = ver
  BY SameVersions
<1>2. job = Dir!NoJob
  BY JobFacts
<1>3. job' \in Dir!Jobs
  BY DEF job, Dir!Jobs
<1>4. Dir!Ask
  BY <1>1, <1>2, <1>3 DEF Dir!Ask, ver, job
<1> QED
  BY <1>4 DEF Abstract, Dir!Next

\* A step of which nothing is seen.
LEMMA StutterRefines ==
    ASSUME layers' = layers, UNCHANGED <<res, cmd>>
    PROVE  Abstract
  BY SameVersions DEF Abstract, job

LEMMA StartRefines ==
    ASSUME IInv,
           \/ \E d \in Docs, force \in BOOLEAN : AddStart(d, force)
           \/ \E v \in Versions : RemoveStart(v) \/ RetireStart(v)
    PROVE  Abstract
<1>1. UNCHANGED <<layers, res>> /\ cmd = NoCommand
  BY DEF AddStart, RemoveStart, RetireStart, Start
<1> DEFINE Asked == /\ cmd'.op \in {"add", "remove", "retire"}
                    /\ cmd'.version \in Versions /\ cmd'.force \in BOOLEAN
<1>2. UNCHANGED cmd \/ Asked
  <2>1. ASSUME NEW d \in Docs, NEW force \in BOOLEAN, AddStart(d, force) PROVE UNCHANGED cmd \/ Asked
    BY <2>1, ToolAssumption DEF AddStart, ExitAtOnce, NoCommand
  <2>2. ASSUME NEW v \in Versions, RemoveStart(v) PROVE UNCHANGED cmd \/ Asked
    BY <2>2 DEF RemoveStart, ExitAtOnce, NoCommand
  <2>3. ASSUME NEW v \in Versions, RetireStart(v) PROVE UNCHANGED cmd \/ Asked
    BY <2>3 DEF RetireStart, ExitAtOnce, NoCommand
  <2> QED
    BY <2>1, <2>2, <2>3
<1> QED
  BY <1>1, <1>2, AskRefines, StutterRefines

\* What the command at hand may give up.
LEMMA RmIsExpendable ==
    ASSUME IInv, cmd.pc = "rm"
    PROVE  Dir!Expendable(cmd.version)
<1>1. Adding \/ Removing
  BY RmFacts
<1>2. CASE Adding
  BY <1>2 DEF Adding, Dir!Expendable
<1>3. CASE Removing
  BY <1>3, KeptIsDirs DEF Removing, Dir!Expendable, Dir!Oldest, Dir!Kept, ver
<1> QED
  BY <1>1, <1>2, <1>3

\* One directory changes.
LEMMA ChangeRefines ==
    ASSUME NEW v \in Versions, v = cmd.version, UNCHANGED res,
           \A w \in Versions : w # v => layers'[w] = layers[w]
    PROVE  Dir!Change(v, Version(v)')
<1>1. ver' = [ver EXCEPT ![v] = Version(v)']
  BY OneVersion
<1>2. job.version = v
  BY DEF job
<1> QED
  BY <1>1, <1>2 DEF Dir!Change, ver, job

LEMMA RemoveFileRefines ==
    ASSUME IInv, RemoveFile
    PROVE  Abstract
<1>0. PICK v \in Versions : v = cmd.version
  BY RmFacts DEF RemoveFile
<1>1. cmd.pc = "rm" /\ UNCHANGED <<res, cmd>>
  BY DEF RemoveFile
<1>2. PICK f \in Files : layers' = FileSet(layers, v, f, Absent)
  BY <1>0 DEF RemoveFile, FileSet
<1>3. v \in Versions /\ layers[v] # NoDir /\ layers \in LayerMap
  BY <1>0, <1>1, RmFacts DEF IInv, Types, LayerMap
<1>4. /\ layers'[v] \in LayerFiles
      /\ \A g \in Files : layers'[v][g] = IF g = f THEN Absent ELSE layers[v][g]
      /\ \A w \in Versions : w # v => layers'[w] = layers[w]
  BY <1>2, <1>3, SetFile
<1>5. Version(v)' = Part
  <2>1. layers'[v] # NoDir /\ \A d \in Docs : layers'[v][f] # Whole(d)
    BY <1>4, LayerFacts, WholeFacts
  <2>2. \A d \in Docs : layers'[v] # Layer(d)
    BY <2>1 DEF Layer
  <2> QED
    BY <2>1, <2>2 DEF Version, IsWhole
<1>6. Dir!Change(v, Version(v)')
  BY <1>0, <1>1, <1>4, ChangeRefines
<1>7. CASE Version(v) \in Docs
  <2>1. Dir!GiveUp(v)
    BY <1>1, <1>3, <1>5, <1>6, <1>7, <1>0, RmIsExpendable DEF Dir!GiveUp
  <2> QED
    BY <1>3, <2>1 DEF Abstract, Dir!Next
<1>8. CASE Version(v) \notin Docs
  <2>1. Version(v) = Part
    BY <1>3, <1>8, VersionFacts
  <2>2. ver' = ver
    <3>1. \A w \in Versions : w # v => Version(w)' = Version(w)
      BY <1>4 DEF Version, IsWhole
    <3> QED
      BY <1>5, <2>1, <3>1 DEF ver
  <2> QED
    BY <1>1, <2>2 DEF Abstract, job
<1> QED
  BY <1>7, <1>8

LEMMA RemoveDirRefines ==
    ASSUME IInv, RemoveDir
    PROVE  Abstract
<1>0. PICK v \in Versions : v = cmd.version
  BY RmFacts DEF RemoveDir
<1>1. cmd.pc = "rm" /\ UNCHANGED res /\ layers[v] = EmptyDir
      /\ layers' = [layers EXCEPT ![v] = NoDir]
  BY <1>0 DEF RemoveDir
<1>2. v \in Versions /\ layers \in LayerMap /\ layers[v] # NoDir
  BY <1>0, <1>1, RmFacts DEF IInv, Types, LayerMap
<1>3. layers'[v] = NoDir /\ \A w \in Versions : w # v => layers'[w] = layers[w]
  BY <1>1, <1>2 DEF LayerMap
<1>4. Version(v) = Part
  <2>1. "openapi" \in Files
    BY DEF Files
  <2>2. \A d \in Docs : layers[v]["openapi"] # Whole(d)
    BY <1>1, <2>1, WholeFacts DEF EmptyDir
  <2> QED
    BY <1>2, <2>1, <2>2, TornFacts
<1>5. Version(v)' = Absent
  BY <1>3 DEF Version
<1>6. Dir!Change(v, Version(v)')
  BY <1>0, <1>1, <1>3, ChangeRefines
<1>7. job' \in {job, Dir!NoJob}
  <2>1. CASE cmd.op = "add"
    <3>1. cmd' = [cmd EXCEPT !.pc = "mkdir"]
      BY <2>1 DEF RemoveDir
    <3>2. cmd'.op = cmd.op /\ cmd'.version = cmd.version /\ cmd'.force = cmd.force
      BY <3>1 DEF IInv, Types, Commands
    <3> QED
      BY <3>2 DEF job
  <2>2. CASE cmd.op # "add"
    <3>1. cmd' = NoCommand
      BY <2>2 DEF RemoveDir, Exit
    <3>2. job' = Dir!NoJob
      BY <3>1 DEF job, NoCommand, Dir!NoJob
    <3> QED
      BY <3>2
  <2> QED
    BY <2>1, <2>2
<1>8. Dir!Vanish(v)
  BY <1>1, <1>2, <1>4, <1>5, <1>6, <1>7, <1>0, RmIsExpendable DEF Dir!Vanish, job
<1> QED
  BY <1>2, <1>8 DEF Abstract, Dir!Next

LEMMA MkdirAllRefines ==
    ASSUME IInv, MkdirAll
    PROVE  Abstract
<1>1. Adding /\ cmd.pc = "mkdir"
  BY CommandFacts DEF IInv, MkdirAll, Idle, Adding, Removing, Retiring
<1>2. PICK v \in Versions : v = cmd.version
  BY <1>1 DEF Adding
<1>3. layers \in LayerMap /\ layers[v] = NoDir
  BY <1>1, <1>2 DEF Adding, IInv, Types, LayerMap
<1>4. layers' = [layers EXCEPT ![v] = EmptyDir] /\ UNCHANGED res
  BY <1>2, <1>3 DEF MkdirAll
<1>5. layers'[v] = EmptyDir /\ \A w \in Versions : w # v => layers'[w] = layers[w]
  BY <1>3, <1>4 DEF LayerMap
<1>6. Version(v) = Absent
  BY <1>3, VersionFacts
<1>7. Version(v)' = Part
  <2>1. "openapi" \in Files
    BY DEF Files
  <2>2. \A d \in Docs : EmptyDir # Layer(d)
    BY <2>1, WholeFacts DEF EmptyDir, Layer
  <2> QED
    BY <1>5, <2>2, LayerFacts DEF Version, IsWhole
<1>8. Dir!Change(v, Version(v)')
  BY <1>2, <1>4, <1>5, ChangeRefines
<1>9. job' = job
  <2>1. cmd' = [cmd EXCEPT !.pc = "open", !.file = 1]
    BY DEF MkdirAll
  <2>2. cmd'.op = cmd.op /\ cmd'.version = cmd.version /\ cmd'.force = cmd.force
    BY <2>1 DEF IInv, Types, Commands
  <2> QED
    BY <2>2 DEF job
<1>10. Dir!Begin(v)
  BY <1>1, <1>6, <1>7, <1>8, <1>9 DEF Dir!Begin, job, Adding
<1> QED
  BY <1>10 DEF Abstract, Dir!Next

\* Torn before the step and after it: nothing is seen of the directory.
LEMMA StillTorn ==
    ASSUME NEW v \in Versions, Version(v) = Part, Version(v)' = Part,
           \A w \in Versions : w # v => layers'[w] = layers[w]
    PROVE  ver' = ver
<1>1. \A w \in Versions : w # v => Version(w)' = Version(w)
  BY DEF Version, IsWhole
<1> QED
  BY <1>1 DEF ver

\* A directory whose current file is not written yet is torn.
LEMMA AtFileIsTorn ==
    ASSUME IInv, cmd.pc \in {"open", "write"}
    PROVE  Version(cmd.version) = Part
<1>1. /\ cmd.version \in Versions /\ cmd.file \in 1..3
      /\ layers[cmd.version] # NoDir
      /\ layers[cmd.version][FileOrder[cmd.file]] \in {Absent, Part}
  BY AtFile DEF Written
<1>2. FileOrder[cmd.file] \in Files
  BY <1>1, FileOrderFacts
<1> QED
  BY <1>1, <1>2, TornFacts, WholeFacts

\* After the step some file is missing, cut off or not the document's own.
LEMMA TornAfter ==
    ASSUME NEW v \in Versions, layers'[v] \in LayerFiles, NEW f \in Files,
           \A d \in Docs : layers'[v][f] # Whole(d)
    PROVE  Version(v)' = Part
<1>1. \A d \in Docs : layers'[v] # Layer(d)
  BY DEF Layer
<1> QED
  BY <1>1, LayerFacts DEF Version, IsWhole

LEMMA OpenFileRefines ==
    ASSUME IInv, OpenFile
    PROVE  Abstract
<1>1. cmd.pc = "open" /\ UNCHANGED res
      /\ layers' = FileSet(layers, cmd.version, FileOrder[cmd.file], Part)
  BY DEF OpenFile, FileSet
<1>2. PICK v \in Versions : v = cmd.version
  BY <1>1, AtFile
<1>3. /\ layers'[v] \in LayerFiles
      /\ \A i \in 1..3 : layers'[v][FileOrder[i]] =
            IF i < cmd.file THEN Whole(cmd.doc) ELSE IF i = cmd.file THEN Part ELSE Absent
      /\ \A w \in Versions : w # v => layers'[w] = layers[w]
  BY <1>1, <1>2, FileStep
<1>4. PICK i \in 1..3 : i = cmd.file
  BY <1>1, AtFile
<1>5. FileOrder[i] \in Files /\ layers'[v][FileOrder[i]] = Part
  BY <1>3, <1>4, FileOrderFacts
<1>6. Version(v)' = Part
  BY <1>3, <1>5, TornAfter, WholeFacts
<1>7. Version(v) = Part
  BY <1>1, <1>2, AtFileIsTorn
<1>8. ver' = ver
  BY <1>3, <1>6, <1>7, StillTorn
<1>9. job' = job
  <2>1. cmd' = [cmd EXCEPT !.pc = "write"]
    BY DEF OpenFile
  <2>2. cmd'.op = cmd.op /\ cmd'.version = cmd.version /\ cmd'.force = cmd.force
    BY <2>1 DEF IInv, Types, Commands
  <2> QED
    BY <2>2 DEF job
<1> QED
  BY <1>1, <1>8, <1>9 DEF Abstract

\* The end of a command of which nothing else is seen.
LEMMA FinishRefines ==
    ASSUME IInv, cmd # NoCommand, cmd' = NoCommand, ver' = ver, UNCHANGED res
    PROVE  Abstract
<1>1. job # Dir!NoJob
  BY JobFacts
<1>2. job' = Dir!NoJob
  BY DEF job, NoCommand, Dir!NoJob
<1>3. Dir!Finish
  BY <1>1, <1>2 DEF Dir!Finish, ver, job
<1> QED
  BY <1>3 DEF Abstract, Dir!Next

LEMMA WriteFileRefines ==
    ASSUME IInv, WriteFile
    PROVE  Abstract
<1>1. cmd.pc = "write" /\ UNCHANGED res
      /\ layers' = FileSet(layers, cmd.version, FileOrder[cmd.file], Whole(cmd.doc))
  BY DEF WriteFile, FileSet
<1>2. PICK v \in Versions : v = cmd.version
  BY <1>1, AtFile
<1>3. PICK d \in Docs : d = cmd.doc
  BY <1>1, AtFile
<1>4. PICK k \in 1..3 : k = cmd.file
  BY <1>1, AtFile
<1>5. /\ layers'[v] \in LayerFiles
      /\ \A i \in 1..3 : layers'[v][FileOrder[i]] =
            IF i < k THEN Whole(d) ELSE IF i = k THEN Whole(d) ELSE Absent
      /\ \A w \in Versions : w # v => layers'[w] = layers[w]
  BY <1>1, <1>2, <1>3, <1>4, FileStep, WholeFacts
<1>6. Version(v) = Part
  BY <1>1, <1>2, AtFileIsTorn
<1>7. CASE k < 3
  <2>1. cmd' = [cmd EXCEPT !.pc = "open", !.file = @ + 1]
    BY <1>4, <1>7 DEF WriteFile
  <2>2. cmd'.op = cmd.op /\ cmd'.version = cmd.version /\ cmd'.force = cmd.force
    BY <2>1 DEF IInv, Types, Commands
  <2>3. FileOrder[3] \in Files /\ layers'[v][FileOrder[3]] = Absent
    BY <1>5, <1>7, FileOrderFacts
  <2>4. Version(v)' = Part
    BY <1>5, <2>3, TornAfter, WholeFacts
  <2>5. ver' = ver
    BY <1>5, <1>6, <2>4, StillTorn
  <2> QED
    BY <1>1, <2>2, <2>5 DEF Abstract, job
<1>8. CASE ~ (k < 3)
  <2>1. cmd' = NoCommand
    BY <1>4, <1>8 DEF WriteFile, Exit
  <2>2. \A i \in 1..3 : layers'[v][FileOrder[i]] = Whole(d)
    BY <1>5, <1>8
  <2>3. \A f \in Files : layers'[v][f] = Whole(d)
    BY <2>2, FileOrderFacts
  <2>4. layers'[v] = Layer(d)
    BY <1>5, <2>3 DEF LayerFiles, Layer
  <2>5. Version(v)' = d
    <3>1. \A e \in Docs : Layer(d) = Layer(e) => d = e
      <4>1. "openapi" \in Files
        BY DEF Files
      <4>2. \A e \in Docs : Layer(e)["openapi"] = Whole(e)
        BY <4>1 DEF Layer
      <4> QED
        BY <4>2, WholeFacts
    <3> QED
      BY <2>4, <3>1, LayerFacts DEF Version, IsWhole
  <2>6. Dir!Change(v, d)
    BY <1>1, <1>2, <1>5, <2>5, ChangeRefines
  <2>7. cmd.op = "add" /\ d.version = v
    BY <1>1, <1>2, <1>3, AtFile DEF Adding
  <2>8. job' = Dir!NoJob
    BY <2>1 DEF job, NoCommand, Dir!NoJob
  <2>9. Dir!Publish(v)
    BY <1>6, <2>6, <2>7, <2>8 DEF Dir!Publish, job
  <2> QED
    BY <2>9 DEF Abstract, Dir!Next
<1> QED
  BY <1>7, <1>8

LEMMA ShortManifestRefines ==
    ASSUME IInv, ShortManifest
    PROVE  Abstract
<1>1. cmd.pc = "write" /\ UNCHANGED res /\ cmd' = NoCommand
  BY DEF ShortManifest, Exit
<1>2. PICK v \in Versions : v = cmd.version
  BY <1>1, AtFile
<1>3. PICK d \in Docs : d = cmd.doc
  BY <1>1, AtFile
<1>4. PICK c \in Prefixes(d) : layers' = FileSet(layers, cmd.version, FileOrder[cmd.file], c)
  BY <1>1, <1>3 DEF ShortManifest, FileSet
<1>5. PICK j \in d.routes : c = [doc |-> d, routes |-> {rt \in d.routes : rt < j}]
  BY DEF Prefixes
<1>6. c \in Contents
  <2>1. {rt \in d.routes : rt < j} \in SUBSET Routes
    BY ToolAssumption
  <2> QED
    BY <1>5, <2>1 DEF Contents
<1>7. \A e \in Docs : c # Whole(e)
  <2>1. j \in Nat
    BY ToolAssumption, Zenon
  <2>2. ~ (j < j)
    BY <2>1
  <2>3. j \notin c.routes /\ c.doc = d
    BY <1>5, <2>2
  <2>4. \A e \in Docs : Whole(e).doc = e /\ Whole(e).routes = e.routes
    BY DEF Whole
  <2> QED
    BY <2>3, <2>4
<1>8. PICK k \in 1..3 : k = cmd.file
  BY <1>1, AtFile
<1>9. /\ layers'[v] \in LayerFiles
      /\ layers'[v][FileOrder[k]] = c
      /\ \A w \in Versions : w # v => layers'[w] = layers[w]
  BY <1>1, <1>2, <1>4, <1>6, <1>8, FileStep
<1>10. Version(v)' = Part
  BY <1>7, <1>9, FileOrderFacts, TornAfter
<1>11. Version(v) = Part
  BY <1>1, <1>2, AtFileIsTorn
<1>12. ver' = ver
  BY <1>9, <1>10, <1>11, StillTorn
<1> QED
  BY <1>1, <1>12, FinishRefines, CommandFacts

\* Whatever retire does to resolution.yaml.
LEMMA RewriteRefines ==
    ASSUME IInv, OpenResolution \/ WriteResolution \/ ShortResolution
    PROVE  Abstract
<1>1. cmd.op = "retire"
  BY AtResolution DEF OpenResolution, WriteResolution, ShortResolution, Retiring
<1>2. ver' = ver
  BY SameVersions DEF OpenResolution, WriteResolution, ShortResolution
<1>3. res' \in Resolutions \cup {Part} /\ job' \in {job, Dir!NoJob}
  <2>1. CASE OpenResolution
    <3>1. cmd' = [cmd EXCEPT !.pc = "writeRes"]
      BY <2>1 DEF OpenResolution
    <3>2. cmd'.op = cmd.op /\ cmd'.version = cmd.version /\ cmd'.force = cmd.force
      BY <3>1 DEF IInv, Types, Commands
    <3> QED
      BY <2>1, <3>2 DEF OpenResolution, job
  <2>2. CASE WriteResolution \/ ShortResolution
    <3>1. res' \in Resolutions /\ cmd' = NoCommand
      BY <2>2, ResolutionWritten
    <3>2. job' = Dir!NoJob
      BY <3>1 DEF job, NoCommand, Dir!NoJob
    <3> QED
      BY <3>1, <3>2
  <2> QED
    BY <2>1, <2>2
<1>4. Dir!Rewrite
  BY <1>1, <1>2, <1>3 DEF Dir!Rewrite, ver, job
<1> QED
  BY <1>4 DEF Abstract, Dir!Next

LEMMA EditRefines ==
    ASSUME IInv, Edit
    PROVE  Abstract
<1>1. ver' = ver /\ res' \in Resolutions
  BY EditStep, SameVersions DEF Edit
<1>2. job = Dir!NoJob /\ job' = job
  BY JobFacts DEF Edit, job
<1>3. Dir!Save
  BY <1>1, <1>2 DEF Dir!Save, ver, job
<1> QED
  BY <1>3 DEF Abstract, Dir!Next

LEMMA StepRefines == IInv /\ [Next]_vars => [Dir!Next]_(Dir!vars)
<1> SUFFICES ASSUME IInv, [Next]_vars PROVE Abstract
  BY AbstractIsDir
<1>1. CASE \/ \E d \in Docs, force \in BOOLEAN : AddStart(d, force)
           \/ \E v \in Versions : RemoveStart(v) \/ RetireStart(v)
  BY <1>1, StartRefines
<1>2. CASE RemoveFile
  BY <1>2, RemoveFileRefines
<1>3. CASE RemoveDir
  BY <1>3, RemoveDirRefines
<1>4. CASE MkdirAll
  BY <1>4, MkdirAllRefines
<1>5. CASE OpenFile
  BY <1>5, OpenFileRefines
<1>6. CASE WriteFile
  BY <1>6, WriteFileRefines
<1>7. CASE ShortManifest
  BY <1>7, ShortManifestRefines
<1>8. CASE OpenResolution \/ WriteResolution \/ ShortResolution
  BY <1>8, RewriteRefines
<1>9. CASE Interrupt
  BY <1>9, FinishRefines, SameVersions DEF Interrupt, Exit
<1>10. CASE Edit
  BY <1>10, EditRefines
<1>11. CASE Verify
  BY <1>11, StutterRefines DEF Verify, ExitAtOnce
<1>12. CASE LoadStart \/ LoadResolution \/ LoadFile \/ LoadEnd
  BY <1>12, StutterRefines DEF LoadStart, LoadResolution, LoadFile, LoadEnd
<1>13. CASE UNCHANGED vars
  BY <1>13, StutterRefines DEF vars
<1> QED
  BY <1>1, <1>2, <1>3, <1>4, <1>5, <1>6, <1>7, <1>8, <1>9, <1>10, <1>11, <1>12, <1>13 DEF Next

\* docs/concepts.md:59-75: for any documents, versions, edits and interruptions,
\* the commands do what BundleDir promises: every step on the files is a step of
\* a directory whose versions are absent, torn or whole, or is not seen there.
THEOREM ImplementsHolds == Spec => Implements
<1>1. IInv /\ IInv' /\ [Next]_vars => [Dir!Next]_(Dir!vars)
  BY StepRefines
<1> QED
  BY <1>1, Invariant, InitRefines, PTL DEF Spec, Implements, Dir!Spec

-----------------------------------------------------------------------------
(***************************************************************************)
(* A load beside the commands.  Of a layer that has not been removed under *)
(* it, what it has read is still there: writeLayer only ever writes into a *)
(* directory whose old files are gone.                                     *)
(***************************************************************************)

LoadPCs == {"idle", "resolution", "layers", "accepted", "failed"}

\* The files of one layer read so far.
Partial == UNION {[S -> Contents] : S \in SUBSET Files}

Loads ==
    [pc : LoadPCs, names : SUBSET Versions, res : Resolutions \cup {Absent, Part},
     got : [Versions -> Partial], replaced : SUBSET Versions]

\* Contents that some document's files have, or had when the disk filled up.
Genuine(f, c) ==
    IF f = "versions" THEN c \in {Whole(c.doc)} \cup Prefixes(c.doc) ELSE c = Whole(c.doc)

GenuineLayer(l) == \A f \in Files : l[f] \in Contents => Genuine(f, l[f])

GenuineFiles == \A v \in Versions : layers[v] # NoDir => GenuineLayer(layers[v])

StillThere(L, g, v) == L[v] # NoDir /\ \A f \in DOMAIN g[v] : L[v][f] = g[v][f]

UnderWay == load.pc \in {"resolution", "layers"}

ReadsKept ==
    UnderWay => \A v \in load.names \ load.replaced : StillThere(layers, load.got, v)

LoadInv ==
    /\ load \in Loads
    /\ GenuineFiles
    /\ ReadsKept
    /\ LoadedFromOneDocument

LEMMA LoadFacts ==
    /\ {"idle", "resolution", "layers", "accepted", "failed"} \subseteq LoadPCs
    /\ NoLoad \in Loads /\ NoLoad.pc = "idle"
    /\ \A l \in Loads :
          /\ l.pc \in LoadPCs /\ l.names \subseteq Versions /\ l.replaced \subseteq Versions
          /\ l.got \in [Versions -> Partial]
<1>1. NoDir \in Partial
  <2>1. NoDir \in [{} -> Contents] /\ {} \in SUBSET Files
    BY DEF NoDir
  <2> QED
    BY <2>1 DEF Partial
<1>2. [v \in Versions |-> NoDir] \in [Versions -> Partial]
  BY <1>1
<1>3. NoLoad \in Loads /\ NoLoad.pc = "idle"
  BY <1>2 DEF NoLoad, Loads, LoadPCs
<1> QED
  BY <1>3 DEF Loads, LoadPCs

\* A load that has failed, or has not begun, claims nothing.
LEMMA LoadOver ==
    ASSUME LoadInv, layers' = layers, load' = [NoLoad EXCEPT !.pc = "failed"]
    PROVE  LoadInv'
<1>1. load' \in Loads /\ load'.pc = "failed"
  BY LoadFacts DEF Loads, NoLoad, LoadPCs
<1> QED
  BY <1>1 DEF LoadInv, GenuineFiles, ReadsKept, UnderWay, LoadedFromOneDocument

\* A step that does not touch the directories or the load.
LEMMA LoadFrame ==
    ASSUME LoadInv, UNCHANGED <<layers, load>>
    PROVE  LoadInv'
  BY DEF LoadInv, GenuineFiles, ReadsKept, UnderWay, LoadedFromOneDocument

LEMMA LoadInit ==
    ASSUME Init
    PROVE  LoadInv
<1>1. load \in Loads /\ load.pc = "idle"
  BY LoadFacts DEF Init
<1>2. ASSUME NEW d \in Docs PROVE GenuineLayer(Layer(d))
  <2>1. \A f \in Files : Layer(d)[f] = Whole(d)
    BY DEF Layer
  <2> QED
    BY <2>1, WholeFacts DEF GenuineLayer, Genuine
<1>3. GenuineFiles
  <2>1. PICK c \in Committed :
          layers = [v \in Versions |-> IF c[v] = Absent THEN NoDir ELSE Layer(c[v])]
    BY DEF Init
  <2>2. c \in [Versions -> Docs \cup {Absent}]
    BY FileAssumption
  <2>3. \A v \in Versions : layers[v] = NoDir \/ \E d \in Docs : layers[v] = Layer(d)
    BY <2>1, <2>2
  <2> QED
    BY <1>2, <2>3 DEF GenuineFiles
<1> QED
  BY <1>1, <1>3 DEF LoadInv, ReadsKept, UnderWay, LoadedFromOneDocument

Marked(v) == [load EXCEPT !.replaced = @ \cup {v}]

\* A step of a command on one directory while a load may be under way.
LEMMA OneDirectory ==
    ASSUME LoadInv, NEW v \in Versions,
           \A w \in Versions : w # v => layers'[w] = layers[w],
           layers'[v] # NoDir => GenuineLayer(layers'[v]),
           \/ load' = load /\ (layers[v] # NoDir =>
                 /\ layers'[v] # NoDir
                 /\ \A f \in Files : layers[v][f] \in Contents => layers'[v][f] = layers[v][f])
           \/ load' = Marked(v)
           \/ load' = load /\ ~ UnderWay
    PROVE  LoadInv'
<1>1. GenuineFiles'
  BY DEF LoadInv, GenuineFiles
<1>2. /\ load' \in Loads
      /\ load'.pc = load.pc /\ load'.names = load.names /\ load'.got = load.got
      /\ load'.replaced \in {load.replaced, load.replaced \cup {v}}
  <2>1. load \in Loads
    BY DEF LoadInv
  <2>2. CASE load' = load
    BY <2>1, <2>2
  <2>3. CASE load' = Marked(v)
    BY <2>1, <2>3 DEF Loads, Marked
  <2> QED
    BY <2>2, <2>3
<1>3. LoadedFromOneDocument'
  BY <1>2 DEF LoadInv, LoadedFromOneDocument
<1>4. ReadsKept'
  <2> SUFFICES ASSUME UnderWay, NEW w \in load.names \ load'.replaced
               PROVE  StillThere(layers', load.got, w)
    BY <1>2 DEF ReadsKept, UnderWay
  <2>1. w \in Versions /\ StillThere(layers, load.got, w) /\ load.got[w] \in Partial
    BY <1>2, LoadFacts DEF LoadInv, ReadsKept
  <2>2. CASE w # v
    BY <2>1, <2>2 DEF StillThere
  <2>3. CASE w = v
    <3>1. v \notin load'.replaced
      BY <2>3
    <3>2. /\ layers'[v] # NoDir
          /\ \A f \in Files : layers[v][f] \in Contents => layers'[v][f] = layers[v][f]
      <4>1. load' # Marked(v)
        BY <3>1 DEF LoadInv, Loads, Marked
      <4>2. layers[v] # NoDir
        BY <2>1, <2>3 DEF StillThere
      <4> QED
        BY <4>1, <4>2
    <3>3. \A f \in DOMAIN load.got[v] : f \in Files /\ load.got[v][f] \in Contents
      BY <2>1, <2>3 DEF Partial
    <3> QED
      BY <2>1, <2>3, <3>2, <3>3 DEF StillThere
  <2> QED
    BY <2>2, <2>3
<1> QED
  BY <1>1, <1>2, <1>3, <1>4 DEF LoadInv

\* What a load under way is told of a removal.
LEMMA Seen ==
    ASSUME NEW v, v = cmd.version, load' = SeenByLoad
    PROVE  \/ load' = Marked(v)
           \/ load' = load /\ ~ UnderWay
<1>1. CASE UnderWay
  BY <1>1, Zenon DEF SeenByLoad, UnderWay, Marked
<1>2. CASE ~ UnderWay
  BY <1>2, Zenon DEF SeenByLoad, UnderWay
<1> QED
  BY <1>1, <1>2

LEMMA RemoveFileLoads ==
    ASSUME IInv, LoadInv, RemoveFile
    PROVE  LoadInv'
<1> DEFINE v == cmd.version
<1>1. cmd.pc = "rm" /\ load' = SeenByLoad
  BY DEF RemoveFile
<1>2. PICK f \in Files : layers' = FileSet(layers, v, f, Absent)
  BY DEF RemoveFile, FileSet
<1>3. v \in Versions /\ layers[v] # NoDir /\ layers \in LayerMap
  BY <1>1, RmFacts DEF IInv, Types, LayerMap
<1>4. /\ \A g \in Files : layers'[v][g] = IF g = f THEN Absent ELSE layers[v][g]
      /\ \A w \in Versions : w # v => layers'[w] = layers[w]
  BY <1>2, <1>3, SetFile
<1>5. GenuineLayer(layers'[v])
  BY <1>3, <1>4, FileAssumption DEF LoadInv, GenuineFiles, GenuineLayer
<1>6. load' = Marked(v) \/ (load' = load /\ ~ UnderWay)
  BY <1>1, Seen
<1> QED
  BY <1>3, <1>4, <1>5, <1>6, OneDirectory

LEMMA RemoveDirLoads ==
    ASSUME IInv, LoadInv, RemoveDir
    PROVE  LoadInv'
<1> DEFINE v == cmd.version
<1>1. cmd.pc = "rm" /\ load' = SeenByLoad /\ layers' = [layers EXCEPT ![v] = NoDir]
  BY DEF RemoveDir
<1>2. v \in Versions /\ layers \in LayerMap
  BY <1>1, RmFacts DEF IInv, Types, LayerMap
<1>3. layers'[v] = NoDir /\ \A w \in Versions : w # v => layers'[w] = layers[w]
  BY <1>1, <1>2 DEF LayerMap
<1>4. load' = Marked(v) \/ (load' = load /\ ~ UnderWay)
  BY <1>1, Seen
<1> QED
  BY <1>2, <1>3, <1>4, OneDirectory

LEMMA MkdirAllLoads ==
    ASSUME IInv, LoadInv, MkdirAll
    PROVE  LoadInv'
<1> DEFINE v == cmd.version
<1>1. Adding /\ layers[v] = NoDir /\ load' = load
  BY CommandFacts DEF IInv, MkdirAll, Idle, Adding, Removing, Retiring
<1>2. v \in Versions /\ layers \in LayerMap
  BY <1>1 DEF IInv, Types, LayerMap, Adding
<1>3. layers' = [layers EXCEPT ![v] = EmptyDir]
  BY <1>1 DEF MkdirAll
<1>4. layers'[v] = EmptyDir /\ \A w \in Versions : w # v => layers'[w] = layers[w]
  BY <1>2, <1>3 DEF LayerMap
<1>5. GenuineLayer(layers'[v])
  BY <1>4, FileAssumption DEF GenuineLayer, EmptyDir
<1> QED
  BY <1>1, <1>2, <1>4, <1>5, OneDirectory

\* The current file changes, which held no contents.
LEMMA FileLoads ==
    ASSUME IInv, LoadInv, cmd.pc \in {"open", "write"}, load' = load,
           NEW x \in Contents \cup {Absent, Part},
           layers' = FileSet(layers, cmd.version, FileOrder[cmd.file], x),
           x \in Contents => Genuine(FileOrder[cmd.file], x)
    PROVE  LoadInv'
<1> DEFINE v == cmd.version
           f == FileOrder[cmd.file]
<1>1. /\ v \in Versions /\ layers \in LayerMap /\ layers[v] # NoDir /\ cmd.file \in 1..3
      /\ Written(layers[v], cmd.file)
  BY AtFile
<1>2. f \in Files
  BY <1>1, FileOrderFacts
<1>3. /\ layers'[v] \in LayerFiles
      /\ \A g \in Files : layers'[v][g] = IF g = f THEN x ELSE layers[v][g]
      /\ \A w \in Versions : w # v => layers'[w] = layers[w]
  BY <1>1, <1>2, SetFile
<1>4. layers[v][f] \notin Contents
  BY <1>1, FileAssumption DEF Written
<1>5. layers'[v] # NoDir
  BY <1>3, LayerFacts
<1> HIDE DEF f
<1>6. GenuineLayer(layers'[v])
  BY <1>1, <1>2, <1>3 DEF LoadInv, GenuineFiles, GenuineLayer, f
<1>7. \A g \in Files : layers[v][g] \in Contents => layers'[v][g] = layers[v][g]
  BY <1>3, <1>4
<1> QED
  BY <1>1, <1>3, <1>5, <1>6, <1>7, OneDirectory

LEMMA WriteLoads ==
    ASSUME IInv, LoadInv, OpenFile \/ WriteFile \/ ShortManifest
    PROVE  LoadInv'
<1>1. CASE OpenFile
  <2>1. cmd.pc = "open" /\ load' = load
        /\ layers' = FileSet(layers, cmd.version, FileOrder[cmd.file], Part)
    BY <1>1 DEF OpenFile, FileSet
  <2> QED
    BY <2>1, FileLoads, FileAssumption
<1>2. CASE WriteFile
  <2>1. cmd.pc = "write" /\ load' = load
        /\ layers' = FileSet(layers, cmd.version, FileOrder[cmd.file], Whole(cmd.doc))
    BY <1>2 DEF WriteFile, FileSet
  <2>2. cmd.doc \in Docs
    BY <2>1, AtFile
  <2>3. Whole(cmd.doc) \in Contents /\ Whole(cmd.doc).doc = cmd.doc
    BY <2>2, WholeFacts
  <2>4. Genuine(FileOrder[cmd.file], Whole(cmd.doc))
    BY <2>3 DEF Genuine
  <2> QED
    BY <2>1, <2>3, <2>4, FileLoads
<1>3. CASE ShortManifest
  <2>1. cmd.pc = "write" /\ FileOrder[cmd.file] = "versions" /\ load' = load
    BY <1>3 DEF ShortManifest
  <2>2. PICK c \in Prefixes(cmd.doc) :
            layers' = FileSet(layers, cmd.version, FileOrder[cmd.file], c)
    BY <1>3, <2>1 DEF ShortManifest, FileSet
  <2>3. cmd.doc \in Docs
    BY <2>1, AtFile
  <2>4. c \in Contents /\ c.doc = cmd.doc
    BY <2>2, <2>3, PrefixFacts
  <2>5. Genuine(FileOrder[cmd.file], c)
    BY <2>1, <2>2, <2>4 DEF Genuine
  <2> QED
    BY <2>1, <2>2, <2>4, <2>5, FileLoads
<1> QED
  BY <1>1, <1>2, <1>3

LEMMA LoadStartLoads ==
    ASSUME IInv, LoadInv, LoadStart
    PROVE  LoadInv'
<1>1. CASE Dirs = {}
  BY <1>1, LoadOver DEF LoadStart, LoadFails
<1>2. CASE Dirs # {}
  <2>1. load' = [NoLoad EXCEPT !.pc = "resolution", !.names = Dirs] /\ layers' = layers
    BY <1>2 DEF LoadStart
  <2>2. Dirs \in SUBSET Versions
    BY DEF Dirs
  <2>3. load' \in Loads /\ load'.pc = "resolution" /\ load'.names = Dirs /\ load'.got = NoLoad.got
    BY <2>1, <2>2, LoadFacts DEF Loads, NoLoad, LoadPCs
  <2>4. \A v \in Dirs : StillThere(layers, NoLoad.got, v)
    <3>1. \A v \in Versions : NoLoad.got[v] = NoDir
      BY DEF NoLoad
    <3> QED
      BY <3>1 DEF Dirs, StillThere, NoDir
  <2>5. GenuineFiles'
    BY <2>1 DEF LoadInv, GenuineFiles
  <2>6. ReadsKept'
    BY <2>1, <2>3, <2>4 DEF ReadsKept
  <2> QED
    BY <2>3, <2>5, <2>6 DEF LoadInv, LoadedFromOneDocument
<1> QED
  BY <1>1, <1>2

LEMMA LoadResolutionLoads ==
    ASSUME IInv, LoadInv, LoadResolution
    PROVE  LoadInv'
<1>1. CASE res = Part
  BY <1>1, LoadOver DEF LoadResolution, LoadFails
<1>2. CASE res # Part
  <2>1. load' = [load EXCEPT !.pc = "layers", !.res = res] /\ layers' = layers
        /\ load.pc = "resolution"
    BY <1>2 DEF LoadResolution
  <2>2. load \in Loads /\ res \in Resolutions \cup {Absent, Part}
    BY DEF LoadInv, IInv, Types
  <2>3. /\ load' \in Loads /\ load'.pc = "layers" /\ load'.names = load.names
        /\ load'.got = load.got /\ load'.replaced = load.replaced
    BY <2>1, <2>2 DEF Loads, LoadPCs
  <2>4. GenuineFiles'
    BY <2>1 DEF LoadInv, GenuineFiles
  <2>5. ReadsKept'
    BY <2>1, <2>3 DEF LoadInv, ReadsKept, UnderWay
  <2> QED
    BY <2>3, <2>4, <2>5 DEF LoadInv, LoadedFromOneDocument
<1> QED
  BY <1>1, <1>2

\* There is a first file to be read.
LEMMA FirstIsUnread ==
    ASSUME LoadInv, Unread # {}
    PROVE  FirstUnread \in Unread
<1> DEFINE names == {p[1] : p \in Unread}
<1>1. \A p \in Unread : p = <<p[1], p[2]>> /\ p[1] \in Versions /\ p[2] \in 1..3
  BY LoadFacts DEF Unread, LoadInv
<1>2. names \in SUBSET Versions /\ names # {}
  BY <1>1
<1>3. PICK v \in names : \A w \in names : v <= w
  <2> HIDE DEF names
  <2> QED
    BY <1>2, LeastVersion
<1> DEFINE files == {p[2] : p \in {q \in Unread : q[1] = v}}
<1>4. files \in SUBSET (1..3) /\ files # {}
  BY <1>1, <1>3
<1>5. PICK i \in files : \A j \in files : i <= j
  <2> HIDE DEF files
  <2>0. PICK j \in files : TRUE
    BY <1>4
  <2>1. \A x \in files : x = 1 \/ x = 2 \/ x = 3
    BY <1>4
  <2>2. 1 \in files => \A x \in files : 1 <= x
    BY <2>1
  <2>3. 1 \notin files /\ 2 \in files => \A x \in files : 2 <= x
    BY <2>1
  <2>4. 1 \notin files /\ 2 \notin files => 3 \in files /\ \A x \in files : 3 <= x
    BY <2>0, <2>1
  <2> QED
    BY <2>2, <2>3, <2>4
<1>6. PICK p \in Unread : p[1] = v /\ p[2] = i
  BY <1>5
<1>7. ASSUME NEW q \in Unread PROVE p[1] < q[1] \/ (p[1] = q[1] /\ p[2] <= q[2])
  <2>1. v <= q[1] /\ v \in Nat /\ q[1] \in Nat
    BY <1>1, <1>2, <1>3, ToolAssumption
  <2>2. CASE v = q[1]
    <3>1. q[2] \in files
      BY <2>2
    <3> QED
      BY <1>5, <1>6, <2>2, <3>1
  <2>3. CASE v # q[1]
    BY <1>6, <2>1, <2>3
  <2> QED
    BY <2>2, <2>3
<1> QED
  BY <1>6, <1>7 DEF FirstUnread

\* What has been read of one more file.
WithFile(g, f, c) == [h \in DOMAIN g \cup {f} |-> IF h = f THEN c ELSE g[h]]

LEMMA WithFileFacts ==
    ASSUME NEW g \in Partial, NEW f \in Files, NEW c \in Contents
    PROVE  /\ WithFile(g, f, c) \in Partial
           /\ DOMAIN WithFile(g, f, c) = DOMAIN g \cup {f}
           /\ WithFile(g, f, c)[f] = c
           /\ \A h \in DOMAIN g : h # f => WithFile(g, f, c)[h] = g[h]
<1>1. PICK S \in SUBSET Files : g \in [S -> Contents]
  BY DEF Partial
<1>2. WithFile(g, f, c) \in [S \cup {f} -> Contents]
  BY <1>1 DEF WithFile
<1>3. S \cup {f} \in SUBSET Files
  BY <1>1
<1> QED
  BY <1>2, <1>3 DEF Partial, WithFile

LEMMA LoadFileLoads ==
    ASSUME IInv, LoadInv, LoadFile
    PROVE  LoadInv'
<1> DEFINE v == FirstUnread[1]
           f == FileOrder[FirstUnread[2]]
<1>1. FirstUnread \in Unread /\ load.pc = "layers" /\ layers' = layers
  BY FirstIsUnread DEF LoadFile
<1>2. /\ v \in load.names /\ v \in Versions /\ f \in Files
      /\ load.got[v] \in Partial /\ load \in Loads
  BY <1>1, LoadFacts, FileOrderFacts DEF Unread, LoadInv
<1>3. CASE v \notin Dirs \/ layers[v][f] \in {Absent, Part}
  BY <1>1, <1>3, LoadOver DEF LoadFile, LoadFails
<1>4. CASE ~ (v \notin Dirs \/ layers[v][f] \in {Absent, Part})
  <2> DEFINE l == WithFile(load.got[v], f, layers[v][f])
  <2>1. load' = [load EXCEPT !.got = [@ EXCEPT ![v] = l]]
    BY <1>4 DEF LoadFile, WithFile
  <2>2. layers[v] # NoDir /\ layers[v][f] \in Contents
    BY <1>2, <1>4 DEF Dirs, IInv, Types, LayerFiles
  <2>3. /\ l \in Partial /\ DOMAIN l = DOMAIN load.got[v] \cup {f}
        /\ \A h \in DOMAIN l : l[h] = IF h = f THEN layers[v][f] ELSE load.got[v][h]
    <3> HIDE DEF v, f
    <3>1. load.got[v] \in Partial /\ f \in Files /\ layers[v][f] \in Contents
      BY <1>2, <2>2
    <3>2. PICK g \in Partial : g = load.got[v]
      BY <3>1
    <3>3. PICK c \in Contents : c = layers[v][f]
      BY <3>1
    <3>4. PICK k \in Files : k = f
      BY <3>1
    <3>5. l = WithFile(g, k, c)
      BY <3>2, <3>3, <3>4
    <3> HIDE DEF l
    <3>6. /\ l \in Partial /\ DOMAIN l = DOMAIN g \cup {k}
          /\ l[k] = c /\ \A h \in DOMAIN g : h # k => l[h] = g[h]
      BY <3>5, WithFileFacts
    <3> QED
      BY <3>2, <3>3, <3>4, <3>6
  <2> HIDE DEF l, v, f
  <2>4. /\ load' \in Loads /\ load'.pc = load.pc /\ load'.names = load.names
        /\ load'.replaced = load.replaced
        /\ load'.got = [load.got EXCEPT ![v] = l]
    BY <1>2, <2>1, <2>3, LoadFacts DEF Loads
  <2>5. load'.got[v] = l /\ \A w \in Versions : w # v => load'.got[w] = load.got[w]
    BY <1>2, <2>4, LoadFacts
  <2>6. ASSUME NEW w \in load.names \ load.replaced
        PROVE  StillThere(layers, load'.got, w)
    <3>1. StillThere(layers, load.got, w) /\ w \in Versions
      BY <1>1, LoadFacts DEF LoadInv, ReadsKept, UnderWay
    <3>2. CASE w # v
      BY <2>5, <3>1, <3>2 DEF StillThere
    <3>3. CASE w = v
      BY <2>2, <2>3, <2>5, <3>1, <3>3 DEF StillThere
    <3> QED
      BY <3>2, <3>3
  <2>7. ReadsKept'
    BY <1>1, <2>4, <2>6 DEF ReadsKept
  <2>8. GenuineFiles'
    BY <1>1 DEF LoadInv, GenuineFiles
  <2> QED
    BY <1>1, <2>4, <2>7, <2>8 DEF LoadInv, LoadedFromOneDocument
<1> QED
  BY <1>3, <1>4

\* Three files of one document that are all there.
LEMMA ThreeFiles ==
    ASSUME NEW l, OneDocument(l), GenuineLayer(l), \A f \in Files : l[f] \in Contents
    PROVE  \E d \in Docs :
              /\ l["descriptors"] = Whole(d)
              /\ l["openapi"] = Whole(d)
              /\ l["versions"] \in {Whole(d)} \cup Prefixes(d)
<1> DEFINE d == l["descriptors"].doc
<1>1. "descriptors" \in Files /\ "openapi" \in Files /\ "versions" \in Files
  BY DEF Files
<1>2. d \in Docs
  BY <1>1 DEF Contents
<1>3. l["openapi"].doc = d /\ l["versions"].doc = d
  BY <1>1 DEF OneDocument
<1>4. Genuine("descriptors", l["descriptors"]) /\ Genuine("openapi", l["openapi"])
      /\ Genuine("versions", l["versions"])
  BY <1>1 DEF GenuineLayer
<1> QED
  BY <1>2, <1>3, <1>4 DEF Genuine

LEMMA LoadEndLoads ==
    ASSUME IInv, LoadInv, LoadEnd
    PROVE  LoadInv'
<1>1. CASE ~ Loadable(load.got, load.res)
  BY <1>1, LoadOver DEF LoadEnd, LoadFails
<1>2. CASE Loadable(load.got, load.res)
  <2>1. load' = [load EXCEPT !.pc = "accepted"] /\ layers' = layers
        /\ load.pc = "layers" /\ Unread = {}
    BY <1>2 DEF LoadEnd
  <2>2. /\ load' \in Loads /\ load'.pc = "accepted" /\ load'.names = load.names
        /\ load'.got = load.got /\ load'.replaced = load.replaced
    BY <2>1 DEF LoadInv, Loads, LoadPCs
  <2>3. ASSUME NEW v \in load.names \ load.replaced
        PROVE  \E d \in Docs :
                  /\ load.got[v]["descriptors"] = Whole(d)
                  /\ load.got[v]["openapi"] = Whole(d)
                  /\ load.got[v]["versions"] \in {Whole(d)} \cup Prefixes(d)
    <3>1. StillThere(layers, load.got, v) /\ v \in Versions /\ load.got[v] \in Partial
      BY <2>1, LoadFacts DEF LoadInv, ReadsKept, UnderWay
    <3>2. \A f \in Files : f \in DOMAIN load.got[v]
      <4> SUFFICES ASSUME NEW f \in Files, f \notin DOMAIN load.got[v] PROVE FALSE
        OBVIOUS
      <4>1. PICK i \in 1..3 : FileOrder[i] = f
        BY FileOrderFacts
      <4>2. <<v, i>> \in Unread
        BY <4>1 DEF Unread
      <4> QED
        BY <2>1, <4>2
    <3>3. \A f \in Files : load.got[v][f] = layers[v][f] /\ layers[v][f] \in Contents
      BY <3>1, <3>2 DEF StillThere, Partial
    <3>4. OneDocument(layers[v]) /\ GenuineLayer(layers[v])
      BY <3>1 DEF IInv, LoadInv, GenuineFiles, StillThere
    <3>5. "descriptors" \in Files /\ "openapi" \in Files /\ "versions" \in Files
      BY DEF Files
    <3> QED
      BY <3>3, <3>4, <3>5, ThreeFiles
  <2>4. LoadedFromOneDocument'
    BY <2>2, <2>3 DEF LoadedFromOneDocument
  <2>5. GenuineFiles' /\ ReadsKept'
    BY <2>1, <2>2 DEF LoadInv, GenuineFiles, ReadsKept, UnderWay
  <2> QED
    BY <2>2, <2>4, <2>5 DEF LoadInv
<1> QED
  BY <1>1, <1>2

LEMMA LoadStep == IInv /\ LoadInv /\ [Next]_vars => LoadInv'
<1> SUFFICES ASSUME IInv, LoadInv, [Next]_vars PROVE LoadInv'
  OBVIOUS
<1>1. CASE RemoveFile
  BY <1>1, RemoveFileLoads
<1>2. CASE RemoveDir
  BY <1>2, RemoveDirLoads
<1>3. CASE MkdirAll
  BY <1>3, MkdirAllLoads
<1>4. CASE OpenFile \/ WriteFile \/ ShortManifest
  BY <1>4, WriteLoads
<1>5. CASE LoadStart
  BY <1>5, LoadStartLoads
<1>6. CASE LoadResolution
  BY <1>6, LoadResolutionLoads
<1>7. CASE LoadFile
  BY <1>7, LoadFileLoads
<1>8. CASE LoadEnd
  BY <1>8, LoadEndLoads
<1>9. ASSUME NEW d \in Docs, NEW force \in BOOLEAN, AddStart(d, force) PROVE LoadInv'
  BY <1>9, LoadFrame DEF AddStart
<1>10. ASSUME NEW v \in Versions, RemoveStart(v) \/ RetireStart(v) PROVE LoadInv'
  BY <1>10, LoadFrame DEF RemoveStart, RetireStart
<1>11. CASE OpenResolution \/ WriteResolution \/ ShortResolution
  BY <1>11, LoadFrame DEF OpenResolution, WriteResolution, ShortResolution
<1>12. CASE Interrupt \/ Verify \/ Edit \/ UNCHANGED vars
  BY <1>12, LoadFrame DEF Interrupt, Verify, Edit, vars
<1> QED
  BY <1>1, <1>2, <1>3, <1>4, <1>5, <1>6, <1>7, <1>8, <1>9, <1>10, <1>11, <1>12 DEF Next

LEMMA LoadInvariant == Spec => []LoadInv
<1>1. Init => LoadInv
  BY LoadInit
<1> QED
  BY <1>1, LoadStep, Invariant, PTL DEF Spec

\* The command, the files and the load are what their names say, however long
\* the directory is in use.
THEOREM TypeOKHolds == Spec => []TypeOK
<1>1. IInv /\ LoadInv => TypeOK
  <2> SUFFICES ASSUME IInv, LoadInv PROVE TypeOK
    OBVIOUS
  <2>1. \A v \in Versions :
           layers[v] = NoDir \/ layers[v] \in [Files -> Contents \cup {Absent, Part}]
    BY DEF IInv, Types, LayerFiles
  <2>2. cmd.op \in {"none", "add", "remove", "retire"}
    BY DEF IInv, Types, Commands, Ops
  <2>3. cmd.op = "add" => cmd.doc \in Docs /\ cmd.doc.version = cmd.version
    BY CommandFacts DEF IInv, Idle, Adding, Removing, Retiring
  <2>4. cmd.op # "none" => cmd.version \in Versions
    BY CommandFacts DEF IInv, Idle, Adding, Removing, Retiring, Dirs
  <2> QED
    BY <2>1, <2>2, <2>3, <2>4, LoadFacts DEF TypeOK, IInv, Types, LoadInv
<1> QED
  BY <1>1, Invariant, LoadInvariant, PTL

\* bundle.go:486-503 beside bundlegen.go:397-422: for any documents and versions
\* and any interleaving of loads with commands that are interrupted anywhere, an
\* accepted load has each layer from one document, unless the layer was being
\* removed under it.
THEOREM LoadedFromOneDocumentHolds == Spec => []LoadedFromOneDocument
<1>1. LoadInv => LoadedFromOneDocument
  BY DEF LoadInv
<1> QED
  BY <1>1, LoadInvariant, PTL

-----------------------------------------------------------------------------
(***************************************************************************)
(* Careful commands.  What keeps a directory loadable while nobody looks:  *)
(* rules that lead to newer versions only, which no removal of the oldest  *)
(* can leave dangling and no retirement can close into a cycle.            *)
(***************************************************************************)

AllWhole(L) == \A v \in Versions : L[v] # NoDir => \E d \in Docs : L[v] = Layer(d)

Alike(L) ==
    \A v, w \in Versions :
        L[v] # NoDir /\ L[w] # NoDir /\ v # w =>
            SameDescriptors(L[v]["descriptors"].doc, L[w]["descriptors"].doc)

Forward(q) == q.sel = "" /\ (q.target = 0 \/ q.target > q.version)

Fits(L, q) ==
    /\ L[q.version] # NoDir
    /\ q.kind = "transform" /\ q.target # 0 =>
          /\ L[q.target] # NoDir
          /\ L[q.version]["versions"].routes \subseteq L[q.target]["versions"].routes

OneEach(rs) == \A i, j \in DOMAIN rs : i # j => rs[i].version # rs[j].version

AllForward(rs) == \A i \in DOMAIN rs : Forward(rs[i])

AllFit(L, rs) == \A i \in DOMAIN rs : Fits(L, rs[i])

\* Load would accept it, if there is anything to load.
Ready(L, r) ==
    /\ L \in LayerMap /\ AllWhole(L) /\ Alike(L)
    /\ r \in Resolutions \cup {Absent} /\ r # Part
    /\ OneEach(RulesOf(r)) /\ AllForward(RulesOf(r)) /\ AllFit(L, RulesOf(r))

\* The directories when add or remove comes to its end.
Outcome(L, c) == [L EXCEPT ![c.version] = IF c.op = "add" THEN Layer(c.doc) ELSE NoDir]

\* What is there, or will be once the command is done, is ready.
Promised(L, r, c) ==
    /\ c = NoCommand => Ready(L, r)
    /\ c.op \in {"add", "remove"} => Ready(Outcome(L, c), r)
    /\ c.op = "retire" => Ready(L, c.out)

CarefulInv == careful => Promised(layers, res, cmd)

LEMMA RulesAreRules ==
    ASSUME NEW r \in Resolutions \cup {Absent}
    PROVE  /\ RulesOf(r) \in Seq(RuleSet)
           /\ DOMAIN RulesOf(r) = 1..Len(RulesOf(r))
           /\ \A i \in DOMAIN RulesOf(r) : RulesOf(r)[i] \in RuleSet
<1>1. RulesOf(r) \in Seq(RuleSet)
  <2>1. CASE r = Absent
    BY <2>1 DEF RulesOf
  <2>2. CASE r # Absent
    BY <2>2 DEF RulesOf, Resolutions
  <2> QED
    BY <2>1, <2>2
<1> QED
  BY <1>1

LEMMA RuleFacts ==
    ASSUME NEW q \in RuleSet
    PROVE  /\ q.version \in Versions /\ q.version \in Nat
           /\ q.target = 0 \/ (q.target \in Versions /\ q.target \in Nat)
  BY ToolAssumption DEF RuleSet

LEMMA LayerFiles3 ==
    ASSUME NEW d \in Docs
    PROVE  /\ Layer(d)["descriptors"] = Whole(d) /\ Layer(d)["versions"] = Whole(d)
           /\ Layer(d)["descriptors"].doc = d /\ Layer(d)["versions"].routes = d.routes
           /\ LayerLoads(Layer(d)) /\ Layer(d) # NoDir /\ Layer(d) \in LayerFiles
<1>1. "descriptors" \in Files /\ "versions" \in Files
  BY DEF Files
<1>2. \A f \in Files : Layer(d)[f] = Whole(d)
  BY DEF Layer
<1>3. Whole(d).doc = d /\ Whole(d).routes = d.routes /\ Whole(d) \in Contents
  BY WholeFacts DEF Whole
<1>4. d.routes # {}
  BY ToolAssumption
<1>5. LayerLoads(Layer(d))
  BY <1>1, <1>2, <1>3, <1>4 DEF LayerLoads
<1> QED
  BY <1>1, <1>2, <1>3, <1>5, LayerFacts

\* Rules that lead to newer versions never lead back.
LEMMA ForwardNeverBack ==
    ASSUME NEW rs, \A i \in DOMAIN rs : rs[i] \in RuleSet, AllForward(rs),
           NEW t \in Versions, NEW v \in Versions, t > v
    PROVE  NeverLeadsTo(rs, t, v)
<1> DEFINE S == {w \in Versions : w >= t}
<1>1. Versions \subseteq Nat
  BY ToolAssumption
<1>2. S \in SUBSET Versions /\ t \in S /\ v \notin S
  BY <1>1
<1>3. ASSUME NEW w \in S, NEW i \in Fallback(rs, w), rs[i].kind = "transform"
      PROVE  rs[i].target \in S \cup {0}
  <2>1. i \in DOMAIN rs /\ rs[i].version = w
    BY DEF Fallback
  <2>2. rs[i].target = 0 \/ (rs[i].target \in Versions /\ rs[i].target > w)
    BY <2>1, RuleFacts DEF AllForward, Forward
  <2>3. t \in Nat /\ w \in Nat /\ w >= t
    BY <1>1
  <2>4. ASSUME NEW u \in Versions, u > w PROVE u \in S
    BY <1>1, <2>3, <2>4
  <2> HIDE DEF S
  <2> QED
    BY <2>2, <2>4
<1> HIDE DEF S
<1> QED
  BY <1>2, <1>3 DEF NeverLeadsTo

LEMMA ReadyLoads ==
    ASSUME NEW L, NEW r, Ready(L, r), \E v \in Versions : L[v] # NoDir
    PROVE  Loadable(L, r)
<1> DEFINE dirs == {v \in Versions : L[v] # NoDir}
           rs == RulesOf(r)
<1>1. dirs # {} /\ r # Part /\ \A v \in dirs : v \in Versions
  BY DEF Ready
<1>2. \A v \in dirs : LayerLoads(L[v])
  BY LayerFiles3 DEF Ready, AllWhole
<1>3. \A v, w \in dirs :
          v # w => SameDescriptors(L[v]["descriptors"].doc, L[w]["descriptors"].doc)
  BY DEF Ready, Alike
<1>4. \A i \in DOMAIN rs : rs[i] \in RuleSet
  BY RulesAreRules DEF Ready
<1>5. \A i, j \in DOMAIN rs : i # j => rs[i].version # rs[j].version
  BY DEF Ready, OneEach
<1>6. ASSUME NEW i \in DOMAIN rs
      PROVE  /\ rs[i].version \in dirs
             /\ rs[i].kind = "transform" /\ rs[i].target # 0 =>
                   /\ rs[i].target \in dirs
                   /\ L[rs[i].version]["versions"].routes
                         \subseteq L[rs[i].target]["versions"].routes
                   /\ NeverLeadsTo(rs, rs[i].target, rs[i].version)
  <2> PICK q \in RuleSet : q = rs[i]
    BY <1>4
  <2> HIDE DEF rs
  <2>1. Fits(L, q) /\ Forward(q)
    BY DEF Ready, AllFit, AllForward, rs
  <2>2. q.version \in Versions /\ (q.target = 0 \/ q.target \in Versions)
    BY RuleFacts
  <2>3. CASE q.target # 0
    <3>1. q.target > q.version /\ q.target \in Versions
      BY <2>1, <2>2, <2>3 DEF Forward
    <3>2. NeverLeadsTo(rs, q.target, q.version)
      BY <1>4, <2>2, <3>1, ForwardNeverBack DEF Ready, rs
    <3> QED
      BY <2>1, <2>2, <3>1, <3>2 DEF Fits
  <2>4. CASE q.target = 0
    BY <2>1, <2>2, <2>4 DEF Fits
  <2> QED
    BY <2>3, <2>4
<1> HIDE DEF dirs, rs
<1> QED
  BY <1>1, <1>2, <1>3, <1>5, <1>6 DEF Loadable, dirs, rs

LEMMA LoadsReady ==
    ASSUME NEW L \in LayerMap, AllWhole(L), NEW r \in Resolutions \cup {Absent},
           Loadable(L, r), AllForward(RulesOf(r))
    PROVE  Ready(L, r)
<1> DEFINE rs == RulesOf(r)
<1>1. Alike(L) /\ r # Part
  BY DEF Loadable, Alike
<1>2. \A i \in DOMAIN rs : rs[i] \in RuleSet
  BY RulesAreRules
<1>3. OneEach(rs)
  <2>1. \A i \in DOMAIN rs : rs[i].sel = ""
    BY DEF AllForward, Forward
  <2>2. \A i, j \in DOMAIN rs :
            i # j => rs[i].version # rs[j].version \/ rs[i].sel # rs[j].sel
    BY DEF Loadable
  <2> HIDE DEF rs
  <2> QED
    BY <2>1, <2>2 DEF OneEach
<1>4. AllFit(L, rs)
  BY DEF Loadable, AllFit, Fits
<1> QED
  BY <1>1, <1>3, <1>4 DEF Ready

\* A step that promises nothing new.
LEMMA PromiseKept ==
    ASSUME CarefulInv, UNCHANGED <<layers, res, cmd>>, careful' => careful
    PROVE  CarefulInv'
  BY DEF CarefulInv

LEMMA PromiseInit ==
    ASSUME Init
    PROVE  CarefulInv
<1> SUFFICES ASSUME careful PROVE Promised(layers, res, cmd)
  BY DEF CarefulInv
<1>1. cmd = NoCommand /\ res = Absent /\ layers \in LayerMap /\ res # Part
  BY InitHolds, ToolAssumption DEF Init, IInv, Types, LayerMap
<1>2. AllWhole(layers)
  <2>1. PICK c \in Committed :
          layers = [v \in Versions |-> IF c[v] = Absent THEN NoDir ELSE Layer(c[v])]
    BY DEF Init
  <2>2. c \in [Versions -> Docs \cup {Absent}]
    BY FileAssumption
  <2> QED
    BY <2>1, <2>2 DEF AllWhole
<1>3. RulesOf(res) = <<>>
  BY <1>1 DEF RulesOf
<1>4. DOMAIN RulesOf(res) = {}
  BY <1>3
<1>5. OneEach(RulesOf(res)) /\ AllForward(RulesOf(res)) /\ AllFit(layers, RulesOf(res))
  BY <1>4 DEF OneEach, AllForward, AllFit
<1>6. Alike(layers)
  <2>1. CASE Dirs = {}
    BY <2>1 DEF Dirs, Alike
  <2>2. CASE Loadable(layers, res)
    BY <2>2 DEF Loadable, Alike
  <2> QED
    BY <2>1, <2>2 DEF Init
<1>7. Ready(layers, res)
  BY <1>1, <1>2, <1>5, <1>6 DEF Ready
<1> QED
  BY <1>1, <1>7, CommandFacts DEF Promised

\* One directory is given a new layer, or none.
LEMMA ReadyChanged ==
    ASSUME NEW L, NEW r, Ready(L, r), NEW v \in Versions, NEW M,
           M \in LayerMap, \A w \in Versions : w # v => M[w] = L[w],
           M[v] # NoDir =>
               /\ \E d \in Docs : M[v] = Layer(d)
               /\ \A w \in Versions : w # v /\ L[w] # NoDir =>
                     SameDescriptors(M[v]["descriptors"].doc, L[w]["descriptors"].doc),
           \A i \in DOMAIN RulesOf(r) : Fits(M, RulesOf(r)[i])
    PROVE  Ready(M, r)
<1>1. AllWhole(M)
  BY DEF Ready, AllWhole
<1>2. Alike(M)
  <2> SUFFICES ASSUME NEW x \in Versions, NEW w \in Versions, M[x] # NoDir, M[w] # NoDir,
                      x # w
               PROVE  SameDescriptors(M[x]["descriptors"].doc, M[w]["descriptors"].doc)
    BY DEF Alike
  <2>1. CASE x = v
    BY <2>1
  <2>2. CASE w = v
    BY <2>2 DEF SameDescriptors
  <2>3. CASE x # v /\ w # v
    BY <2>3 DEF Ready, Alike
  <2> QED
    BY <2>1, <2>2, <2>3
<1> QED
  BY <1>1, <1>2 DEF Ready, AllFit

LEMMA AddStartPromises ==
    ASSUME IInv, CarefulInv, NEW d \in Docs, NEW force \in BOOLEAN, AddStart(d, force)
    PROVE  CarefulInv'
<1>1. CASE ~ d.accepted \/ (d.version \in Dirs /\ ~ force)
  <2>1. UNCHANGED <<layers, res, cmd, careful>>
    BY <1>1 DEF AddStart, ExitAtOnce
  <2> QED
    BY <2>1, PromiseKept
<1>2. CASE ~ (~ d.accepted \/ (d.version \in Dirs /\ ~ force))
  <2> SUFFICES ASSUME careful' PROVE Promised(layers', res', cmd')
    BY DEF CarefulInv
  <2> DEFINE v == d.version
             M == Outcome(layers, cmd')
  <2>1. careful /\ CarefulAdd(d) /\ cmd = NoCommand /\ UNCHANGED <<layers, res>>
    BY <1>2 DEF AddStart, Start
  <2>2. cmd' = [NoCommand EXCEPT !.op = "add", !.version = d.version, !.doc = d,
                                 !.force = force, !.pc = FirstStep(d.version)]
    BY <1>2 DEF AddStart
  <2>3. cmd'.op = "add" /\ cmd'.version = v /\ cmd'.doc = d
    BY <2>2 DEF NoCommand
  <2>4. Ready(layers, res) /\ v \in Versions /\ layers \in LayerMap
    BY <2>1, ToolAssumption DEF CarefulInv, Promised, Ready
  <2>5. M = [layers EXCEPT ![v] = Layer(d)]
    BY <2>3 DEF Outcome
  <2>6. M \in LayerMap /\ M[v] = Layer(d) /\ \A w \in Versions : w # v => M[w] = layers[w]
    BY <2>4, <2>5, LayerFacts DEF LayerMap
  <2> HIDE DEF M
  <2>7. ASSUME NEW w \in Versions, w # v, layers[w] # NoDir
        PROVE  SameDescriptors(M[v]["descriptors"].doc, layers[w]["descriptors"].doc)
    <3>1. PICK e \in Docs : layers[w] = Layer(e)
      BY <2>4, <2>7 DEF Ready, AllWhole
    <3>2. SameDescriptors(d, e)
      BY <2>1, <2>7, <3>1 DEF CarefulAdd, Dirs, IsWhole
    <3> QED
      BY <2>6, <3>1, <3>2, LayerFiles3
  <2>8. ASSUME NEW i \in DOMAIN RulesOf(res)
        PROVE  Fits(M, RulesOf(res)[i])
    <3>1. PICK q \in RuleSet : q = RulesOf(res)[i]
      BY <2>4, RulesAreRules DEF Ready
    <3>2. Fits(layers, q) /\ Forward(q)
      BY <2>4, <3>1 DEF Ready, AllFit, AllForward
    <3>3. /\ q.version \in Versions /\ q.version \in Nat
          /\ q.target = 0 \/ (q.target \in Versions /\ q.target \in Nat)
      BY RuleFacts
    <3>4. \A w \in Versions : layers[w] # NoDir => M[w] # NoDir
      BY <2>6, LayerFiles3
    <3>5. ASSUME q.kind = "transform", q.target # 0
          PROVE  M[q.version]["versions"].routes \subseteq M[q.target]["versions"].routes
      <4>0. q.target > q.version
        BY <3>2, <3>5 DEF Forward
      <4>1. /\ layers[q.target] # NoDir /\ layers[q.version] # NoDir
            /\ layers[q.version]["versions"].routes \subseteq layers[q.target]["versions"].routes
            /\ q.target # q.version
        BY <3>2, <3>3, <3>5, <4>0 DEF Fits
      <4>2. CASE q.version = v
        <5>1. d.routes \subseteq layers[q.target]["versions"].routes
          BY <2>1, <2>4, <3>1, <3>5, <4>1, <4>2 DEF CarefulAdd, Dirs
        <5> QED
          BY <2>6, <3>3, <3>5, <4>1, <4>2, <5>1, LayerFiles3
      <4>3. CASE q.target = v
        <5>1. PICK e \in Docs : layers[v] = Layer(e)
          BY <2>4, <4>1, <4>3 DEF Ready, AllWhole
        <5>2. e.routes \subseteq d.routes
          BY <2>1, <2>4, <4>1, <4>3, <5>1 DEF CarefulAdd, Dirs, IsWhole
        <5> QED
          BY <2>6, <3>3, <4>1, <4>3, <5>1, <5>2, LayerFiles3
      <4>4. CASE q.version # v /\ q.target # v
        BY <2>6, <3>3, <3>5, <4>1, <4>4
      <4> QED
        BY <4>2, <4>3, <4>4
    <3> QED
      BY <3>1, <3>2, <3>3, <3>4, <3>5 DEF Fits
  <2>9. Ready(M, res)
    BY <2>4, <2>6, <2>7, <2>8, ReadyChanged
  <2> QED
    BY <2>1, <2>3, <2>9, CommandFacts DEF Promised, M
<1> QED
  BY <1>1, <1>2

LEMMA RemoveStartPromises ==
    ASSUME IInv, CarefulInv, NEW v \in Versions, RemoveStart(v)
    PROVE  CarefulInv'
<1>1. CASE ~ Removable(v)
  <2>1. UNCHANGED <<layers, res, cmd, careful>>
    BY <1>1 DEF RemoveStart, ExitAtOnce
  <2> QED
    BY <2>1, PromiseKept
<1>2. CASE Removable(v)
  <2> SUFFICES ASSUME careful' PROVE Promised(layers', res', cmd')
    BY DEF CarefulInv
  <2> DEFINE M == Outcome(layers, cmd')
  <2>1. /\ careful /\ cmd = NoCommand /\ UNCHANGED <<layers, res>>
        /\ \A i \in DOMAIN RulesOf(res) : RulesOf(res)[i].version # v
        /\ \A w \in Dirs : v <= w
    BY <1>2 DEF RemoveStart, Start, Removable
  <2>2. cmd' = [NoCommand EXCEPT !.op = "remove", !.version = v, !.pc = "rm"]
    BY <1>2 DEF RemoveStart
  <2>3. cmd'.op = "remove" /\ cmd'.version = v
    BY <2>2 DEF NoCommand
  <2>4. Ready(layers, res) /\ layers \in LayerMap
    BY <2>1 DEF CarefulInv, Promised, Ready
  <2>5. M = [layers EXCEPT ![v] = NoDir]
    BY <2>3 DEF Outcome
  <2>6. M \in LayerMap /\ M[v] = NoDir /\ \A w \in Versions : w # v => M[w] = layers[w]
    BY <2>4, <2>5 DEF LayerMap
  <2> HIDE DEF M
  <2>7. ASSUME NEW i \in DOMAIN RulesOf(res)
        PROVE  Fits(M, RulesOf(res)[i])
    <3>1. PICK q \in RuleSet : q = RulesOf(res)[i]
      BY <2>4, RulesAreRules DEF Ready
    <3>2. Fits(layers, q) /\ Forward(q) /\ q.version # v
      BY <2>1, <2>4, <3>1 DEF Ready, AllFit, AllForward
    <3>3. /\ q.version \in Versions /\ q.version \in Nat
          /\ q.target = 0 \/ (q.target \in Versions /\ q.target \in Nat)
      BY RuleFacts
    <3>4. v <= q.version /\ v \in Nat
      BY <2>1, <3>2, <3>3, ToolAssumption DEF Fits, Dirs
    <3>5. q.target = 0 \/ q.target > q.version
      BY <3>2 DEF Forward
    <3>6. q.target # 0 => q.target # v
      BY <3>2, <3>3, <3>4, <3>5
    <3> QED
      BY <2>6, <3>1, <3>2, <3>3, <3>6 DEF Fits
  <2>8. Ready(M, res)
    BY <2>4, <2>6, <2>7, ReadyChanged
  <2> QED
    BY <2>1, <2>3, <2>8, CommandFacts DEF Promised, M
<1> QED
  BY <1>1, <1>2

\* The rules of a resolution file with every rule rewritten and one appended.
Extended(rs, q) == Append([i \in DOMAIN rs |-> Rewritten(rs[i])], q)

Kept(rs, out) ==
    \A i \in DOMAIN rs :
        /\ out[i].sel = "" /\ out[i].version = rs[i].version
        /\ out[i].kind = rs[i].kind /\ out[i].target = rs[i].target

OneMore(rs, q, out) ==
    \A i \in DOMAIN out : i \in DOMAIN rs \/ (i = Len(rs) + 1 /\ out[i] = q)

LEMMA ExtendedRules ==
    ASSUME NEW rs \in Seq(RuleSet), NEW q \in RuleSet,
           NEW out, out = Extended(rs, q)
    PROVE  Kept(rs, out) /\ OneMore(rs, q, out)
<1> DEFINE old == [i \in DOMAIN rs |-> Rewritten(rs[i])]
<1>1. DOMAIN rs = 1..Len(rs) /\ Len(rs) \in Nat /\ \A i \in 1..Len(rs) : rs[i] \in RuleSet
  OBVIOUS
<1>2. \A i \in 1..Len(rs) : old[i] = Rewritten(rs[i])
  BY <1>1
<1>3. old \in Seq(RuleSet) /\ Len(old) = Len(rs)
  <2>1. old = [i \in 1..Len(rs) |-> Rewritten(rs[i])]
    BY <1>1
  <2>2. \A i \in 1..Len(rs) : Rewritten(rs[i]) \in RuleSet
    BY <1>1, RewrittenFacts
  <2> HIDE DEF old
  <2> QED
    BY <1>1, <2>1, <2>2
<1> HIDE DEF old
<1>4. out = Append(old, q)
  BY DEF old, Extended
<1>5. /\ DOMAIN out = 1..Len(rs) + 1
      /\ \A i \in 1..Len(rs) : out[i] = old[i]
      /\ out[Len(rs) + 1] = q
  BY <1>1, <1>3, <1>4
<1>6. ASSUME NEW i \in 1..Len(rs)
      PROVE  /\ out[i].sel = "" /\ out[i].version = rs[i].version
             /\ out[i].kind = rs[i].kind /\ out[i].target = rs[i].target
  <2>1. out[i] = Rewritten(rs[i]) /\ rs[i] \in RuleSet
    BY <1>1, <1>2, <1>5
  <2> QED
    BY <2>1, RewrittenFacts
<1>7. ASSUME NEW i \in DOMAIN out
      PROVE  i \in DOMAIN rs \/ (i = Len(rs) + 1 /\ out[i] = q)
  <2>1. PICK m \in Nat : m = Len(rs)
    BY <1>1
  <2>2. i \in 1..m + 1
    BY <1>5, <2>1
  <2>3. i \in 1..m \/ i = m + 1
    BY <2>2
  <2> QED
    BY <1>1, <1>5, <2>1, <2>3
<1> QED
  BY <1>1, <1>6, <1>7 DEF Kept, OneMore

LEMMA RetireStartPromises ==
    ASSUME IInv, CarefulInv, NEW v \in Versions, RetireStart(v)
    PROVE  CarefulInv'
<1>1. CASE RetireRefused(v)
  <2>1. UNCHANGED <<layers, res, cmd, careful>>
    BY <1>1 DEF RetireStart, ExitAtOnce
  <2> QED
    BY <2>1, PromiseKept
<1>2. CASE ~ RetireRefused(v)
  <2> SUFFICES ASSUME careful' PROVE Promised(layers', res', cmd')
    BY DEF CarefulInv
  <2> DEFINE rs  == RulesOf(res)
             n   == Neighbour(v)
             new == Append([i \in DOMAIN rs |-> Rewritten(rs[i])], Shim(v, n))
             out == [rules |-> new, marker |-> FALSE]
  <2>1. cmd' = [NoCommand EXCEPT !.op = "retire", !.version = v, !.pc = "openRes",
                                 !.was = res, !.out = out]
    BY <1>2 DEF RetireStart
  <2>2. /\ careful /\ cmd = NoCommand /\ UNCHANGED <<layers, res>>
        /\ layers[v]["versions"].routes \subseteq layers[n]["versions"].routes
    BY <1>2 DEF RetireStart, Start
  <2>3. /\ v \in Dirs /\ (\E w \in Dirs : ~ (w <= v)) /\ res # Part
        /\ \A i \in DOMAIN rs : rs[i].version # v
    BY <1>2 DEF RetireRefused
  <2>4. Ready(layers, res) /\ rs \in Seq(RuleSet) /\ \A i \in DOMAIN rs : rs[i] \in RuleSet
    BY <2>2, RulesAreRules DEF CarefulInv, Promised, Ready
  <2>5. n \in Dirs /\ n \in Versions /\ n > v
    BY <2>3, NeighbourIsVersion
  <2>6. out \in Resolutions
    BY <2>4, <2>5, RewrittenRules
  <2>7. Shim(v, n) \in RuleSet
    BY <2>5, ToolAssumption DEF Shim, RuleSet
  <2>8. /\ Shim(v, n).version = v /\ Shim(v, n).sel = ""
        /\ Shim(v, n).kind = "transform" /\ Shim(v, n).target = n
    BY DEF Shim
  <2>9. out.rules = new
    OBVIOUS
  <2>10. PICK q \in RuleSet : q = Shim(v, n)
    BY <2>7
  <2>11. new = Extended(rs, q)
    BY <2>10 DEF Extended
  <2> HIDE DEF rs, n, new, out
  <2>12. Kept(rs, new) /\ OneMore(rs, q, new)
    BY <2>4, <2>11, ExtendedRules
  <2>13. OneEach(rs) /\ AllForward(rs) /\ AllFit(layers, rs)
    BY <2>4 DEF Ready, rs
  <2>14. AllForward(new)
    <3> SUFFICES ASSUME NEW i \in DOMAIN new PROVE Forward(new[i])
      BY DEF AllForward
    <3>1. CASE i \in DOMAIN rs
      BY <2>12, <2>13, <3>1 DEF AllForward, Forward, Kept
    <3>2. CASE new[i] = q
      BY <2>5, <2>8, <2>10, <3>2 DEF Forward
    <3> QED
      BY <2>12, <3>1, <3>2 DEF OneMore
  <2>15. AllFit(layers, new)
    <3> SUFFICES ASSUME NEW i \in DOMAIN new PROVE Fits(layers, new[i])
      BY DEF AllFit
    <3>1. CASE i \in DOMAIN rs
      BY <2>12, <2>13, <3>1 DEF AllFit, Fits, Kept
    <3>2. CASE new[i] = q
      BY <2>2, <2>3, <2>5, <2>8, <2>10, <3>2 DEF Fits, Dirs
    <3> QED
      BY <2>12, <3>1, <3>2 DEF OneMore
  <2>16. OneEach(new)
    <3> SUFFICES ASSUME NEW i \in DOMAIN new, NEW j \in DOMAIN new, i # j
                 PROVE  new[i].version # new[j].version
      BY DEF OneEach
    <3>1. i \in DOMAIN rs \/ (i = Len(rs) + 1 /\ new[i].version = v)
      BY <2>8, <2>10, <2>12 DEF OneMore
    <3>2. j \in DOMAIN rs \/ (j = Len(rs) + 1 /\ new[j].version = v)
      BY <2>8, <2>10, <2>12 DEF OneMore
    <3>3. \A k \in DOMAIN rs : new[k].version = rs[k].version /\ rs[k].version # v
      BY <2>3, <2>12 DEF Kept
    <3> QED
      BY <2>13, <3>1, <3>2, <3>3 DEF OneEach
  <2>17. RulesOf(out) = new /\ out # Part /\ out # Absent
    <3>1. out # Absent /\ out # Part
      BY <2>6, FileAssumption
    <3> QED
      BY <2>9, <3>1 DEF RulesOf
  <2>18. Ready(layers, out)
    BY <2>4, <2>6, <2>14, <2>15, <2>16, <2>17 DEF Ready
  <2>19. cmd'.op = "retire" /\ cmd'.out = out
    BY <2>1 DEF NoCommand
  <2> QED
    BY <2>2, <2>18, <2>19, CommandFacts DEF Promised
<1> QED
  BY <1>1, <1>2

\* What the directories will be does not depend on what is left of the one that
\* is being written or removed.
LEMMA SameOutcome ==
    ASSUME NEW L \in LayerMap, NEW M \in LayerMap, NEW c, NEW v \in Versions, c.version = v,
           \A w \in Versions : w # v => M[w] = L[w]
    PROVE  Outcome(M, c) = Outcome(L, c)
<1> DEFINE l == IF c.op = "add" THEN Layer(c.doc) ELSE NoDir
<1>1. Outcome(L, c) = [L EXCEPT ![v] = l] /\ Outcome(M, c) = [M EXCEPT ![v] = l]
  BY DEF Outcome
<1>2. Outcome(L, c) = [w \in Versions |-> IF w = v THEN l ELSE L[w]]
  BY <1>1 DEF LayerMap
<1>3. Outcome(M, c) = [w \in Versions |-> IF w = v THEN l ELSE M[w]]
  BY <1>1 DEF LayerMap
<1> HIDE DEF l
<1>4. \A w \in Versions : (IF w = v THEN l ELSE L[w]) = (IF w = v THEN l ELSE M[w])
  OBVIOUS
<1> QED
  BY <1>2, <1>3, <1>4

\* A step in the middle of add or remove.
LEMMA WorkPromises ==
    ASSUME CarefulInv, cmd.op \in {"add", "remove"}, cmd.version \in Versions,
           cmd'.op = cmd.op, cmd'.version = cmd.version, cmd'.doc = cmd.doc,
           layers \in LayerMap, layers' \in LayerMap,
           \A w \in Versions : w # cmd.version => layers'[w] = layers[w],
           res' = res, careful' => careful
    PROVE  CarefulInv'
<1> SUFFICES ASSUME careful' PROVE Promised(layers', res', cmd')
  BY DEF CarefulInv
<1>1. Ready(Outcome(layers, cmd), res)
  BY DEF CarefulInv, Promised
<1>2. Outcome(layers', cmd') = Outcome(layers', cmd)
  BY DEF Outcome
<1>3. Outcome(layers', cmd) = Outcome(layers, cmd)
  BY SameOutcome
<1> QED
  BY <1>1, <1>2, <1>3, CommandFacts DEF Promised

\* The last step of add or remove.
LEMMA DonePromises ==
    ASSUME CarefulInv, cmd.op \in {"add", "remove"}, cmd.version \in Versions,
           cmd' = NoCommand, layers \in LayerMap, layers' \in LayerMap,
           layers'[cmd.version] = IF cmd.op = "add" THEN Layer(cmd.doc) ELSE NoDir,
           \A w \in Versions : w # cmd.version => layers'[w] = layers[w],
           res' = res, careful' => careful
    PROVE  CarefulInv'
<1> SUFFICES ASSUME careful' PROVE Promised(layers', res', cmd')
  BY DEF CarefulInv
<1>1. Ready(Outcome(layers, cmd), res)
  BY DEF CarefulInv, Promised
<1>2. Outcome(layers', cmd) = layers'
  BY DEF Outcome, LayerMap
<1>3. Outcome(layers', cmd) = Outcome(layers, cmd)
  BY SameOutcome
<1> QED
  BY <1>1, <1>2, <1>3, CommandFacts DEF Promised

LEMMA RemoveFilePromises ==
    ASSUME IInv, CarefulInv, RemoveFile
    PROVE  CarefulInv'
<1>1. cmd.pc = "rm" /\ UNCHANGED <<res, cmd, careful>>
  BY DEF RemoveFile
<1>2. PICK f \in Files : layers' = FileSet(layers, cmd.version, f, Absent)
  BY DEF RemoveFile, FileSet
<1>3. cmd.version \in Versions /\ layers[cmd.version] # NoDir /\ layers \in LayerMap
      /\ cmd.op \in {"add", "remove"}
  BY <1>1, RmFacts DEF IInv, Types, LayerMap, Adding, Removing
<1>4. layers' \in LayerMap /\ \A w \in Versions : w # cmd.version => layers'[w] = layers[w]
  BY <1>2, <1>3, SetFile
<1> QED
  BY <1>1, <1>3, <1>4, WorkPromises

LEMMA RemoveDirPromises ==
    ASSUME IInv, CarefulInv, RemoveDir
    PROVE  CarefulInv'
<1> DEFINE v == cmd.version
<1>1. cmd.pc = "rm" /\ UNCHANGED <<res, careful>> /\ layers' = [layers EXCEPT ![v] = NoDir]
  BY DEF RemoveDir
<1>2. v \in Versions /\ layers \in LayerMap /\ cmd.op \in {"add", "remove"}
      /\ cmd \in Commands
  BY <1>1, RmFacts DEF IInv, Types, LayerMap, Adding, Removing
<1>3. /\ layers' \in LayerMap /\ layers'[v] = NoDir
      /\ \A w \in Versions : w # v => layers'[w] = layers[w]
  BY <1>1, <1>2 DEF LayerMap
<1>4. CASE cmd.op = "add"
  <2>1. cmd' = [cmd EXCEPT !.pc = "mkdir"]
    BY <1>4 DEF RemoveDir
  <2>2. cmd'.op = cmd.op /\ cmd'.version = v /\ cmd'.doc = cmd.doc
    BY <1>2, <2>1 DEF Commands
  <2> QED
    BY <1>1, <1>2, <1>3, <2>2, WorkPromises
<1>5. CASE cmd.op # "add"
  <2>1. cmd' = NoCommand
    BY <1>5 DEF RemoveDir, Exit
  <2> QED
    BY <1>1, <1>2, <1>3, <1>5, <2>1, DonePromises
<1> QED
  BY <1>4, <1>5

LEMMA MkdirAllPromises ==
    ASSUME IInv, CarefulInv, MkdirAll
    PROVE  CarefulInv'
<1> DEFINE v == cmd.version
<1>1. Adding /\ layers[v] = NoDir /\ UNCHANGED <<res, careful>>
  BY CommandFacts DEF IInv, MkdirAll, Idle, Adding, Removing, Retiring
<1>2. v \in Versions /\ layers \in LayerMap /\ cmd \in Commands /\ cmd.op = "add"
  BY <1>1 DEF IInv, Types, LayerMap, Adding
<1>3. layers' = [layers EXCEPT ![v] = EmptyDir]
  BY <1>1 DEF MkdirAll
<1>4. layers' \in LayerMap /\ \A w \in Versions : w # v => layers'[w] = layers[w]
  BY <1>2, <1>3, LayerFacts DEF LayerMap
<1>5. cmd' = [cmd EXCEPT !.pc = "open", !.file = 1]
  BY DEF MkdirAll
<1>6. cmd'.op = cmd.op /\ cmd'.version = v /\ cmd'.doc = cmd.doc
  BY <1>2, <1>5 DEF Commands
<1> QED
  BY <1>1, <1>2, <1>4, <1>6, WorkPromises

LEMMA OpenFilePromises ==
    ASSUME IInv, CarefulInv, OpenFile
    PROVE  CarefulInv'
<1>1. /\ cmd.pc = "open" /\ UNCHANGED <<res, careful>>
      /\ layers' = FileSet(layers, cmd.version, FileOrder[cmd.file], Part)
      /\ cmd' = [cmd EXCEPT !.pc = "write"]
  BY DEF OpenFile, FileSet
<1>2. cmd.version \in Versions /\ layers \in LayerMap /\ cmd \in Commands /\ cmd.op = "add"
  BY <1>1, AtFile DEF IInv, Types, Adding
<1>3. layers' \in LayerMap /\ \A w \in Versions : w # cmd.version => layers'[w] = layers[w]
  BY <1>1, FileStep
<1>4. cmd'.op = cmd.op /\ cmd'.version = cmd.version /\ cmd'.doc = cmd.doc
  BY <1>1, <1>2 DEF Commands
<1> QED
  BY <1>1, <1>2, <1>3, <1>4, WorkPromises

LEMMA WriteFilePromises ==
    ASSUME IInv, CarefulInv, WriteFile
    PROVE  CarefulInv'
<1>1. /\ cmd.pc = "write" /\ UNCHANGED <<res, careful>>
      /\ layers' = FileSet(layers, cmd.version, FileOrder[cmd.file], Whole(cmd.doc))
  BY DEF WriteFile, FileSet
<1>2. /\ cmd.version \in Versions /\ layers \in LayerMap /\ cmd \in Commands
      /\ cmd.op = "add" /\ cmd.doc \in Docs /\ cmd.file \in 1..3
  BY <1>1, AtFile DEF IInv, Types, Adding
<1>3. /\ layers' \in LayerMap
      /\ layers'[cmd.version] \in LayerFiles
      /\ \A i \in 1..3 : layers'[cmd.version][FileOrder[i]] =
            IF i < cmd.file THEN Whole(cmd.doc)
            ELSE IF i = cmd.file THEN Whole(cmd.doc) ELSE Absent
      /\ \A w \in Versions : w # cmd.version => layers'[w] = layers[w]
  BY <1>1, <1>2, FileStep, WholeFacts
<1>4. CASE cmd.file < 3
  <2>1. cmd' = [cmd EXCEPT !.pc = "open", !.file = @ + 1]
    BY <1>4 DEF WriteFile
  <2>2. cmd'.op = cmd.op /\ cmd'.version = cmd.version /\ cmd'.doc = cmd.doc
    BY <1>2, <2>1 DEF Commands
  <2> QED
    BY <1>1, <1>2, <1>3, <2>2, WorkPromises
<1>5. CASE ~ (cmd.file < 3)
  <2>1. cmd' = NoCommand
    BY <1>5 DEF WriteFile, Exit
  <2>2. \A i \in 1..3 : i < cmd.file \/ i = cmd.file
    BY <1>2, <1>5
  <2>3. \A f \in Files : layers'[cmd.version][f] = Whole(cmd.doc)
    BY <1>3, <2>2, FileOrderFacts
  <2>4. layers'[cmd.version] = Layer(cmd.doc)
    BY <1>3, <2>3 DEF LayerFiles, Layer
  <2> QED
    BY <1>1, <1>2, <1>3, <2>1, <2>4, DonePromises
<1> QED
  BY <1>4, <1>5

LEMMA ResolutionPromises ==
    ASSUME IInv, CarefulInv, OpenResolution \/ WriteResolution
    PROVE  CarefulInv'
<1>1. Retiring /\ UNCHANGED <<layers, careful>>
  BY AtResolution DEF OpenResolution, WriteResolution
<1>2. careful => Ready(layers, cmd.out)
  BY <1>1 DEF CarefulInv, Promised, Retiring
<1>3. CASE OpenResolution
  <2>1. cmd' = [cmd EXCEPT !.pc = "writeRes"] /\ cmd \in Commands
    BY <1>3 DEF OpenResolution, IInv, Types
  <2>2. cmd'.op = "retire" /\ cmd'.out = cmd.out
    BY <1>1, <2>1 DEF Commands, Retiring
  <2> QED
    BY <1>1, <1>2, <2>2, CommandFacts DEF CarefulInv, Promised
<1>4. CASE WriteResolution
  <2>1. cmd' = NoCommand /\ res' = cmd.out
    BY <1>4 DEF WriteResolution, Exit
  <2> QED
    BY <1>1, <1>2, <2>1, CommandFacts DEF CarefulInv, Promised
<1> QED
  BY <1>3, <1>4

LEMMA EditPromises ==
    ASSUME IInv, CarefulInv, Edit
    PROVE  CarefulInv'
<1>1. PICK e \in Edits :
        /\ res' = e
        /\ careful' = (/\ careful
                       /\ Loadable(layers, e)
                       /\ \A i \in DOMAIN e.rules :
                             /\ e.rules[i].sel = ""
                             /\ e.rules[i].target = 0 \/ e.rules[i].target > e.rules[i].version)
  BY DEF Edit
<1>2. cmd = NoCommand /\ UNCHANGED <<layers, cmd>>
  BY DEF Edit
<1> SUFFICES ASSUME careful' PROVE Promised(layers', res', cmd')
  BY DEF CarefulInv
<1>3. e \in Resolutions /\ e # Absent
  BY FileAssumption
<1>4. layers \in LayerMap /\ AllWhole(layers)
  BY <1>1, <1>2 DEF CarefulInv, Promised, Ready
<1>5. RulesOf(e) = e.rules
  BY <1>3 DEF RulesOf
<1>6. AllForward(RulesOf(e))
  BY <1>1, <1>5 DEF AllForward, Forward
<1>7. Ready(layers, e)
  BY <1>1, <1>3, <1>4, <1>6, LoadsReady
<1> QED
  BY <1>1, <1>2, <1>7, CommandFacts DEF Promised

LEMMA PromisesKept == IInv /\ CarefulInv /\ [Next]_vars => CarefulInv'
<1> SUFFICES ASSUME IInv, CarefulInv, [Next]_vars PROVE CarefulInv'
  OBVIOUS
<1>1. ASSUME NEW d \in Docs, NEW force \in BOOLEAN, AddStart(d, force) PROVE CarefulInv'
  BY <1>1, AddStartPromises
<1>2. ASSUME NEW v \in Versions, RemoveStart(v) PROVE CarefulInv'
  BY <1>2, RemoveStartPromises
<1>3. ASSUME NEW v \in Versions, RetireStart(v) PROVE CarefulInv'
  BY <1>3, RetireStartPromises
<1>4. CASE RemoveFile
  BY <1>4, RemoveFilePromises
<1>5. CASE RemoveDir
  BY <1>5, RemoveDirPromises
<1>6. CASE MkdirAll
  BY <1>6, MkdirAllPromises
<1>7. CASE OpenFile
  BY <1>7, OpenFilePromises
<1>8. CASE WriteFile
  BY <1>8, WriteFilePromises
<1>9. CASE ShortManifest \/ ShortResolution \/ Interrupt
  BY <1>9 DEF ShortManifest, ShortResolution, Interrupt, CarefulInv
<1>10. CASE OpenResolution \/ WriteResolution
  BY <1>10, ResolutionPromises
<1>11. CASE Edit
  BY <1>11, EditPromises
<1>12. CASE Verify
  BY <1>12, PromiseKept DEF Verify, ExitAtOnce
<1>13. CASE LoadStart \/ LoadResolution \/ LoadFile \/ LoadEnd \/ UNCHANGED vars
  BY <1>13, PromiseKept DEF LoadStart, LoadResolution, LoadFile, LoadEnd, vars
<1> QED
  BY <1>1, <1>2, <1>3, <1>4, <1>5, <1>6, <1>7, <1>8, <1>9, <1>10, <1>11, <1>12, <1>13 DEF Next

\* docs/concepts.md:70-75, docs/operations.md:39-42: whatever versions and
\* documents there are and however many commands are run, as long as each runs
\* to its end and is one a careful operator would run, the directory loads.
THEOREM CarefulStaysLoadableHolds == Spec => []CarefulStaysLoadable
<1>1. CarefulInv => CarefulStaysLoadable
  <2> SUFFICES ASSUME CarefulInv, careful, cmd = NoCommand, Dirs # {}
               PROVE  Loadable(layers, res)
    BY DEF CarefulStaysLoadable
  <2>1. Ready(layers, res) /\ \E v \in Versions : layers[v] # NoDir
    BY DEF CarefulInv, Promised, Dirs
  <2> QED
    BY <2>1, ReadyLoads
<1>2. Init => CarefulInv
  BY PromiseInit
<1> QED
  BY <1>1, <1>2, PromisesKept, Invariant, PTL DEF Spec
=============================================================================
