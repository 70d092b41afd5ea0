------------------------- MODULE ScriptLoaderProofs --------------------------
(***************************************************************************)
(* What holds of ScriptLoader for every archive, script, number of          *)
(* descriptors and number of blocks.                                        *)
(*                                                                         *)
(* FilesInv says how the table, its free list and the memory fit together,  *)
(* given that the loader holds buffer; every call of CpioFs keeps it.       *)
(* LoaderInv says what the loader holds, and ReadInv how much of the script *)
(* it has read, at each pc.  PathsResolve rests on what paths mean, at the  *)
(* end.                                                                     *)
(***************************************************************************)
EXTENDS ScriptLoader, SequenceTheorems, FoldLemmas, TLAPS

-----------------------------------------------------------------------------
(* The inductive invariant.                                                 *)

FileAt(name, state) == \E pos \in 0 .. Archive[name] : state = FileState(name, pos)

Shapes ==
  /\ fd_table \in [Fds -> [filetype : {"none", "cpio"}, data : Blocks \cup {NULL}]]
  /\ free_fds \in [Fds -> {0, 1}]
  /\ memory = [b \in Blocks |-> memory[b]]
  /\ opened = [f \in DOMAIN opened |-> opened[f]]
  /\ DOMAIN opened \subseteq Fds /\ left \subseteq Fds
  /\ buffer \in Blocks \cup {NULL}

OpenFiles ==
  \A f \in DOMAIN opened :
    /\ opened[f] \in Names
    /\ fd_table[f].filetype = "cpio" /\ fd_table[f].data \in Blocks
    /\ FileAt(opened[f], memory[fd_table[f].data])

FreeList == \A f \in Fds : free_fds[f] = IF f \in DOMAIN opened THEN 0 ELSE 1

(* A block in use has an owner, and only one.                               *)
Owners ==
  /\ \A b \in Blocks :
       memory[b] # Free => b = buffer \/ \E f \in DOMAIN opened : b = fd_table[f].data
  /\ buffer # NULL => memory[buffer] # Free
  /\ \A f, g \in DOMAIN opened : fd_table[f].data = fd_table[g].data => f = g
  /\ \A f \in DOMAIN opened : fd_table[f].data # buffer

Served ==
  /\ ServedIsOpen
  /\ left \cap DOMAIN opened = {}

FilesInv == Shapes /\ OpenFiles /\ FreeList /\ Owners /\ Served

LoaderInv ==
  /\ pc \in Loading \cup {"boot", "run", "over"}
  /\ DOMAIN opened = ruby_fds \cup (IF pc \in Holding THEN {fd} ELSE {})
  /\ pc \in Holding => fd \notin ruby_fds
  /\ fd \in Fds \cup {-1} /\ buffer_size \in Nat /\ used \in Nat
  /\ pc \in {"boot", "open", "fstat", "malloc", "over"} => buffer = NULL
  /\ pc \in {"read", "close", "terminate", "run", "free"} => buffer # NULL

Sofar(n) == [i \in 1 .. n |-> i]
TextAt(state) == \E n \in Nat, bytes \in Seq(Nat) : state = Text(bytes, n) /\ Len(bytes) <= n

ReadInv ==
  /\ buffer # NULL => TextAt(memory[buffer])
  /\ pc \in Holding => opened[fd] = script_file
  /\ pc \in {"fstat", "malloc"} => memory[fd_table[fd].data].current = 0
  /\ pc \in {"malloc", "read", "close", "terminate"} =>
       script_file \in Names /\ buffer_size = Archive[script_file] + 1
  /\ pc \in {"read", "close"} =>
       /\ memory[fd_table[fd].data].current = used
       /\ used <= Archive[script_file]
       /\ memory[buffer] = Text(Sofar(used), buffer_size)
  /\ pc \in {"close", "terminate"} => used = Archive[script_file]
  /\ RunsWholeScript

IInv == FilesInv /\ LoaderInv /\ ReadInv

-----------------------------------------------------------------------------
(* Every call of the file system keeps FilesInv.                            *)

(* Two open descriptors have two blocks.                                    *)
LEMMA Distinct ==
  ASSUME NEW name, NEW pos, NEW bytes, NEW n
  PROVE  FileState(name, pos) # Free /\ Text(bytes, n) # Free
         /\ FileState(name, pos) # Text(bytes, n)
  BY DEF FileState, Free, Text

(* An open that has a descriptor and no memory.                             *)
LEMMA NoMemoryKeeps ==
  ASSUME FilesInv, NEW f \in Fds, free_fds[f] > 0, open_without_memory(f),
         buffer' = buffer
  PROVE  FilesInv' /\ opened' = opened /\ memory' = memory
         /\ \A g \in DOMAIN opened : fd_table'[g] = fd_table[g]
  <1>1. f \notin DOMAIN opened
    BY DEF FilesInv, FreeList
  <1>2. /\ fd_table' = [fd_table EXCEPT ![f] = [filetype |-> "cpio", data |-> NULL]]
        /\ free_fds' = free_fds /\ memory' = memory /\ opened' = opened
        /\ left' = left \ {f}
    BY DEF open_without_memory
  <1>3. Shapes'
    BY <1>2 DEF FilesInv, Shapes
  <1>4. \A g \in DOMAIN opened : fd_table'[g] = fd_table[g]
    BY <1>1, <1>2 DEF FilesInv, Shapes
  <1>5. OpenFiles'
    BY <1>2, <1>4 DEF FilesInv, OpenFiles
  <1>6. FreeList'
    BY <1>2 DEF FilesInv, FreeList
  <1>7. Owners'
    BY <1>2, <1>4 DEF FilesInv, Owners
  <1>8. ASSUME NEW g \in Fds PROVE served(g)' <=> g \in DOMAIN opened' \cup left'
    BY <1>1, <1>2 DEF FilesInv, Shapes, Served, ServedIsOpen, served
  <1>9. Served'
    BY <1>2, <1>8 DEF FilesInv, Served, ServedIsOpen
  <1> QED BY <1>2, <1>3, <1>4, <1>5, <1>6, <1>7, <1>9 DEF FilesInv

(* An open that succeeds.                                                   *)
LEMMA OpenKeeps ==
  ASSUME FilesInv, NEW f \in Fds, free_fds[f] > 0, NEW b \in Blocks, memory[b] = Free,
         NEW name \in Names, open_with_memory(f, b, name), buffer' = buffer
  PROVE  /\ FilesInv'
         /\ f \notin DOMAIN opened /\ DOMAIN opened' = DOMAIN opened \cup {f}
         /\ opened'[f] = name /\ memory'[fd_table'[f].data] = FileState(name, 0)
         /\ \A g \in DOMAIN opened : /\ opened'[g] = opened[g]
                                     /\ fd_table'[g] = fd_table[g]
         /\ \A c \in Blocks : memory[c] # Free => memory'[c] = memory[c]
  <1>1. f \notin DOMAIN opened
    BY DEF FilesInv, FreeList
  <1>2. /\ fd_table' = [fd_table EXCEPT ![f] = [filetype |-> "cpio", data |-> b]]
        /\ free_fds' = [free_fds EXCEPT ![f] = @ - 1]
        /\ memory' = [memory EXCEPT ![b] = FileState(name, 0)]
        /\ opened' = [x \in DOMAIN opened \cup {f} |-> IF x = f THEN name ELSE opened[x]]
        /\ left' = left \ {f}
    BY DEF open_with_memory, open_at, Allocated
  <1>3. /\ DOMAIN opened' = DOMAIN opened \cup {f}
        /\ opened'[f] = name
        /\ \A g \in DOMAIN opened : opened'[g] = opened[g]
    BY <1>1, <1>2
  <1>4. /\ fd_table'[f] = [filetype |-> "cpio", data |-> b]
        /\ \A g \in Fds : g # f => fd_table'[g] = fd_table[g]
        /\ memory'[b] = FileState(name, 0)
        /\ \A c \in Blocks : c # b => memory'[c] = memory[c]
    BY <1>2 DEF FilesInv, Shapes
  <1>5. FileState(name, 0) # Free
    BY Distinct
  <1>6. Shapes'
    <2>1. free_fds' \in [Fds -> {0, 1}]
      BY <1>2 DEF FilesInv, Shapes, FreeList
    <2>2. opened' = [g \in DOMAIN opened' |-> opened'[g]] /\ DOMAIN opened' \subseteq Fds
      BY <1>2, <1>3 DEF FilesInv, Shapes
    <2> QED BY <1>2, <2>1, <2>2 DEF FilesInv, Shapes
  <1>7. ASSUME NEW g \in DOMAIN opened
        PROVE  fd_table[g].data \in Blocks /\ fd_table[g].data # b
    <2>1. \E pos : memory[fd_table[g].data] = FileState(opened[g], pos)
      BY DEF FilesInv, OpenFiles, FileAt
    <2> QED BY <2>1, Distinct DEF FilesInv, OpenFiles
  <1>8. OpenFiles'
    <2> SUFFICES ASSUME NEW g \in DOMAIN opened'
                 PROVE  /\ opened'[g] \in Names
                        /\ fd_table'[g].filetype = "cpio" /\ fd_table'[g].data \in Blocks
                        /\ FileAt(opened'[g], memory'[fd_table'[g].data])
      BY DEF OpenFiles
    <2>1. CASE g = f
      <3>1. Archive[name] \in Nat
        BY ArchiveAssumption
      <3> QED BY <2>1, <1>3, <1>4, <3>1 DEF FileAt
    <2>2. CASE g # f
      BY <2>2, <1>3, <1>4, <1>7 DEF FilesInv, OpenFiles, Shapes
    <2> QED BY <2>1, <2>2
  <1>9. FreeList'
    BY <1>1, <1>2, <1>3 DEF FilesInv, FreeList, Shapes
  <1>10. Owners'
    <2>1. b # buffer
      BY ArchiveAssumption DEF FilesInv, Owners
    <2>2. ASSUME NEW c \in Blocks, memory'[c] # Free, c # buffer
          PROVE  \E g \in DOMAIN opened' : c = fd_table'[g].data
      <3>1. CASE c = b
        BY <3>1, <1>3, <1>4
      <3>2. CASE c # b
        <4>1. PICK g \in DOMAIN opened : c = fd_table[g].data
          BY <3>2, <2>2, <1>4 DEF FilesInv, Owners
        <4>2. g \in Fds /\ g # f /\ g \in DOMAIN opened'
          BY <1>1, <1>3 DEF FilesInv, Shapes
        <4>3. fd_table'[g] = fd_table[g]
          BY <4>2, <1>4
        <4> QED BY <4>1, <4>2, <4>3
      <3> QED BY <3>1, <3>2
    <2>3. buffer # NULL => memory'[buffer] # Free
      BY <2>1, <1>4 DEF FilesInv, Owners, Shapes
    <2>4. \A g, h \in DOMAIN opened' : fd_table'[g].data = fd_table'[h].data => g = h
      BY <1>1, <1>3, <1>4, <1>7 DEF FilesInv, Owners, Shapes
    <2>5. \A g \in DOMAIN opened' : fd_table'[g].data # buffer
      BY <2>1, <1>1, <1>3, <1>4 DEF FilesInv, Owners, Shapes
    <2> QED BY <2>2, <2>3, <2>4, <2>5 DEF Owners
  <1>11. ASSUME NEW g \in Fds PROVE served(g)' <=> g \in DOMAIN opened' \cup left'
    <2>1. CASE g = f
      BY <2>1, <1>3, <1>4, ArchiveAssumption DEF served
    <2>2. CASE g # f
      BY <2>2, <1>2, <1>3, <1>4 DEF FilesInv, Served, ServedIsOpen, served
    <2> QED BY <2>1, <2>2
  <1>12. Served'
    BY <1>2, <1>3, <1>11 DEF FilesInv, Served, ServedIsOpen
  <1> QED
    BY <1>1, <1>3, <1>4, <1>6, <1>8, <1>9, <1>10, <1>12 DEF FilesInv, Shapes

(* A file of an open descriptor, and how a read moves it.                   *)
LEMMA FileRead ==
  ASSUME FilesInv, NEW f \in DOMAIN opened, NEW asked \in Nat, NEW n \in Available(f, asked)
  PROVE  /\ fd_table[f].data \in Blocks /\ fd_table[f].data # buffer
         /\ opened[f] \in Names /\ Archive[opened[f]] \in Nat
         /\ memory[fd_table[f].data].current \in 0 .. Archive[opened[f]]
         /\ memory[fd_table[f].data] =
              FileState(opened[f], memory[fd_table[f].data].current)
         /\ n \in Nat /\ n <= asked
         /\ memory[fd_table[f].data].current + n <= Archive[opened[f]]
         /\ n = 0 => asked = 0 \/ memory[fd_table[f].data].current = Archive[opened[f]]
         /\ [memory[fd_table[f].data] EXCEPT !.current = @ + n] =
              FileState(opened[f], memory[fd_table[f].data].current + n)
  <1>1. /\ opened[f] \in Names /\ Archive[opened[f]] \in Nat
        /\ fd_table[f].data \in Blocks /\ fd_table[f].data # buffer
    BY ArchiveAssumption DEF FilesInv, OpenFiles, Owners
  <1>2. PICK pos \in 0 .. Archive[opened[f]] :
               memory[fd_table[f].data] = FileState(opened[f], pos)
    BY DEF FilesInv, OpenFiles, FileAt
  <1>3. /\ memory[fd_table[f].data].current = pos
        /\ memory[fd_table[f].data].size = Archive[opened[f]]
    BY <1>2 DEF FileState
  <1>4. /\ n \in Nat /\ n <= asked /\ pos + n <= Archive[opened[f]]
        /\ n = 0 => asked = 0 \/ pos = Archive[opened[f]]
    BY <1>1, <1>3 DEF Available
  <1>5. [memory[fd_table[f].data] EXCEPT !.current = @ + n] = FileState(opened[f], pos + n)
    BY <1>2, <1>3 DEF FileState
  <1> QED BY <1>1, <1>2, <1>3, <1>4, <1>5

(* Memory that changes in the files' positions and in the buffer only.      *)
LEMMA MemoryKeeps ==
  ASSUME FilesInv, UNCHANGED <<fd_table, free_fds, opened, left>>,
         memory' = [b \in Blocks |-> memory'[b]],
         buffer' \in Blocks \cup {NULL},
         \A f \in DOMAIN opened : /\ FileAt(opened[f], memory'[fd_table[f].data])
                                  /\ fd_table[f].data # buffer',
         buffer' # NULL => memory'[buffer'] # Free,
         \A b \in Blocks : memory'[b] # Free /\ b # buffer' => memory[b] # Free /\ b # buffer
  PROVE  FilesInv'
  <1>1. Shapes'
    BY DEF FilesInv, Shapes
  <1>2. OpenFiles'
    BY DEF FilesInv, OpenFiles
  <1>3. FreeList'
    BY DEF FilesInv, FreeList
  <1>4. Owners'
    BY DEF FilesInv, Owners, Free
  <1>5. Served'
    BY DEF FilesInv, Served, ServedIsOpen, served
  <1> QED BY <1>1, <1>2, <1>3, <1>4, <1>5 DEF FilesInv

LEMMA ReadKeeps ==
  ASSUME FilesInv, NEW f \in DOMAIN opened, NEW n \in Available(f, 1), ReadBytes(f, n),
         buffer' = buffer
  PROVE  /\ FilesInv' /\ opened' = opened
         /\ buffer # NULL => memory'[buffer] = memory[buffer]
  <1> DEFINE d == fd_table[f].data
  <1>1. /\ memory' = [memory EXCEPT ![d] = FileState(opened[f], memory[d].current + n)]
        /\ memory[d] # Free /\ d \in Blocks /\ d # buffer
        /\ FileAt(opened[f], FileState(opened[f], memory[d].current + n))
    <2>1. /\ d \in Blocks /\ d # buffer /\ opened[f] \in Names
          /\ Archive[opened[f]] \in Nat /\ memory[d].current \in 0 .. Archive[opened[f]]
          /\ memory[d] = FileState(opened[f], memory[d].current)
          /\ n \in Nat /\ memory[d].current + n <= Archive[opened[f]]
          /\ [memory[d] EXCEPT !.current = @ + n] =
               FileState(opened[f], memory[d].current + n)
      BY FileRead, 1 \in Nat
    <2>2. memory' = [memory EXCEPT ![d] = [memory[d] EXCEPT !.current = @ + n]]
      BY DEF ReadBytes
    <2> HIDE DEF d
    <2>3. memory[d] # Free
      BY <2>1, Distinct
    <2>4. FileAt(opened[f], FileState(opened[f], memory[d].current + n))
      BY <2>1 DEF FileAt
    <2> QED BY <2>1, <2>2, <2>3, <2>4
  <1>2. UNCHANGED <<fd_table, free_fds, opened, left>>
    BY DEF ReadBytes
  <1>3. /\ memory' = [b \in Blocks |-> memory'[b]]
        /\ memory'[d] = FileState(opened[f], memory[d].current + n)
        /\ \A b \in Blocks : b # d => memory'[b] = memory[b]
    BY <1>1 DEF FilesInv, Shapes
  <1> HIDE DEF d
  <1>4. ASSUME NEW g \in DOMAIN opened
        PROVE  FileAt(opened[g], memory'[fd_table[g].data]) /\ fd_table[g].data # buffer
    <2>1. CASE g = f
      BY <2>1, <1>1, <1>3 DEF d
    <2>2. CASE g # f
      BY <2>2, <1>3 DEF FilesInv, OpenFiles, Owners, d
    <2> QED BY <2>1, <2>2
  <1>5. /\ buffer # NULL => memory'[buffer] = memory[buffer]
        /\ buffer \in Blocks \cup {NULL}
    BY <1>1, <1>3 DEF FilesInv, Shapes
  <1>6. buffer # NULL => memory[buffer] # Free
    BY DEF FilesInv, Owners
  <1>7. \A b \in Blocks : memory'[b] # Free => memory[b] # Free
    BY <1>1, <1>3
  <1> QED BY <1>2, <1>3, <1>4, <1>5, <1>6, <1>7, MemoryKeeps

LEMMA CloseKeeps ==
  ASSUME FilesInv, NEW f \in DOMAIN opened, close(f), buffer' = buffer
  PROVE  /\ FilesInv' /\ DOMAIN opened' = DOMAIN opened \ {f}
         /\ \A g \in DOMAIN opened' : /\ opened'[g] = opened[g]
                                      /\ fd_table'[g] = fd_table[g]
                                      /\ memory'[fd_table[g].data] = memory[fd_table[g].data]
         /\ buffer # NULL => memory'[buffer] = memory[buffer]
  <1> DEFINE d == fd_table[f].data
  <1>1. /\ memory' = [memory EXCEPT ![d] = Free]
        /\ free_fds' = [free_fds EXCEPT ![f] = @ + 1]
        /\ opened' = [x \in DOMAIN opened \ {f} |-> opened[x]]
        /\ \/ fd_table' = [fd_table EXCEPT ![f] = [filetype |-> "none", data |-> NULL]]
              /\ left' = left
           \/ fd_table' = fd_table /\ left' = left \cup {f}
    BY DEF close
  <1>2. d \in Blocks /\ d # buffer /\ f \in Fds
    BY DEF FilesInv, OpenFiles, Owners, Shapes
  <1>3. /\ DOMAIN opened' = DOMAIN opened \ {f}
        /\ \A g \in DOMAIN opened' : opened'[g] = opened[g]
        /\ opened' = [x \in DOMAIN opened' |-> opened'[x]]
    BY <1>1
  <1>4. /\ memory'[d] = Free /\ \A b \in Blocks : b # d => memory'[b] = memory[b]
        /\ memory' = [b \in Blocks |-> memory'[b]]
        /\ \A g \in Fds : g # f => fd_table'[g] = fd_table[g]
    BY <1>1, <1>2 DEF FilesInv, Shapes
  <1>5. Shapes'
    BY <1>1, <1>2, <1>3, <1>4 DEF FilesInv, Shapes, FreeList
  <1>6. \A g \in DOMAIN opened' :
          /\ fd_table[g].data \in Blocks /\ fd_table[g].data # d
          /\ memory'[fd_table[g].data] = memory[fd_table[g].data]
          /\ fd_table'[g] = fd_table[g]
    BY <1>3, <1>4 DEF FilesInv, OpenFiles, Owners, Shapes
  <1>7. OpenFiles'
    BY <1>3, <1>6 DEF FilesInv, OpenFiles
  <1>8. FreeList'
    BY <1>1, <1>2, <1>3 DEF FilesInv, FreeList, Shapes
  <1>9. Owners'
    <2>1. ASSUME NEW b \in Blocks, memory'[b] # Free, b # buffer
          PROVE  \E g \in DOMAIN opened' : b = fd_table'[g].data
      <3>1. b # d /\ memory[b] # Free
        BY <2>1, <1>4 DEF Free
      <3>2. PICK g \in DOMAIN opened : b = fd_table[g].data
        BY <2>1, <3>1 DEF FilesInv, Owners
      <3> QED BY <3>1, <3>2, <1>3, <1>6
    <2>2. buffer # NULL => memory'[buffer] # Free
      BY <1>2, <1>4 DEF FilesInv, Owners, Shapes, Free
    <2> QED BY <2>1, <2>2, <1>3, <1>6 DEF FilesInv, Owners, Free
  <1>10. ASSUME NEW g \in Fds PROVE served(g)' <=> g \in DOMAIN opened' \cup left'
    <2>1. CASE g = f
      BY <2>1, <1>1, <1>3 DEF FilesInv, Served, ServedIsOpen, served, Shapes
    <2>2. CASE g # f
      BY <2>2, <1>1, <1>3, <1>4 DEF FilesInv, Served, ServedIsOpen, served
    <2> QED BY <2>1, <2>2
  <1>11. Served'
    BY <1>1, <1>3, <1>10 DEF FilesInv, Served, ServedIsOpen
  <1> QED BY <1>2, <1>3, <1>4, <1>5, <1>6, <1>7, <1>8, <1>9, <1>11 DEF FilesInv, Shapes

-----------------------------------------------------------------------------
(* Every call of the file system is a step of the table of open files, or   *)
(* leaves that table as it is.                                              *)

(* The calls as steps of the table of open files.                           *)
LEMMA TableSame ==
  ASSUME DOMAIN opened' = DOMAIN opened,
         \A g \in DOMAIN opened : memory'[fd_table'[g].data] = memory[fd_table[g].data]
  PROVE  file_table' = file_table
  BY DEF file_table

LEMMA TableOpens ==
  ASSUME NEW f \in Fds, f \notin DOMAIN opened, DOMAIN opened' = DOMAIN opened \cup {f},
         NEW name \in Names, memory'[fd_table'[f].data] = FileState(name, 0),
         \A g \in DOMAIN opened : memory'[fd_table'[g].data] = memory[fd_table[g].data]
  PROVE  Table!Next
  <1>1. DOMAIN file_table = DOMAIN opened
    BY DEF file_table
  <1>2. memory'[fd_table'[f].data].start = name /\ memory'[fd_table'[f].data].current = 0
    BY DEF FileState
  <1>3. file_table' = [x \in DOMAIN file_table \cup {f} |->
                         IF x = f THEN [name |-> name, position |-> 0] ELSE file_table[x]]
    BY <1>1, <1>2 DEF file_table
  <1>4. Table!Open
    BY <1>1, <1>3 DEF Table!Open, Names
  <1> QED BY <1>4 DEF Table!Next

LEMMA TableReads ==
  ASSUME NEW f \in DOMAIN opened, DOMAIN opened' = DOMAIN opened,
         NEW pos \in Nat, NEW n \in Nat, opened[f] \in Names, Archive[opened[f]] \in Nat,
         pos + n <= Archive[opened[f]],
         memory[fd_table[f].data] = FileState(opened[f], pos),
         memory'[fd_table'[f].data] = FileState(opened[f], pos + n),
         \A g \in DOMAIN opened : g # f =>
           memory'[fd_table'[g].data] = memory[fd_table[g].data]
  PROVE  [Table!Next]_file_table
  <1>1. /\ memory[fd_table[f].data].start = opened[f]
        /\ memory[fd_table[f].data].current = pos
        /\ memory'[fd_table'[f].data].start = opened[f]
        /\ memory'[fd_table'[f].data].current = pos + n
    BY DEF FileState
  <1>2. CASE n = 0
    BY <1>2, TableSame
  <1>3. CASE n # 0
    <2>1. DOMAIN file_table = DOMAIN opened
          /\ file_table[f] = [name |-> opened[f], position |-> pos]
      BY <1>1 DEF file_table
    <2>2. file_table' = [file_table EXCEPT ![f].position = @ + n]
      BY <1>1, <2>1 DEF file_table
    <2>3. n \in 1 .. (Archive[file_table[f].name] - file_table[f].position)
      BY <1>3, <2>1
    <2>4. Table!Read
      BY <2>1, <2>2, <2>3 DEF Table!Read
    <2> QED BY <2>4 DEF Table!Next
  <1> QED BY <1>2, <1>3

LEMMA TableCloses ==
  ASSUME NEW f \in DOMAIN opened, DOMAIN opened' = DOMAIN opened \ {f},
         \A g \in DOMAIN opened' : memory'[fd_table'[g].data] = memory[fd_table[g].data]
  PROVE  Table!Next
  <1>1. DOMAIN file_table = DOMAIN opened
    BY DEF file_table
  <1>2. file_table' = [x \in DOMAIN file_table \ {f} |-> file_table[x]]
    BY <1>1 DEF file_table
  <1>3. Table!Close
    BY <1>1, <1>2 DEF Table!Close
  <1> QED BY <1>3 DEF Table!Next

-----------------------------------------------------------------------------
(* The calls, as Ruby and the loader make them: FilesInv is kept, the table *)
(* of open files moves as it should, and no block but the file's changes.   *)

Moves == FilesInv' /\ [Table!Next]_file_table

(* Each call keeps FilesInv and is a step of the table.                     *)
LEMMA OpenCall ==
  ASSUME FilesInv, NEW call, NEW path, NEW given, NEW writes,
         open_cpio(call, path, given, writes), buffer' = buffer
  PROVE  /\ Moves
         /\ \A b \in Blocks : memory[b] # Free => memory'[b] = memory[b]
         /\ \/ opened' = opened /\ reply'.ret = -1
            \/ \E f \in Fds :
                 /\ f \notin DOMAIN opened /\ DOMAIN opened' = DOMAIN opened \cup {f}
                 /\ normalize_path(given) \in Names /\ opened'[f] = normalize_path(given)
                 /\ memory'[fd_table'[f].data].current = 0
                 /\ reply'.ret = f
  <1>1. CASE UNCHANGED files /\ reply'.ret = -1
    <2>1. FilesInv'
      BY <1>1 DEF files, FilesInv, Shapes, OpenFiles, FreeList, Owners, Served,
                  ServedIsOpen, served, Free
    <2> QED BY <1>1, <2>1, TableSame DEF Moves, files
  <1>2. CASE \E f \in free_descriptors : open_without_memory(f) /\ reply'.ret = -1
    <2>1. PICK f \in Fds : free_fds[f] > 0 /\ open_without_memory(f) /\ reply'.ret = -1
      BY <1>2 DEF free_descriptors
    <2>2. FilesInv' /\ opened' = opened /\ memory' = memory
          /\ \A g \in DOMAIN opened : fd_table'[g] = fd_table[g]
      BY <2>1, NoMemoryKeeps
    <2> QED BY <2>1, <2>2, TableSame DEF Moves
  <1>3. CASE \E f \in free_descriptors, b \in free_blocks :
               /\ normalize_path(given) \in Names
               /\ open_with_memory(f, b, normalize_path(given)) /\ reply'.ret = f
    <2> DEFINE name == normalize_path(given)
    <2> HIDE DEF name
    <2>1. PICK f \in Fds, b \in Blocks :
             /\ free_fds[f] > 0 /\ memory[b] = Free /\ name \in Names
             /\ open_with_memory(f, b, name) /\ reply'.ret = f
      BY <1>3 DEF free_descriptors, free_blocks, name
    <2>2. /\ FilesInv'
          /\ f \notin DOMAIN opened /\ DOMAIN opened' = DOMAIN opened \cup {f}
          /\ opened'[f] = name /\ memory'[fd_table'[f].data] = FileState(name, 0)
          /\ \A g \in DOMAIN opened : fd_table'[g] = fd_table[g]
          /\ \A c \in Blocks : memory[c] # Free => memory'[c] = memory[c]
      BY <2>1, OpenKeeps
    <2>3. \A g \in DOMAIN opened : memory'[fd_table'[g].data] = memory[fd_table[g].data]
      BY <2>2, Distinct DEF FilesInv, OpenFiles, FileAt
    <2>4. Table!Next
      BY <2>1, <2>2, <2>3, TableOpens
    <2>5. memory'[fd_table'[f].data].current = 0
      BY <2>2 DEF FileState
    <2> QED BY <2>1, <2>2, <2>4, <2>5 DEF Moves, name
  <1> DEFINE Opened ==
        \E f \in free_descriptors :
          \/ open_without_memory(f) /\ Answers(call, <<>>, -1, "ENOMEM")
          \/ \E b \in free_blocks :
                /\ open_with_memory(f, b, normalize_path(given))
                /\ Answers(call, path, f, "")
  <1>4. \/ \E err, p : Refused(call, p, err)
        \/ normalize_path(given) \in Names /\ Opened
    <2>1. CASE writes
      BY <2>1 DEF open_cpio
    <2>2. CASE ~find_file(given)
      BY <2>2 DEF open_cpio
    <2>3. CASE free_descriptors = {}
      BY <2>3 DEF open_cpio
    <2>4. CASE ~writes /\ find_file(given) /\ free_descriptors # {}
      BY <2>4 DEF open_cpio, find_file
    <2> QED BY <2>1, <2>2, <2>3, <2>4
  <1>5. CASE \E err, p : Refused(call, p, err)
    BY <1>1, <1>5 DEF Refused, Answers, Replies
  <1>6. CASE normalize_path(given) \in Names /\ Opened
    <2>1. PICK f \in free_descriptors :
            \/ open_without_memory(f) /\ Answers(call, <<>>, -1, "ENOMEM")
            \/ \E b \in free_blocks :
                  /\ open_with_memory(f, b, normalize_path(given))
                  /\ Answers(call, path, f, "")
      BY <1>6
    <2>2. CASE open_without_memory(f) /\ Answers(call, <<>>, -1, "ENOMEM")
      BY <1>2, <2>2 DEF Answers, Replies
    <2>3. ASSUME NEW b \in free_blocks,
                 open_with_memory(f, b, normalize_path(given)), Answers(call, path, f, "")
          PROVE  reply'.ret = f
      BY <2>3 DEF Answers, Replies
    <2> QED BY <1>3, <1>6, <2>1, <2>2, <2>3
  <1> QED BY <1>4, <1>5, <1>6

LEMMA ReadCall ==
  ASSUME FilesInv, NEW f \in DOMAIN opened, NEW n \in Available(f, 1), ReadBytes(f, n),
         buffer' = buffer
  PROVE  Moves /\ (buffer # NULL => memory'[buffer] = memory[buffer])
  <1> DEFINE d == fd_table[f].data
  <1>1. /\ d \in Blocks /\ opened[f] \in Names
        /\ Archive[opened[f]] \in Nat /\ memory[d].current \in 0 .. Archive[opened[f]]
        /\ memory[d] = FileState(opened[f], memory[d].current)
        /\ n \in Nat /\ memory[d].current + n <= Archive[opened[f]]
        /\ [memory[d] EXCEPT !.current = @ + n] =
               FileState(opened[f], memory[d].current + n)
    <2>1. 1 \in Nat
      OBVIOUS
    <2> QED BY <2>1, FileRead
  <1> HIDE DEF d
  <1>2. FilesInv' /\ opened' = opened /\ (buffer # NULL => memory'[buffer] = memory[buffer])
    BY ReadKeeps
  <1>3. memory' = [memory EXCEPT ![d] = [memory[d] EXCEPT !.current = @ + n]]
        /\ fd_table' = fd_table
    BY DEF ReadBytes, d
  <1>4. memory'[d] = FileState(opened[f], memory[d].current + n)
    BY <1>1, <1>3 DEF FilesInv, Shapes
  <1>5. \A g \in DOMAIN opened : g # f =>
          memory'[fd_table'[g].data] = memory[fd_table[g].data]
    <2>1. SUFFICES ASSUME NEW g \in DOMAIN opened, g # f
                   PROVE  memory'[fd_table[g].data] = memory[fd_table[g].data]
      BY <1>3
    <2>2. fd_table[g].data # d
      BY <2>1 DEF FilesInv, OpenFiles, Owners, d
    <2> QED
      BY <1>3, <2>2
  <1>6. [Table!Next]_file_table
    <2> DEFINE pos == memory[d].current
    <2>1. /\ opened[f] \in Names /\ Archive[opened[f]] \in Nat /\ pos \in Nat /\ n \in Nat
          /\ pos + n <= Archive[opened[f]] /\ memory[d] = FileState(opened[f], pos)
      BY <1>1
    <2>2. DOMAIN opened' = DOMAIN opened /\ fd_table'[f] = fd_table[f]
      BY <1>2, <1>3
    <2>3. /\ memory[fd_table[f].data] = FileState(opened[f], pos)
          /\ memory'[fd_table'[f].data] = FileState(opened[f], pos + n)
      BY <1>4, <2>1, <2>2 DEF d
    <2> HIDE DEF pos
    <2> QED BY <1>5, <2>1, <2>2, <2>3, TableReads
  <1> QED BY <1>2, <1>6 DEF Moves

LEMMA CloseCall ==
  ASSUME FilesInv, NEW f \in DOMAIN opened, close(f), buffer' = buffer
  PROVE  /\ Moves /\ DOMAIN opened' = DOMAIN opened \ {f}
         /\ buffer # NULL => memory'[buffer] = memory[buffer]
  BY CloseKeeps, TableCloses DEF Moves

-----------------------------------------------------------------------------
(* Ruby's calls leave what the loader has alone.                            *)

LEMMA RubyStep ==
  ASSUME IInv, RubyCalls
  PROVE  IInv' /\ [Table!Next]_file_table
  <1>1. /\ pc \in {"boot", "run"} /\ FsCalls /\ ruby_fds' = DOMAIN opened'
        /\ pc' = pc /\ fd' = fd /\ buffer' = buffer /\ buffer_size' = buffer_size
        /\ used' = used
    BY DEF RubyCalls, locals
  <1>2. FilesInv /\ LoaderInv /\ ReadInv
    BY DEF IInv
  <1>3. buffer # NULL => buffer \in Blocks /\ memory[buffer] # Free
    BY <1>2 DEF FilesInv, Shapes, Owners
  <1>4. Moves /\ (buffer # NULL => memory'[buffer] = memory[buffer])
    <2>1. ASSUME NEW call, NEW path, NEW given, NEW writes,
                 open_cpio(call, path, given, writes)
          PROVE  Moves /\ (buffer # NULL => memory'[buffer] = memory[buffer])
      BY <2>1, <1>1, <1>2, <1>3, OpenCall
    <2>2. CASE \E path \in Paths, writes \in BOOLEAN :
                 open(path, writes) \/ fopen(path, writes)
      BY <2>1, <2>2 DEF open, fopen
    <2>3. ASSUME UNCHANGED files
          PROVE  Moves /\ (buffer # NULL => memory'[buffer] = memory[buffer])
      <3>1. FilesInv'
        BY <2>3, <1>1, <1>2 DEF files, FilesInv, Shapes, OpenFiles, FreeList, Owners,
                                Served, ServedIsOpen, served, Free
      <3> QED BY <3>1, <2>3, TableSame DEF Moves, files
    <2>4. CASE \E path \in Paths : stat(path)
      BY <2>3, <2>4 DEF stat
    <2>5. CASE \E f \in Fds \ left : fstat(f)
      BY <2>3, <2>5 DEF fstat
    <2>6. ASSUME NEW f \in DOMAIN opened,
                 (\E n \in Available(f, 1) : ReadBytes(f, n)) \/ close(f)
          PROVE  Moves /\ (buffer # NULL => memory'[buffer] = memory[buffer])
      BY <2>6, <1>1, <1>2, ReadCall, CloseCall
    <2> QED BY <1>1, <2>2, <2>4, <2>5, <2>6 DEF FsCalls
  <1>5. LoaderInv'
    BY <1>1, <1>2 DEF LoaderInv, Loading, Holding
  <1>6. ReadInv'
    BY <1>1, <1>2, <1>4 DEF ReadInv, RunsWholeScript, LoaderInv, Holding
  <1> QED BY <1>4, <1>5, <1>6 DEF Moves, IInv

-----------------------------------------------------------------------------
(* The steps of read_script.                                                *)

LEMMA LoadOpenStep ==
  ASSUME IInv, LoadOpen
  PROVE  IInv' /\ [Table!Next]_file_table
  <1>1. /\ pc = "open" /\ fd' = reply'.ret
        /\ pc' = IF reply'.ret = -1 THEN "over" ELSE "fstat"
        /\ buffer' = buffer /\ buffer_size' = buffer_size /\ used' = used
        /\ ruby_fds' = ruby_fds
        /\ open_cpio("open", Script, normalize_path(Script), FALSE)
    BY DEF LoadOpen, open
  <1>2. FilesInv /\ LoaderInv /\ ReadInv
    BY DEF IInv
  <1>3. /\ Moves
        /\ \/ opened' = opened /\ reply'.ret = -1
           \/ \E f \in Fds :
                /\ f \notin DOMAIN opened /\ DOMAIN opened' = DOMAIN opened \cup {f}
                /\ script_file \in Names /\ opened'[f] = script_file
                /\ memory'[fd_table'[f].data].current = 0
                /\ reply'.ret = f
    BY <1>1, <1>2, OpenCall DEF script_file
  <1>4. DOMAIN opened = ruby_fds /\ buffer = NULL
    BY <1>1, <1>2 DEF LoaderInv, Holding
  <1>5. CASE opened' = opened /\ reply'.ret = -1
    <2>1. LoaderInv'
      BY <1>1, <1>2, <1>4, <1>5 DEF LoaderInv, Holding, Loading
    <2>2. ReadInv'
      BY <1>1, <1>4, <1>5 DEF ReadInv, RunsWholeScript, Holding
    <2> QED BY <1>3, <2>1, <2>2 DEF Moves, IInv
  <1>6. ASSUME NEW f \in Fds,
               f \notin DOMAIN opened, DOMAIN opened' = DOMAIN opened \cup {f},
               opened'[f] = script_file, memory'[fd_table'[f].data].current = 0,
               reply'.ret = f
        PROVE  IInv'
    <2>1. f # -1 /\ pc' = "fstat" /\ fd' = f
      BY <1>1, <1>6, ArchiveAssumption
    <2>2. LoaderInv'
      BY <1>1, <1>2, <1>4, <1>6, <2>1 DEF LoaderInv, Holding, Loading
    <2>3. ReadInv'
      BY <1>1, <1>4, <1>6, <2>1 DEF ReadInv, RunsWholeScript, Holding
    <2> QED BY <1>3, <2>2, <2>3 DEF Moves, IInv
  <1> QED BY <1>3, <1>5, <1>6 DEF Moves

(* What the loader knows of its descriptor.                                 *)
LEMMA LoaderFile ==
  ASSUME IInv, pc \in Holding
  PROVE  /\ fd \in DOMAIN opened /\ opened[fd] = script_file /\ script_file \in Names
         /\ Archive[script_file] \in Nat
         /\ fd_table[fd].data \in Blocks /\ fd_table[fd].data # buffer
         /\ served(fd)
         /\ memory[fd_table[fd].data].size = Archive[script_file]
  <1>1. fd \in DOMAIN opened /\ opened[fd] = script_file
    BY DEF IInv, LoaderInv, ReadInv
  <1>2. /\ script_file \in Names /\ Archive[script_file] \in Nat
        /\ fd_table[fd].data \in Blocks /\ fd_table[fd].data # buffer
    BY <1>1, ArchiveAssumption DEF IInv, FilesInv, OpenFiles, Owners
  <1>3. served(fd)
    BY <1>1 DEF IInv, FilesInv, Served, ServedIsOpen, Shapes
  <1>4. memory[fd_table[fd].data].size = Archive[script_file]
    <2>1. PICK pos \in 0 .. Archive[opened[fd]] :
                 memory[fd_table[fd].data] = FileState(opened[fd], pos)
      BY <1>1 DEF IInv, FilesInv, OpenFiles, FileAt
    <2> QED BY <1>1, <2>1 DEF FileState
  <1> QED BY <1>1, <1>2, <1>3, <1>4

LEMMA LoadFstatStep ==
  ASSUME IInv, LoadFstat
  PROVE  IInv' /\ [Table!Next]_file_table
  <1>1. /\ pc = "fstat" /\ fstat(fd) /\ ruby_fds' = ruby_fds
        /\ UNCHANGED <<fd_table, free_fds, memory, opened, left>>
    BY DEF LoadFstat, fstat, files
  <1>2. /\ fd \in DOMAIN opened /\ opened[fd] = script_file /\ script_file \in Names
        /\ Archive[script_file] \in Nat
        /\ served(fd) /\ memory[fd_table[fd].data].size = Archive[script_file]
    BY <1>1, LoaderFile DEF Holding
  <1>3. reply'.err = "" /\ reply'.st.size = Archive[script_file]
    <2>1. Describes("fstat", <<>>, Regular(memory[fd_table[fd].data].size))
      BY <1>1, <1>2 DEF fstat
    <2>2. reply' = [call |-> "fstat", path |-> <<>>, ret |-> 0, err |-> "",
                    st |-> Regular(Archive[script_file])]
      BY <1>2, <2>1 DEF Describes, Replies
    <2> QED BY <2>2 DEF Regular
  <1>4. /\ pc' = "malloc" /\ buffer_size' = Archive[script_file] + 1
        /\ fd' = fd /\ buffer' = buffer /\ used' = used
    BY <1>3 DEF LoadFstat, buffer_bytes
  <1>5. FilesInv'
    BY <1>1, <1>4 DEF IInv, FilesInv, Shapes, OpenFiles, FreeList, Owners, Served,
                      ServedIsOpen, served, Free
  <1>6. LoaderInv'
    BY <1>1, <1>2, <1>4 DEF IInv, LoaderInv, Holding, Loading
  <1>7. ReadInv'
    BY <1>1, <1>2, <1>4 DEF IInv, ReadInv, RunsWholeScript, LoaderInv, Holding
  <1> QED BY <1>1, <1>5, <1>6, <1>7, TableSame DEF IInv

LEMMA LoadMallocStep ==
  ASSUME IInv, LoadMalloc
  PROVE  IInv' /\ [Table!Next]_file_table
  <1>1. /\ pc = "malloc" /\ ruby_fds' = ruby_fds
        /\ UNCHANGED <<fd_table, free_fds, opened, left>>
    BY DEF LoadMalloc
  <1>2. /\ fd \in DOMAIN opened /\ fd_table[fd].data \in Blocks
        /\ script_file \in Names /\ Archive[script_file] \in Nat
    BY <1>1, LoaderFile DEF Holding
  <1>3. /\ buffer = NULL /\ buffer_size = Archive[script_file] + 1
        /\ memory[fd_table[fd].data].current = 0
    BY <1>1 DEF IInv, LoaderInv, ReadInv
  <1>4. CASE pc' = "close_failed" /\ UNCHANGED <<memory, locals>>
    <2>1. FilesInv'
      BY <1>1, <1>4 DEF IInv, FilesInv, Shapes, OpenFiles, FreeList, Owners, Served,
                        ServedIsOpen, served, Free, locals
    <2>2. LoaderInv'
      BY <1>1, <1>3, <1>4 DEF IInv, LoaderInv, Holding, Loading, locals
    <2>3. ReadInv'
      BY <1>1, <1>3, <1>4 DEF IInv, ReadInv, RunsWholeScript, Holding, locals
    <2> QED BY <1>1, <1>4, <2>1, <2>2, <2>3, TableSame DEF IInv
  <1>5. ASSUME NEW b \in Blocks, memory[b] = Free,
               memory' = [memory EXCEPT ![b] = Text(<<>>, buffer_size)],
               buffer' = b, used' = 0, pc' = "read", fd' = fd, buffer_size' = buffer_size
        PROVE  IInv' /\ [Table!Next]_file_table
    <2>1. /\ memory' = [c \in Blocks |-> memory'[c]]
          /\ memory'[b] = Text(<<>>, buffer_size)
          /\ \A c \in Blocks : c # b => memory'[c] = memory[c]
      BY <1>5 DEF IInv, FilesInv, Shapes
    <2>2. Text(<<>>, buffer_size) # Free /\ b # NULL
      BY Distinct, ArchiveAssumption
    <2>3. \A f \in DOMAIN opened : /\ fd_table[f].data # b
                                   /\ memory'[fd_table[f].data] = memory[fd_table[f].data]
      BY <1>5, <2>1, Distinct DEF IInv, FilesInv, OpenFiles, FileAt
    <2>4. \A c \in Blocks : memory'[c] # Free /\ c # b => memory[c] # Free /\ c # buffer
      BY <1>3, <2>1, ArchiveAssumption
    <2>5. \A f \in DOMAIN opened : FileAt(opened[f], memory'[fd_table[f].data])
      BY <2>3 DEF IInv, FilesInv, OpenFiles
    <2>6. FilesInv'
      BY <1>1, <1>5, <2>1, <2>2, <2>3, <2>4, <2>5, MemoryKeeps DEF IInv
    <2>7. LoaderInv'
      BY <1>1, <1>5, <2>2 DEF IInv, LoaderInv, Holding, Loading
    <2>8. Text(<<>>, buffer_size) = Text(Sofar(0), buffer_size) /\ TextAt(memory'[b])
      <3>1. Sofar(0) = <<>>
        BY DEF Sofar
      <3>2. <<>> \in Seq(Nat) /\ Len(<<>>) <= buffer_size /\ buffer_size \in Nat
        BY <1>2, <1>3
      <3>3. memory'[b] = Text(<<>>, buffer_size)
        BY <2>1
      <3>4. TextAt(memory'[b])
        BY <3>2, <3>3, Zenon DEF TextAt
      <3> QED BY <3>1, <3>4
    <2>9. ReadInv'
      BY <1>1, <1>2, <1>3, <1>5, <2>1, <2>3, <2>8
         DEF IInv, ReadInv, RunsWholeScript, Holding
    <2> QED BY <1>1, <2>3, <2>6, <2>7, <2>9, TableSame DEF IInv
  <1>6. \/ pc' = "close_failed" /\ UNCHANGED <<memory, locals>>
        \/ \E b \in Blocks :
             /\ memory[b] = Free /\ memory' = [memory EXCEPT ![b] = Text(<<>>, buffer_size)]
             /\ buffer' = b /\ used' = 0 /\ pc' = "read" /\ fd' = fd
             /\ buffer_size' = buffer_size
    BY DEF LoadMalloc, free_blocks
  <1> QED BY <1>4, <1>5, <1>6

(* What has been read, after the next n bytes and after the terminator.     *)
LEMMA Sofars ==
  ASSUME NEW m \in Nat, NEW n \in Nat
  PROVE  /\ Sofar(m) \in Seq(Nat) /\ Len(Sofar(m)) = m
         /\ SubSeq(Sofar(m), 1, m) = Sofar(m)
         /\ Sofar(m) \o [i \in 1 .. n |-> m + i] = Sofar(m + n)
         /\ Sofar(m) \o <<0>> = Append(Sofar(m), 0)
         /\ Append(Sofar(m), 0) \in Seq(Nat) /\ Len(Append(Sofar(m), 0)) = m + 1
  <1>1. Sofar(m) \in Seq(Nat) /\ Len(Sofar(m)) = m
    BY DEF Sofar
  <1>2. SubSeq(Sofar(m), 1, m) = Sofar(m)
    BY DEF Sofar
  <1>3. Sofar(m) \o [i \in 1 .. n |-> m + i] = Sofar(m + n)
    BY DEF Sofar
  <1>4. Sofar(m) \o <<0>> = Append(Sofar(m), 0)
    BY <1>1
  <1>5. Append(Sofar(m), 0) \in Seq(Nat) /\ Len(Append(Sofar(m), 0)) = m + 1
    BY <1>1
  <1> QED BY <1>1, <1>2, <1>3, <1>4, <1>5

LEMMA LoadReadStep ==
  ASSUME IInv, LoadRead
  PROVE  IInv' /\ [Table!Next]_file_table
  <1> DEFINE d == fd_table[fd].data
             asked == buffer_size - used - 1
  <1>1. /\ pc = "read" /\ used + 1 < buffer_size
        /\ UNCHANGED <<fd_table, free_fds, opened, left, fd, buffer, buffer_size, ruby_fds>>
    BY DEF LoadRead
  <1>2. PICK n \in Available(fd, asked) :
          memory' = Filled(n) /\ used' = used + n /\ pc' = IF n = 0 THEN "close" ELSE "read"
    BY DEF LoadRead
  <1>3. /\ fd \in DOMAIN opened /\ opened[fd] = script_file /\ script_file \in Names
        /\ Archive[script_file] \in Nat
    BY <1>1, LoaderFile DEF Holding
  <1>4. /\ buffer \in Blocks /\ buffer_size = Archive[script_file] + 1 /\ used \in Nat
        /\ memory[d].current = used /\ used <= Archive[script_file]
        /\ memory[buffer] = Text(Sofar(used), buffer_size)
    BY <1>1 DEF IInv, LoaderInv, ReadInv, FilesInv, Shapes
  <1>5. asked \in Nat /\ asked # 0
    BY <1>1, <1>3, <1>4
  <1> HIDE DEF asked
  <1>6. /\ d \in Blocks /\ d # buffer
        /\ memory[d] = FileState(script_file, used)
        /\ n \in Nat /\ used + n <= Archive[script_file]
        /\ n = 0 => used = Archive[script_file]
        /\ [memory[d] EXCEPT !.current = @ + n] = FileState(script_file, used + n)
    BY <1>2, <1>3, <1>4, <1>5, FileRead DEF IInv
  <1> HIDE DEF d
  <1>7. memory' = [memory EXCEPT
                     ![d] = [memory[d] EXCEPT !.current = @ + n],
                     ![buffer] = [memory[buffer] EXCEPT
                       !.bytes = SubSeq(@, 1, used) \o [i \in 1 .. n |-> used + i]]]
    <2>1. d # buffer /\ memory[d].current = used
      BY <1>4, <1>6
    <2> QED BY <1>2, <2>1 DEF Filled, d
  <1>8. [memory[buffer] EXCEPT !.bytes = SubSeq(@, 1, used) \o [i \in 1 .. n |-> used + i]]
          = Text(Sofar(used + n), buffer_size)
    <2>1. SubSeq(Sofar(used), 1, used) \o [i \in 1 .. n |-> used + i] = Sofar(used + n)
      <3>1. SubSeq(Sofar(used), 1, used) = Sofar(used)
        BY <1>4, Sofars
      <3>2. Sofar(used) \o [i \in 1 .. n |-> used + i] = Sofar(used + n)
        BY <1>4, <1>6, Sofars
      <3> QED BY <3>1, <3>2
    <2>2. memory[buffer].bytes = Sofar(used)
      BY <1>4 DEF Text
    <2>3. [memory[buffer] EXCEPT !.bytes = SubSeq(@, 1, used) \o [i \in 1 .. n |-> used + i]]
            = [memory[buffer] EXCEPT !.bytes = Sofar(used + n)]
      BY <2>1, <2>2
    <2>4. [memory[buffer] EXCEPT !.bytes = Sofar(used + n)] = Text(Sofar(used + n), buffer_size)
      BY <1>4 DEF Text
    <2> QED BY <2>3, <2>4
  <1>9. /\ memory' = [b \in Blocks |-> memory'[b]]
        /\ memory'[d] = FileState(script_file, used + n)
        /\ memory'[buffer] = Text(Sofar(used + n), buffer_size)
        /\ \A b \in Blocks : b # d /\ b # buffer => memory'[b] = memory[b]
    <2>1. memory = [b \in Blocks |-> memory[b]]
      BY DEF IInv, FilesInv, Shapes
    <2> QED BY <1>4, <1>6, <1>7, <1>8, <2>1
  <1>10. \A f \in DOMAIN opened :
           /\ fd_table[f].data # buffer
           /\ FileAt(opened[f], memory'[fd_table[f].data])
           /\ f # fd => memory'[fd_table[f].data] = memory[fd_table[f].data]
    <2>1. FileAt(script_file, memory'[d])
      BY <1>3, <1>4, <1>6, <1>9 DEF FileAt
    <2> QED BY <2>1, <1>3, <1>9 DEF IInv, FilesInv, OpenFiles, Owners, d
  <1>11. FilesInv'
    <2>1. memory'[buffer] # Free
      BY <1>9, Distinct
    <2>2. \A b \in Blocks : memory'[b] # Free /\ b # buffer => memory[b] # Free
      BY <1>6, <1>9, Distinct
    <2> QED BY <1>1, <1>4, <1>9, <1>10, <2>1, <2>2, MemoryKeeps DEF IInv
  <1>12. [Table!Next]_file_table
    BY <1>1, <1>3, <1>4, <1>6, <1>9, <1>10, TableReads DEF d
  <1>13. LoaderInv'
    BY <1>1, <1>2, <1>4, <1>6 DEF IInv, LoaderInv, Holding, Loading
  <1>14. ReadInv'
    <2>1. TextAt(memory'[buffer])
      <3>1. Sofar(used + n) \in Seq(Nat) /\ Len(Sofar(used + n)) <= buffer_size
            /\ buffer_size \in Nat
        <4>1. used + n \in Nat /\ used + n <= buffer_size /\ buffer_size \in Nat
          BY <1>3, <1>4, <1>6
        <4> QED BY <4>1, Sofars
      <3> QED BY <1>9, <3>1, Zenon DEF TextAt
    <2>2. memory'[d].current = used + n
      BY <1>9 DEF FileState
    <2> QED BY <1>1, <1>2, <1>3, <1>4, <1>6, <1>9, <2>1, <2>2
            DEF ReadInv, RunsWholeScript, Holding, d
  <1> QED BY <1>11, <1>12, <1>13, <1>14 DEF IInv

(* A step that leaves the files, the locals and what Ruby holds alone.      *)
LEMMA PcStep ==
  ASSUME IInv, UNCHANGED <<files, locals, ruby_fds>>
  PROVE  FilesInv' /\ file_table' = file_table
  BY DEF IInv, FilesInv, Shapes, OpenFiles, FreeList, Owners, Served, files, locals,
         ServedIsOpen, served, Free, file_table

LEMMA LoadReadEndsStep ==
  ASSUME IInv, LoadReadEnds
  PROVE  IInv' /\ [Table!Next]_file_table
  <1>1. /\ pc = "read" /\ used + 1 >= buffer_size /\ pc' = "close"
        /\ UNCHANGED <<files, locals, ruby_fds>>
    BY DEF LoadReadEnds, fs_vars
  <1>2. used = Archive[script_file]
    BY <1>1, LoaderFile DEF IInv, LoaderInv, ReadInv, Holding
  <1>3. LoaderInv'
    BY <1>1 DEF IInv, LoaderInv, Holding, Loading, files, locals
  <1>4. ReadInv'
    BY <1>1, <1>2 DEF IInv, ReadInv, RunsWholeScript, Holding, files, locals
  <1> QED BY <1>1, <1>3, <1>4, PcStep DEF IInv

LEMMA LoadReadFailsStep ==
  ASSUME IInv, LoadReadFails
  PROVE  IInv' /\ [Table!Next]_file_table
  <1>1. /\ pc = "read" /\ pc' = "close_failed"
        /\ UNCHANGED <<files, locals, ruby_fds>>
    BY DEF LoadReadFails, ReadErrorLeadsTo, ReadFails, Refused
  <1>2. LoaderInv'
    BY <1>1 DEF IInv, LoaderInv, Holding, Loading, files, locals
  <1>3. ReadInv'
    BY <1>1 DEF IInv, ReadInv, RunsWholeScript, Holding, files, locals
  <1> QED BY <1>1, <1>2, <1>3, PcStep DEF IInv

LEMMA LoadCloseStep ==
  ASSUME IInv, LoadClose
  PROVE  IInv' /\ [Table!Next]_file_table
  <1>1. /\ pc = "close" /\ close(fd) /\ pc' = "terminate" /\ buffer' = buffer
        /\ UNCHANGED <<locals, ruby_fds>>
    BY DEF LoadClose, locals
  <1>2. fd \in DOMAIN opened
    BY <1>1, LoaderFile DEF Holding
  <1>3. Moves /\ DOMAIN opened' = DOMAIN opened \ {fd} /\ memory'[buffer] = memory[buffer]
    BY <1>1, <1>2, CloseCall DEF IInv, LoaderInv
  <1>4. LoaderInv'
    BY <1>1, <1>3 DEF IInv, LoaderInv, Holding, Loading, locals
  <1>5. ReadInv'
    <2>1. RunsWholeScript'
      BY <1>1, <1>3 DEF IInv, ReadInv, RunsWholeScript, Sofar, locals
    <2> QED BY <1>1, <1>3, <2>1 DEF IInv, ReadInv, Holding, locals
  <1> QED BY <1>3, <1>4, <1>5 DEF IInv, Moves

LEMMA LoadCloseFailedStep ==
  ASSUME IInv, LoadCloseFailed
  PROVE  IInv' /\ [Table!Next]_file_table
  <1>1. /\ pc = "close_failed" /\ close(fd) /\ buffer' = buffer
        /\ pc' = IF buffer = NULL THEN "over" ELSE "free"
        /\ UNCHANGED <<locals, ruby_fds>>
    BY DEF LoadCloseFailed, locals
  <1>2. fd \in DOMAIN opened
    BY <1>1, LoaderFile DEF Holding
  <1>3. /\ Moves /\ DOMAIN opened' = DOMAIN opened \ {fd}
        /\ buffer # NULL => memory'[buffer] = memory[buffer]
    BY <1>1, <1>2, CloseCall DEF IInv
  <1>4. LoaderInv'
    BY <1>1, <1>3 DEF IInv, LoaderInv, Holding, Loading, locals
  <1>5. ReadInv'
    BY <1>1, <1>3 DEF IInv, ReadInv, RunsWholeScript, Holding, locals
  <1> QED BY <1>3, <1>4, <1>5 DEF IInv, Moves

LEMMA LoadTerminateStep ==
  ASSUME IInv, LoadTerminate
  PROVE  IInv' /\ [Table!Next]_file_table
  <1> DEFINE n == Archive[script_file]
  <1>1. /\ pc = "terminate" /\ pc' = "run"
        /\ memory' = [memory EXCEPT ![buffer].bytes = SubSeq(@, 1, used) \o <<0>>]
        /\ UNCHANGED <<fd_table, free_fds, opened, left, locals, ruby_fds>>
    BY DEF LoadTerminate
  <1>2. /\ used = n /\ n \in Nat /\ buffer \in Blocks
        /\ memory[buffer] = Text(Sofar(n), n + 1)
    BY <1>1, ArchiveAssumption
       DEF IInv, LoaderInv, FilesInv, Shapes, ReadInv, RunsWholeScript, Sofar
  <1> HIDE DEF n
  <1>3. [memory[buffer] EXCEPT !.bytes = SubSeq(@, 1, used) \o <<0>>]
          = Text(Append(Sofar(n), 0), n + 1)
    <2>1. SubSeq(Sofar(n), 1, n) \o <<0>> = Append(Sofar(n), 0)
      BY <1>2, 0 \in Nat, Sofars
    <2>2. memory[buffer].bytes = Sofar(n)
      BY <1>2 DEF Text
    <2>3. [memory[buffer] EXCEPT !.bytes = SubSeq(@, 1, used) \o <<0>>]
            = [memory[buffer] EXCEPT !.bytes = Append(Sofar(n), 0)]
      BY <1>2, <2>1, <2>2
    <2>4. [memory[buffer] EXCEPT !.bytes = Append(Sofar(n), 0)]
            = Text(Append(Sofar(n), 0), n + 1)
      BY <1>2 DEF Text
    <2> QED BY <2>3, <2>4
  <1>4. /\ memory' = [b \in Blocks |-> memory'[b]]
        /\ memory'[buffer] = Text(Append(Sofar(n), 0), n + 1)
        /\ \A b \in Blocks : b # buffer => memory'[b] = memory[b]
    <2>1. memory = [b \in Blocks |-> memory[b]]
      BY DEF IInv, FilesInv, Shapes
    <2>2. memory' = [memory EXCEPT
                       ![buffer] = [memory[buffer] EXCEPT !.bytes = SubSeq(@, 1, used) \o <<0>>]]
      BY <1>1
    <2> QED BY <1>2, <1>3, <2>1, <2>2
  <1>5. \A f \in DOMAIN opened :
          /\ fd_table[f].data # buffer
          /\ memory'[fd_table[f].data] = memory[fd_table[f].data]
          /\ FileAt(opened[f], memory'[fd_table[f].data])
    BY <1>4 DEF IInv, FilesInv, OpenFiles, Owners
  <1>6. FilesInv'
    <2>1. memory'[buffer] # Free
      BY <1>4, Distinct
    <2> QED BY <1>1, <1>2, <1>4, <1>5, <2>1, MemoryKeeps DEF IInv, locals
  <1>7. LoaderInv'
    BY <1>1 DEF IInv, LoaderInv, Holding, Loading, locals
  <1>8. ReadInv'
    <2>1. TextAt(memory'[buffer])
      <3>1. /\ Append(Sofar(n), 0) \in Seq(Nat) /\ Len(Append(Sofar(n), 0)) <= n + 1
            /\ n + 1 \in Nat
        BY <1>2, Sofars
      <3> QED BY <1>4, <3>1, Zenon DEF TextAt
    <2> QED BY <1>1, <1>4, <2>1 DEF ReadInv, RunsWholeScript, Holding, locals, Sofar, n
  <1>9. file_table' = file_table
    BY <1>1, <1>5, TableSame
  <1> QED BY <1>6, <1>7, <1>8, <1>9 DEF IInv

LEMMA FreeScriptStep ==
  ASSUME IInv, FreeScript
  PROVE  IInv' /\ [Table!Next]_file_table
  <1>1. /\ pc = "free" /\ pc' = "over" /\ memory' = [memory EXCEPT ![buffer] = Free]
        /\ buffer' = NULL
        /\ UNCHANGED <<fd_table, free_fds, opened, left, fd, buffer_size, used, ruby_fds>>
    BY DEF FreeScript
  <1>2. buffer \in Blocks
    BY <1>1 DEF IInv, LoaderInv, FilesInv, Shapes
  <1>3. /\ memory' = [b \in Blocks |-> memory'[b]] /\ memory'[buffer] = Free
        /\ \A b \in Blocks : b # buffer => memory'[b] = memory[b]
    BY <1>1, <1>2 DEF IInv, FilesInv, Shapes
  <1>4. \A f \in DOMAIN opened :
          /\ fd_table[f].data # NULL
          /\ memory'[fd_table[f].data] = memory[fd_table[f].data]
          /\ FileAt(opened[f], memory'[fd_table[f].data])
    BY <1>3, ArchiveAssumption DEF IInv, FilesInv, OpenFiles, Owners
  <1>5. FilesInv'
    BY <1>1, <1>3, <1>4, MemoryKeeps DEF IInv
  <1>6. LoaderInv'
    BY <1>1 DEF IInv, LoaderInv, Holding, Loading
  <1>7. ReadInv'
    BY <1>1 DEF IInv, ReadInv, RunsWholeScript, Holding
  <1> QED BY <1>1, <1>4, <1>5, <1>6, <1>7, TableSame DEF IInv

LEMMA BootStep ==
  ASSUME IInv, Boot \/ ScriptEnds
  PROVE  IInv' /\ [Table!Next]_file_table
  <1>1. /\ \/ pc = "boot" /\ pc' = "open"
           \/ pc = "run" /\ pc' = "free"
        /\ UNCHANGED <<files, locals, ruby_fds>>
    BY DEF Boot, ScriptEnds, fs_vars
  <1>2. LoaderInv'
    BY <1>1 DEF IInv, LoaderInv, Holding, Loading, files, locals
  <1>3. ReadInv'
    BY <1>1 DEF IInv, ReadInv, RunsWholeScript, Holding, files, locals
  <1> QED BY <1>1, <1>2, <1>3, PcStep DEF IInv

-----------------------------------------------------------------------------
(* The theorems.                                                            *)

(* IInv holds at first and is kept.                                         *)
LEMMA InitIInv ==
  ASSUME Init
  PROVE  IInv /\ Table!TableInit
  <1> USE DEF Init, FsInit
  <1>1. Shapes
    BY DEF Shapes
  <1>2. OpenFiles /\ FreeList
    BY DEF OpenFiles, FreeList
  <1>3. Owners
    BY DEF Owners
  <1>4. Served
    BY DEF Served, ServedIsOpen, served
  <1>5. LoaderInv
    BY DEF LoaderInv, Holding
  <1>6. ReadInv
    BY DEF ReadInv, RunsWholeScript, Holding
  <1>7. Table!TableInit
    BY DEF Table!TableInit, file_table
  <1> QED BY <1>1, <1>2, <1>3, <1>4, <1>5, <1>6, <1>7 DEF IInv, FilesInv

LEMMA NextIInv ==
  ASSUME IInv, [Next]_vars
  PROVE  IInv' /\ [Table!Next]_file_table
  <1>1. CASE read_script
    BY <1>1, LoadOpenStep, LoadFstatStep, LoadMallocStep, LoadReadStep, LoadReadEndsStep,
       LoadReadFailsStep, LoadCloseStep, LoadTerminateStep, LoadCloseFailedStep,
       FreeScriptStep DEF read_script
  <1>2. CASE UNCHANGED vars
    <2>1. UNCHANGED <<files, locals, ruby_fds, pc>>
      BY <1>2 DEF vars, fs_vars
    <2>2. FilesInv' /\ file_table' = file_table
      BY <2>1, PcStep
    <2>3. LoaderInv' /\ ReadInv'
      BY <2>1 DEF IInv, LoaderInv, ReadInv, RunsWholeScript, Holding, Loading, files, locals
    <2> QED BY <2>2, <2>3 DEF IInv
  <1> QED BY <1>1, <1>2, BootStep, RubyStep DEF Next

(* IInv holds of every state.                                               *)
THEOREM Invariant == Spec => []IInv
  <1>1. Init => IInv
    BY InitIInv
  <1>2. IInv /\ [Next]_vars => IInv'
    BY NextIInv
  <1> QED BY <1>1, <1>2, PTL DEF Spec

(* Whatever call fails, each descriptor and each block has exactly one      *)
(* owner (NothingLeaks), for every archive and table.                       *)
THEOREM NothingIsLost == Spec => []NothingLeaks
  <1>1. IInv => NothingLeaks
    <2> SUFFICES ASSUME IInv PROVE NothingLeaks
      OBVIOUS
    <2>1. Blocks \ free_blocks =
            {fd_table[f].data : f \in DOMAIN opened} \cup ({buffer} \ {NULL})
      <3>1. ASSUME NEW f \in DOMAIN opened
            PROVE  fd_table[f].data \in Blocks /\ memory[fd_table[f].data] # Free
        <4>1. \E pos : memory[fd_table[f].data] = FileState(opened[f], pos)
          BY DEF IInv, FilesInv, OpenFiles, FileAt
        <4> QED BY <4>1, Distinct DEF IInv, FilesInv, OpenFiles
      <3>2. buffer # NULL => buffer \in Blocks /\ memory[buffer] # Free
        BY DEF IInv, FilesInv, Shapes, Owners
      <3>3. ASSUME NEW b \in Blocks, memory[b] # Free
            PROVE  (b = buffer /\ b # NULL) \/ \E f \in DOMAIN opened : b = fd_table[f].data
        BY <3>3, ArchiveAssumption DEF IInv, FilesInv, Owners
      <3> QED BY <3>1, <3>2, <3>3 DEF free_blocks
    <2>2. DOMAIN opened = ruby_fds \cup (IF pc \in Holding THEN {fd} ELSE {})
      BY DEF IInv, LoaderInv
    <2> QED BY <2>1, <2>2 DEF NothingLeaks, IInv, FilesInv, FreeList, Owners
  <1> QED BY <1>1, Invariant, PTL

(* fstat and mmap serve the open descriptors, and of the closed ones just   *)
(* those whose entry the library's close left.                              *)
THEOREM ServesOpenFiles == Spec => []ServedIsOpen
  <1>1. IInv => ServedIsOpen
    BY DEF IInv, FilesInv, Served
  <1> QED BY <1>1, Invariant, PTL

(* The script that is run is the whole file, however long it is and however *)
(* short the reads were.                                                    *)
THEOREM WholeScript == Spec => []RunsWholeScript
  <1>1. IInv => RunsWholeScript
    BY DEF IInv, ReadInv
  <1> QED BY <1>1, Invariant, PTL

(* What a step of the loader leaves to do: a read that goes on has brought  *)
(* something, and the terminator still fits; any other step is the last of  *)
(* its kind.                                                                *)
LEMMA ReadBrings ==
  ASSUME IInv, LoadRead, pc' = "read"
  PROVE  used < used' /\ used' < buffer_size /\ buffer_size' = buffer_size
  <1>1. used + 1 < buffer_size /\ used \in Nat /\ buffer_size' = buffer_size
    BY DEF LoadRead, IInv, LoaderInv
  <1>2. PICK n \in Available(fd, buffer_size - used - 1) : used' = used + n /\ n # 0
    BY DEF LoadRead
  <1>3. pc \in Holding /\ pc = "read"
    BY DEF LoadRead, Holding
  <1>4. /\ buffer_size = Archive[script_file] + 1 /\ Archive[script_file] \in Nat
        /\ memory[fd_table[fd].data].size = Archive[script_file]
        /\ memory[fd_table[fd].data].current = used
    BY <1>3, LoaderFile DEF IInv, ReadInv
  <1>5. n \in 1 .. (buffer_size - used - 1)
    BY <1>1, <1>2, <1>4 DEF Available
  <1> QED BY <1>1, <1>2, <1>4, <1>5

LEMMA LoaderAdvances ==
  ASSUME IInv, read_script
  PROVE  \/ Ahead[pc'] < Ahead[pc]
         \/ /\ pc = "read" /\ pc' = "read" /\ buffer_size' = buffer_size
            /\ used < used' /\ used' < buffer_size
  <1>1. CASE LoadOpen
    <2>1. pc = "open" /\ pc' \in {"over", "fstat"}
      BY <1>1 DEF LoadOpen
    <2> QED BY <2>1 DEF Ahead
  <1>2. CASE LoadFstat
    <2>1. pc = "fstat" /\ pc' \in {"close_failed", "malloc"}
      BY <1>2, Zenon DEF LoadFstat
    <2> QED BY <2>1 DEF Ahead
  <1>3. CASE LoadMalloc
    <2>1. pc = "malloc" /\ pc' \in {"close_failed", "read"}
      BY <1>3 DEF LoadMalloc
    <2> QED BY <2>1 DEF Ahead
  <1>4. CASE LoadRead
    <2>1. pc = "read" /\ pc' \in {"read", "close"}
      BY <1>4 DEF LoadRead
    <2>2. CASE pc' = "read"
      BY <1>4, <2>1, <2>2, ReadBrings
    <2>3. CASE pc' = "close"
      BY <2>1, <2>3 DEF Ahead
    <2> QED BY <2>1, <2>2, <2>3
  <1>5. CASE LoadReadEnds \/ LoadReadFails
    <2>1. pc = "read" /\ pc' \in {"close", "close_failed"}
      BY <1>5 DEF LoadReadEnds, LoadReadFails, ReadErrorLeadsTo
    <2> QED BY <2>1 DEF Ahead
  <1>6. CASE LoadClose
    <2>1. pc = "close" /\ pc' = "terminate"
      BY <1>6 DEF LoadClose
    <2> QED BY <2>1 DEF Ahead
  <1>7. CASE LoadTerminate
    <2>1. pc = "terminate" /\ pc' = "run"
      BY <1>7 DEF LoadTerminate
    <2> QED BY <2>1 DEF Ahead
  <1>8. CASE LoadCloseFailed
    <2>1. pc = "close_failed" /\ pc' \in {"over", "free"}
      BY <1>8 DEF LoadCloseFailed
    <2> QED BY <2>1 DEF Ahead
  <1>9. CASE FreeScript
    <2>1. pc = "free" /\ pc' = "over"
      BY <1>9 DEF FreeScript
    <2> QED BY <2>1 DEF Ahead
  <1> QED BY <1>1, <1>2, <1>3, <1>4, <1>5, <1>6, <1>7, <1>8, <1>9 DEF read_script

(* read_script goes on whatever fails, for every size of script, table and  *)
(* memory: its reads are at most as many as the script has bytes, and one   *)
(* more, and no other of its steps comes twice (ruby.c:43-60).              *)
THEOREM LoaderGoesOn == Spec => LoadIsShort
  <1>1. IInv /\ [Next]_vars =>
          [(pc \in Loading) =>
             \/ Ahead[pc'] < Ahead[pc]
             \/ /\ pc = "read" /\ pc' = "read" /\ buffer_size' = buffer_size
                /\ used < used' /\ used' < buffer_size]_vars
    <2>1. pc \in Loading => ~Boot /\ ~ScriptEnds /\ ~RubyCalls
      BY DEF Boot, ScriptEnds, RubyCalls, Loading, Holding
    <2> QED BY <2>1, LoaderAdvances DEF Next
  <1> QED BY <1>1, Invariant, PTL DEF Spec, LoadIsShort

(* Types, a free list with each descriptor at most once, and positions      *)
(* within their files (TypeOK), for every archive and script.              *)
THEOREM TypeCorrect == Spec => []TypeOK
  <1>1. IInv => TypeOK
    <2> SUFFICES ASSUME IInv PROVE TypeOK
      OBVIOUS
    <2>1. ASSUME NEW b \in Blocks
          PROVE  \/ memory[b] = Free
                 \/ memory[b].kind = "file" /\ memory[b].current \in 0 .. memory[b].size
                 \/ memory[b].kind = "text" /\ Len(memory[b].bytes) <= memory[b].size
      <3>1. CASE b = buffer
        <4>1. TextAt(memory[b])
          BY <3>1, ArchiveAssumption DEF IInv, ReadInv
        <4>2. PICK n \in Nat, bytes \in Seq(Nat) : memory[b] = Text(bytes, n) /\ Len(bytes) <= n
          BY <4>1 DEF TextAt
        <4> QED BY <4>2 DEF Text
      <3>2. ASSUME NEW f \in DOMAIN opened, b = fd_table[f].data
            PROVE  memory[b].kind = "file" /\ memory[b].current \in 0 .. memory[b].size
        <4>1. PICK pos \in 0 .. Archive[opened[f]] : memory[b] = FileState(opened[f], pos)
          BY <3>2 DEF IInv, FilesInv, OpenFiles, FileAt
        <4> QED BY <4>1 DEF FileState
      <3> QED BY <3>1, <3>2 DEF IInv, FilesInv, Owners
    <2>2. ruby_fds \subseteq Fds
      BY DEF IInv, LoaderInv, FilesInv, Shapes
    <2> QED BY <2>1, <2>2 DEF TypeOK, IInv, FilesInv, Shapes, LoaderInv
  <1> QED BY <1>1, Invariant, PTL

(* The library's table, its free list and the blocks behind it implement a  *)
(* table of open files, with a name and a position each.                    *)
THEOREM ImplementsFileTable == Spec => IsFileTable
  <1>1. Init => Table!TableInit
    BY InitIInv
  <1>2. IInv /\ [Next]_vars => [Table!Next]_file_table
    BY NextIInv
  <1> QED BY <1>1, <1>2, Invariant, PTL DEF Spec, IsFileTable, Table!Spec

-----------------------------------------------------------------------------
(* Paths.  Split and Components are folds, and so chains (FoldLemmas); what  *)
(* they make of a path one character longer gives, by induction on paths,   *)
(* that a slash ends a component (SplitConcat), that no two paths split     *)
(* alike (SplitInjective), and that first components are a first part of    *)
(* the path (HeadsUnder).  normalize_path drops what is no name, a          *)
(* canonical path has nothing else to drop, and names of entries nothing at *)
(* all.                                                                     *)

(* Induction on a sequence, element by element, for a set of them.          *)
LEMMA AppendInduction ==
  ASSUME NEW A, NEW S \in SUBSET Seq(A), <<>> \in S,
         \A s \in S : \A x \in A : Append(s, x) \in S
  PROVE  S = Seq(A)
<1> DEFINE K == {n \in Nat : \A s \in Seq(A) : Len(s) = n => s \in S}
<1>1. 0 \in K
  <2>1. \A s \in Seq(A) : Len(s) = 0 => s = <<>>
    OBVIOUS
  <2> QED BY <2>1
<1>2. ASSUME NEW n \in K PROVE n + 1 \in K
  <2>1. n \in Nat /\ n + 1 \in Nat
    OBVIOUS
  <2>2. SUFFICES ASSUME NEW s \in Seq(A), Len(s) = n + 1 PROVE s \in S
    BY <2>1
  <2>3. PICK t \in Seq(A), x \in A : s = Append(t, x)
    <3>1. s # <<>>
      BY <2>1, <2>2
    <3> QED BY <3>1, SequenceEmptyOrAppend
  <2>4. Len(t) = n
    BY <2>1, <2>2, <2>3
  <2>5. t \in S
    BY <2>4
  <2> QED BY <2>3, <2>5
<1> HIDE DEF K
<1>3. K \in SUBSET Nat
  BY DEF K
<1>4. K = Nat
  BY <1>1, <1>2, <1>3, NumberInduction
<1>5. ASSUME NEW s \in Seq(A) PROVE s \in S
  <2>1. Len(s) \in Nat
    OBVIOUS
  <2> QED BY <1>4, <2>1 DEF K
<1> QED BY <1>5


(* The provers do not know that a literal is in STRING.                     *)
Char == STRING \cup {Slash, Dot}

Texts == Seq(Char)
Parts == Seq(Texts) \ {<<>>}

(* The two characters that paths are about.                                 *)
LEMMA Letters == Slash \in Char /\ Dot \in Char /\ Slash # Dot
  BY DEF Char, Slash, Dot

(* A character more leaves components, and at least one.                    *)
LEMMA SplitAtIsParts ==
  ASSUME NEW parts \in Parts, NEW ch \in Char
  PROVE  split_at(parts, ch) \in Parts
<1>1. CASE ch = Slash
  <2>1. <<>> \in Texts
    BY DEF Texts
  <2> QED BY <1>1, <2>1 DEF split_at, Parts
<1>2. CASE ch # Slash
  <2> DEFINE n == Len(parts)
  <2>1. n \in 1 .. Len(parts) /\ parts \in Seq(Texts)
    BY DEF Parts
  <2>2. parts[n] \in Texts
    BY <2>1
  <2>3. Append(parts[n], ch) \in Texts
    BY <2>2 DEF Texts
  <2> DEFINE last == Append(parts[n], ch)
  <2> HIDE DEF last
  <2>4. [parts EXCEPT ![n] = last] \in Seq(Texts) /\ Len([parts EXCEPT ![n] = last]) = n
    BY <2>1, <2>3, ExceptSeq DEF last
  <2>5. n # 0
    BY <2>1
  <2>6. split_at(parts, ch) = [parts EXCEPT ![n] = last]
    BY <1>2 DEF split_at, last
  <2> QED BY <2>4, <2>5, <2>6 DEF Parts
<1> QED BY <1>1, <1>2

SplitStep == [p \in Parts \X Char |-> split_at(p[1], p[2])]

(* The empty path has one component, which is empty.                        *)
LEMMA OnePart == << <<>> >> \in Parts
  BY DEF Parts, Texts

(* The fold in Split is a chain of split_at.                                *)
LEMMA SplitChain ==
  ASSUME NEW s \in Seq(Char)
  PROVE  ComesTo(Parts, SplitStep, << <<>> >>, s, Len(s), FoldLeft(split_at, << <<>> >>, s))
<1> DEFINE n == Len(s)
           F == SplitStep
           Rec(g) == g = [t \in SUBSET (DOMAIN s) |->
                            IF t = {} THEN << <<>> >>
                            ELSE split_at(g[t \ {Max(t)}], s[Max(t)])]
           fold == CHOOSE g : Rec(g)
<1>1. n \in Nat /\ DOMAIN s = 1 .. n /\ s \in [1 .. n -> Char]
  OBVIOUS
<1>2. << <<>> >> \in Parts
  BY OnePart
<1>3. /\ F \in [Parts \X Char -> Parts]
      /\ \A a \in Parts, x \in Char : F[<<a, x>>] = split_at(a, x) /\ F[<<a, x>>] \in Parts
  BY SplitAtIsParts DEF SplitStep
<1>4. FoldLeft(split_at, << <<>> >>, s) = fold[DOMAIN s]
  BY DEF FoldLeft, MapThenFoldSet
<1> HIDE DEF F, n
<1>5. PICK f \in [SUBSET (1 .. n) -> Parts] : Folds(f, F, << <<>> >>, s, n)
  BY <1>1, <1>2, <1>3, FoldExists
<1>6. ASSUME NEW t \in SUBSET (1 .. n), t # {}
      PROVE  t \ {Max(t)} \in SUBSET (1 .. n) /\ s[Max(t)] \in Char
  BY <1>1, <1>6, MaxOf
<1>7. Rec(f)
  <2>1. ASSUME NEW t \in SUBSET (1 .. n)
        PROVE  f[t] = IF t = {} THEN << <<>> >> ELSE split_at(f[t \ {Max(t)}], s[Max(t)])
    BY <1>3, <1>5, <1>6 DEF Folds
  <2> QED
    BY <1>1, <1>5, <2>1
<1>8. Rec(fold)
  BY <1>7
<1> HIDE DEF fold
<1>9. \A t \in SUBSET (1 .. n) :
        fold[t] = IF t = {} THEN << <<>> >> ELSE split_at(fold[t \ {Max(t)}], s[Max(t)])
  BY <1>1, <1>8
<1> HIDE DEF Rec
<1>10. \A t \in SUBSET (1 .. n) : fold[t] \in Parts
  <2>1. fold[{}] \in Parts
    BY <1>2, <1>9
  <2>2. ASSUME NEW t \in SUBSET (1 .. n), t # {}, fold[t \ {Max(t)}] \in Parts
        PROVE  fold[t] \in Parts
    <3>1. fold[t] = split_at(fold[t \ {Max(t)}], s[Max(t)])
      BY <1>9, <2>2
    <3> QED
      BY <1>3, <1>6, <2>2, <3>1
  <2> QED
    BY <1>1, <2>1, <2>2, FoldStays, Zenon
<1>11. Folds(fold, F, << <<>> >>, s, n)
  BY <1>3, <1>6, <1>9, <1>10 DEF Folds
<1>12. ComesTo(Parts, F, << <<>> >>, s, n, fold[1 .. n])
  BY <1>1, <1>2, <1>3, <1>11, FoldChain
<1> QED
  BY <1>1, <1>4, <1>12 DEF F, n

(* The components that are names are components.                            *)
LEMMA WithNameIsParts ==
  ASSUME NEW parts \in Seq(Texts), NEW part \in Texts
  PROVE  with_name(parts, part) \in Seq(Texts)
  BY DEF with_name

NameStep == [p \in Seq(Texts) \X Texts |-> with_name(p[1], p[2])]

(* The fold in Components is a chain of with_name.                          *)
LEMMA NamesChain ==
  ASSUME NEW s \in Seq(Texts)
  PROVE  ComesTo(Seq(Texts), NameStep, <<>>, s, Len(s), FoldLeft(with_name, <<>>, s))
<1> DEFINE n == Len(s)
           F == NameStep
           Rec(g) == g = [t \in SUBSET (DOMAIN s) |->
                            IF t = {} THEN <<>>
                            ELSE with_name(g[t \ {Max(t)}], s[Max(t)])]
           fold == CHOOSE g : Rec(g)
<1>1. n \in Nat /\ DOMAIN s = 1 .. n /\ s \in [1 .. n -> Texts]
  OBVIOUS
<1>2. <<>> \in Seq(Texts)
  OBVIOUS
<1>3. /\ F \in [Seq(Texts) \X Texts -> Seq(Texts)]
      /\ \A a \in Seq(Texts), x \in Texts : F[<<a, x>>] = with_name(a, x) /\ F[<<a, x>>] \in Seq(Texts)
  BY WithNameIsParts DEF NameStep
<1>4. FoldLeft(with_name, <<>>, s) = fold[DOMAIN s]
  BY DEF FoldLeft, MapThenFoldSet
<1> HIDE DEF F, n
<1>5. PICK f \in [SUBSET (1 .. n) -> Seq(Texts)] : Folds(f, F, <<>>, s, n)
  BY <1>1, <1>2, <1>3, FoldExists
<1>6. ASSUME NEW t \in SUBSET (1 .. n), t # {}
      PROVE  t \ {Max(t)} \in SUBSET (1 .. n) /\ s[Max(t)] \in Texts
  BY <1>1, <1>6, MaxOf
<1>7. Rec(f)
  <2>1. ASSUME NEW t \in SUBSET (1 .. n)
        PROVE  f[t] = IF t = {} THEN <<>> ELSE with_name(f[t \ {Max(t)}], s[Max(t)])
    BY <1>3, <1>5, <1>6 DEF Folds
  <2> QED
    BY <1>1, <1>5, <2>1
<1>8. Rec(fold)
  BY <1>7
<1> HIDE DEF fold
<1>9. \A t \in SUBSET (1 .. n) :
        fold[t] = IF t = {} THEN <<>> ELSE with_name(fold[t \ {Max(t)}], s[Max(t)])
  BY <1>1, <1>8
<1> HIDE DEF Rec
<1>10. \A t \in SUBSET (1 .. n) : fold[t] \in Seq(Texts)
  <2>1. fold[{}] \in Seq(Texts)
    BY <1>2, <1>9
  <2>2. ASSUME NEW t \in SUBSET (1 .. n), t # {}, fold[t \ {Max(t)}] \in Seq(Texts)
        PROVE  fold[t] \in Seq(Texts)
    <3>1. fold[t] = with_name(fold[t \ {Max(t)}], s[Max(t)])
      BY <1>9, <2>2
    <3> QED
      BY <1>3, <1>6, <2>2, <3>1
  <2> QED
    BY <1>1, <2>1, <2>2, FoldStays, Zenon
<1>11. Folds(fold, F, <<>>, s, n)
  BY <1>3, <1>6, <1>9, <1>10 DEF Folds
<1>12. ComesTo(Seq(Texts), F, <<>>, s, n, fold[1 .. n])
  BY <1>1, <1>2, <1>3, <1>11, FoldChain
<1> QED
  BY <1>1, <1>4, <1>12 DEF F, n

Kept(parts) == FoldLeft(with_name, <<>>, parts)

(* A fold over nothing.                                                     *)
LEMMA EmptyComesTo ==
  ASSUME NEW A, NEW F, NEW base, NEW end, ComesTo(A, F, base, <<>>, Len(<<>>), end)
  PROVE  end = base
  BY DEF ComesTo, Chain

(* Split, character by character.                                           *)
LEMMA SplitAppend ==
  /\ Split(<<>>) = << <<>> >>
  /\ \A s \in Texts : Split(s) \in Parts
  /\ \A s \in Texts, ch \in Char : Split(Append(s, ch)) = split_at(Split(s), ch)
<1>1. \A s \in Texts : ComesTo(Parts, SplitStep, << <<>> >>, s, Len(s), Split(s))
  BY SplitChain DEF Split, Texts
<1>2. Split(<<>>) = << <<>> >>
  <2>1. <<>> \in Texts
    BY DEF Texts
  <2> QED BY <1>1, <2>1, EmptyComesTo
<1>3. SplitStep \in [Parts \X Char -> Parts]
  BY SplitAtIsParts DEF SplitStep
<1>4. ASSUME NEW s \in Texts, NEW ch \in Char
      PROVE  Split(s) \in Parts /\ Split(Append(s, ch)) = split_at(Split(s), ch)
  <2>1. s \in Seq(Char) /\ Append(s, ch) \in Texts
    BY DEF Texts
  <2>2. ComesTo(Parts, SplitStep, << <<>> >>, s, Len(s), Split(s))
    BY <1>1
  <2>3. ComesTo(Parts, SplitStep, << <<>> >>, Append(s, ch), Len(Append(s, ch)), Split(Append(s, ch)))
    BY <1>1, <2>1
  <2>5. OneFurther(Parts, Char, SplitStep, s, ch, Split(s), Split(Append(s, ch)))
    BY <1>3, <2>1, <2>2, <2>3 DEF OneFurther
  <2>4. Split(s) \in Parts /\ Split(Append(s, ch)) = SplitStep[<<Split(s), ch>>]
    BY <2>5, ChainAppend
  <2> QED BY <2>4 DEF SplitStep
<1> QED BY <1>2, <1>4, Letters

(* And what is kept of it, component by component.                          *)
LEMMA KeptAppend ==
  /\ Kept(<<>>) = <<>>
  /\ \A s \in Seq(Texts) : Kept(s) \in Seq(Texts)
  /\ \A s \in Seq(Texts), x \in Texts : Kept(Append(s, x)) = with_name(Kept(s), x)
<1>1. \A s \in Seq(Texts) : ComesTo(Seq(Texts), NameStep, <<>>, s, Len(s), Kept(s))
  BY NamesChain DEF Kept
<1>2. Kept(<<>>) = <<>>
  <2>1. <<>> \in Seq(Texts)
    OBVIOUS
  <2> QED BY <1>1, <2>1, EmptyComesTo
<1>3. NameStep \in [Seq(Texts) \X Texts -> Seq(Texts)]
  BY WithNameIsParts DEF NameStep
<1>4. ASSUME NEW s \in Seq(Texts), NEW x \in Texts
      PROVE  Kept(s) \in Seq(Texts) /\ Kept(Append(s, x)) = with_name(Kept(s), x)
  <2>1. Append(s, x) \in Seq(Texts)
    OBVIOUS
  <2>2. ComesTo(Seq(Texts), NameStep, <<>>, s, Len(s), Kept(s))
    BY <1>1
  <2>3. ComesTo(Seq(Texts), NameStep, <<>>, Append(s, x), Len(Append(s, x)), Kept(Append(s, x)))
    BY <1>1, <2>1
  <2>5. OneFurther(Seq(Texts), Texts, NameStep, s, x, Kept(s), Kept(Append(s, x)))
    BY <1>3, <2>1, <2>2, <2>3 DEF OneFurther
  <2>4. Kept(s) \in Seq(Texts) /\ Kept(Append(s, x)) = NameStep[<<Kept(s), x>>]
    BY <2>5, ChainAppend
  <2> QED BY <2>4 DEF NameStep
<1>5. <<>> \in Texts
  BY DEF Texts
<1> QED BY <1>2, <1>4, <1>5

(* What is behind a component does not depend on what is before it.         *)
LEMMA SplitAtBehind ==
  ASSUME NEW a \in Seq(Texts), NEW b \in Parts, NEW ch \in Char
  PROVE  split_at(a \o b, ch) = a \o split_at(b, ch)
<1>1. a \in Seq(Texts) /\ b \in Seq(Texts) /\ b # <<>> /\ Len(b) \in 1 .. Len(b)
  BY DEF Parts
<1>2. CASE ch = Slash
  BY <1>1, <1>2 DEF split_at
<1>3. CASE ch # Slash
  <2> DEFINE last == Append(b[Len(b)], ch)
             n == Len(a) + Len(b)
  <2>1. Len(a \o b) = n /\ n \in Nat /\ (a \o b)[n] = b[Len(b)] /\ n \in 1 .. n
    BY <1>1
  <2>2. split_at(b, ch) = [b EXCEPT ![Len(b)] = last]
    BY <1>3 DEF split_at
  <2>3. split_at(a \o b, ch) = [a \o b EXCEPT ![n] = last]
    BY <1>3, <2>1 DEF split_at
  <2> DEFINE left_side == [a \o b EXCEPT ![n] = last]
             new == [b EXCEPT ![Len(b)] = last]
  <2>4. last \in Texts
    <3>1. b[Len(b)] \in Seq(Char)
      BY <1>1 DEF Texts
    <3> QED BY <3>1 DEF Texts
  <2> HIDE DEF last
  <2>5. new \in Seq(Texts) /\ Len(new) = Len(b)
        /\ \A j \in 1 .. Len(b) : new[j] = IF j = Len(b) THEN last ELSE b[j]
    BY <1>1, <2>4, ExceptSeq
  <2>6. a \o b \in Seq(Texts)
    BY <1>1
  <2>7. left_side \in Seq(Texts) /\ Len(left_side) = n
        /\ \A j \in 1 .. n : left_side[j] = IF j = n THEN last ELSE (a \o b)[j]
    <3> DEFINE ab == a \o b
    <3> HIDE DEF ab, n
    <3>1. ab \in Seq(Texts) /\ Len(ab) = n /\ n \in 1 .. Len(ab)
      BY <2>1, <2>6 DEF ab
    <3>2. /\ [ab EXCEPT ![n] = last] \in Seq(Texts) /\ Len([ab EXCEPT ![n] = last]) = n
          /\ \A j \in 1 .. n : [ab EXCEPT ![n] = last][j] = IF j = n THEN last ELSE ab[j]
      BY <2>4, <3>1, ExceptSeq
    <3> QED BY <3>2 DEF ab
  <2> HIDE DEF left_side, new
  <2>8. a \o new \in Seq(Texts) /\ Len(a \o new) = n
    BY <2>5
  <2> HIDE DEF n
  <2>9. ASSUME NEW j \in 1 .. n PROVE left_side[j] = (a \o new)[j]
    <3> USE DEF n
    <3>1. CASE j <= Len(a)
      <4>1. j # n /\ j \in 1 .. Len(a)
        <5>1. Len(a) \in Nat /\ Len(b) \in Nat \ {0} /\ j \in Nat \ {0}
          BY <1>1
        <5> QED BY <3>1, <5>1
      <4>2. (a \o b)[j] = a[j] /\ (a \o new)[j] = a[j]
        BY <1>1, <2>5, <4>1
      <4> QED BY <2>7, <4>1, <4>2
    <3>2. CASE j > Len(a)
      <4>1. j - Len(a) \in 1 .. Len(b) /\ (j = n <=> j - Len(a) = Len(b))
        BY <1>1, <3>2
      <4>2. (a \o b)[j] = b[j - Len(a)] /\ (a \o new)[j] = new[j - Len(a)]
        <5>1. Len(a) \in Nat /\ Len(b) \in Nat /\ j \in Nat /\ ~(j <= Len(a))
              /\ j \in 1 .. Len(a) + Len(b)
          BY <1>1, <3>2
        <5>2. (a \o b)[j] = b[j - Len(a)]
          BY <1>1, <5>1, ConcatProperties
        <5>3. (a \o new)[j] = new[j - Len(a)]
          BY <1>1, <2>5, <5>1, ConcatProperties
        <5> QED BY <5>2, <5>3
      <4>3. left_side[j] = IF j = n THEN last ELSE (a \o b)[j]
        BY <2>7
      <4>4. new[j - Len(a)] = IF j = n THEN last ELSE b[j - Len(a)]
        BY <2>5, <4>1
      <4> QED BY <4>2, <4>3, <4>4, Zenon
    <3>3. j \in Nat /\ Len(a) \in Nat
      BY <1>1
    <3>4. j <= Len(a) \/ j > Len(a)
      BY <3>3
    <3> QED BY <3>1, <3>2, <3>4, Zenon
  <2>10. left_side = a \o new
    <3> DEFINE right_side == a \o new
    <3>1. right_side \in Seq(Texts) /\ Len(right_side) = n
          /\ \A j \in 1 .. n : left_side[j] = right_side[j]
      BY <2>8, <2>9
    <3> HIDE DEF right_side
    <3>2. left_side = right_side
      BY <2>7, <3>1, SeqEqual
    <3> QED BY <3>2 DEF right_side
  <2>11. split_at(a \o b, ch) = left_side /\ split_at(b, ch) = new
    BY <2>2, <2>3 DEF left_side, new
  <2> QED BY <2>10, <2>11
<1> QED BY <1>2, <1>3

(* A slash ends a component.                                                *)
LEMMA SplitConcat ==
  ASSUME NEW s \in Texts, NEW t \in Texts
  PROVE  Split(Append(s, Slash) \o t) = Split(s) \o Split(t)
<1> DEFINE u == Append(s, Slash)
           S == {x \in Texts : Split(u \o x) = Split(s) \o Split(x)}
<1>1. /\ s \in Seq(Char) /\ Slash \in Char /\ u \in Seq(Char)
      /\ Split(s) \in Parts /\ Split(s) \in Seq(Texts) /\ u \in Texts
  BY Letters, SplitAppend DEF Texts, Parts
<1>2. <<>> \in S
  <2>1. <<>> \in Texts /\ u \o <<>> = u
    BY <1>1 DEF Texts
  <2>2. Split(u) = Append(Split(s), <<>>)
    BY <1>1, SplitAppend DEF split_at
  <2>3. Split(s) \o << <<>> >> = Append(Split(s), <<>>)
    BY <1>1
  <2> QED BY <2>1, <2>2, <2>3, SplitAppend
<1>3. ASSUME NEW x \in S, NEW ch \in Char PROVE Append(x, ch) \in S
  <2>1. x \in Texts /\ x \in Seq(Char) /\ Split(u \o x) = Split(s) \o Split(x)
    BY DEF Texts
  <2> HIDE DEF u, S
  <2>2. u \o Append(x, ch) = Append(u \o x, ch) /\ u \o x \in Texts /\ Append(x, ch) \in Texts
    BY <1>1, <2>1 DEF Texts
  <2>3. Split(u \o Append(x, ch)) = split_at(Split(u \o x), ch)
    BY <2>2, SplitAppend
  <2>4. Split(Append(x, ch)) = split_at(Split(x), ch) /\ Split(x) \in Parts
    BY <2>1, SplitAppend
  <2>5. split_at(Split(s) \o Split(x), ch) = Split(s) \o split_at(Split(x), ch)
    BY <1>1, <2>4, SplitAtBehind
  <2>6. Split(u \o Append(x, ch)) = Split(s) \o Split(Append(x, ch))
    BY <2>1, <2>3, <2>4, <2>5
  <2> QED BY <2>2, <2>6 DEF S
<1>4. S \in SUBSET Seq(Char)
  BY DEF Texts
<1> HIDE DEF S
<1>5. S = Seq(Char)
  BY <1>2, <1>3, <1>4, AppendInduction
<1> QED BY <1>5 DEF S, Texts

(* A component that is not a name is passed over.                           *)
LEMMA KeptBehind ==
  ASSUME NEW a \in Texts, ~IsName(a), NEW t \in Seq(Texts)
  PROVE  Kept(<<a>> \o t) = Kept(t)
<1> DEFINE S == {x \in Seq(Texts) : Kept(<<a>> \o x) = Kept(x)}
<1>1. <<>> \in S
  <2>1. <<>> \in Seq(Texts) /\ <<a>> \o <<>> = Append(<<>>, a)
    OBVIOUS
  <2>2. Kept(Append(<<>>, a)) = with_name(Kept(<<>>), a)
    BY <2>1, KeptAppend
  <2> QED BY <2>1, <2>2 DEF with_name
<1>2. ASSUME NEW x \in S, NEW part \in Texts PROVE Append(x, part) \in S
  <2>1. x \in Seq(Texts) /\ Kept(<<a>> \o x) = Kept(x)
    OBVIOUS
  <2> HIDE DEF S
  <2>2. <<a>> \o Append(x, part) = Append(<<a>> \o x, part)
        /\ <<a>> \o x \in Seq(Texts) /\ Append(x, part) \in Seq(Texts)
    BY <2>1
  <2>3. Kept(<<a>> \o Append(x, part)) = with_name(Kept(<<a>> \o x), part)
    BY <2>2, KeptAppend
  <2>4. Kept(Append(x, part)) = with_name(Kept(x), part)
    BY <2>1, KeptAppend
  <2>5. Kept(<<a>> \o Append(x, part)) = Kept(Append(x, part))
    BY <2>1, <2>3, <2>4
  <2> QED BY <2>2, <2>5 DEF S
<1>3. S \in SUBSET Seq(Texts)
  OBVIOUS
<1> HIDE DEF S
<1>4. S = Seq(Texts)
  BY <1>1, <1>2, <1>3, AppendInduction
<1> QED BY <1>4 DEF S

AllNames(parts) == \A i \in 1 .. Len(parts) : IsName(parts[i])

(* Nothing is passed over when all are names, and only then.                *)
LEMMA KeptAll ==
  ASSUME NEW t \in Seq(Texts)
  PROVE  /\ Len(Kept(t)) <= Len(t)
         /\ Len(Kept(t)) = Len(t) <=> AllNames(t)
         /\ AllNames(t) => Kept(t) = t
<1> DEFINE Holds(x) == /\ Len(Kept(x)) <= Len(x)
                       /\ Len(Kept(x)) = Len(x) <=> AllNames(x)
                       /\ AllNames(x) => Kept(x) = x
           S == {x \in Seq(Texts) : Holds(x)}
<1>1. <<>> \in S
  <2>1. Kept(<<>>) = <<>> /\ AllNames(<<>>) /\ <<>> \in Seq(Texts)
    BY KeptAppend DEF AllNames
  <2> QED BY <2>1
<1>2. ASSUME NEW x \in S, NEW part \in Texts PROVE Append(x, part) \in S
  <2>1. x \in Seq(Texts) /\ Holds(x)
    OBVIOUS
  <2>2. Kept(x) \in Seq(Texts) /\ Kept(Append(x, part)) = with_name(Kept(x), part)
    BY <2>1, KeptAppend
  <2>3. /\ Append(x, part) \in Seq(Texts) /\ Len(Append(x, part)) = Len(x) + 1
        /\ Len(Kept(x)) \in Nat /\ Len(x) \in Nat
        /\ Len(Append(Kept(x), part)) = Len(Kept(x)) + 1
    BY <2>1, <2>2
  <2>4. AllNames(Append(x, part)) <=> AllNames(x) /\ IsName(part)
    <3> DEFINE y == Append(x, part)
    <3>1. Len(y) = Len(x) + 1 /\ y[Len(x) + 1] = part /\ \A i \in 1 .. Len(x) : y[i] = x[i]
      BY <2>1
    <3> HIDE DEF y
    <3>2. \A i : i \in 1 .. Len(y) <=> i \in 1 .. Len(x) \/ i = Len(x) + 1
      BY <2>3, <3>1
    <3> QED BY <3>1, <3>2 DEF AllNames, y
  <2>5. CASE IsName(part)
    <3>1. Kept(Append(x, part)) = Append(Kept(x), part)
      BY <2>2, <2>5 DEF with_name
    <3>2. AllNames(x) => Kept(x) = x
      BY <2>1
    <3>3. Holds(Append(x, part))
      BY <2>1, <2>3, <2>4, <2>5, <3>1, <3>2
    <3> QED BY <2>3, <3>3
  <2>6. CASE ~IsName(part)
    <3>1. Kept(Append(x, part)) = Kept(x)
      BY <2>2, <2>6 DEF with_name
    <3>2. Holds(Append(x, part))
      BY <2>1, <2>3, <2>4, <2>6, <3>1
    <3> QED BY <2>3, <3>2
  <2> QED BY <2>5, <2>6
<1>3. S \in SUBSET Seq(Texts)
  OBVIOUS
<1> HIDE DEF S, Holds
<1>4. S = Seq(Texts)
  BY <1>1, <1>2, <1>3, AppendInduction
<1>5. Holds(t)
  BY <1>4 DEF S
<1> QED BY <1>5 DEF Holds

(* A path is what its components say: its last component and what is before it. *)
LEMMA SplitLast ==
  ASSUME NEW s \in Texts, NEW ch \in Char
  PROVE  LET p == Split(s)
             q == Split(Append(s, ch))
         IN  /\ p \in Seq(Texts) /\ Len(p) \in Nat \ {0} /\ q \in Seq(Texts)
             /\ ch = Slash => /\ Len(q) = Len(p) + 1 /\ q[Len(q)] = <<>>
                              /\ \A i \in 1 .. Len(p) : q[i] = p[i]
             /\ ch # Slash => /\ Len(q) = Len(p) /\ q[Len(q)] = Append(p[Len(p)], ch)
                              /\ q[Len(q)] # <<>> /\ p[Len(p)] \in Seq(Char)
                              /\ \A i \in 1 .. Len(p) - 1 : q[i] = p[i]
<1> DEFINE p == Split(s)
           q == Split(Append(s, ch))
           n == Len(p)
<1>1. p \in Parts /\ q = split_at(p, ch)
  BY SplitAppend
<1> HIDE DEF p, q
<1>2. p \in Seq(Texts) /\ n \in Nat \ {0} /\ n \in 1 .. n
  BY <1>1 DEF Parts
<1>3. p[n] \in Texts /\ p[n] \in Seq(Char)
  BY <1>2 DEF Texts
<1>4. CASE ch = Slash
  <2>1. q = Append(p, <<>>) /\ <<>> \in Texts
    BY <1>1, <1>4 DEF split_at, Texts
  <2>2. /\ q \in Seq(Texts) /\ Len(q) = n + 1 /\ q[n + 1] = <<>>
        /\ \A i \in 1 .. n : q[i] = p[i]
    BY <1>2, <2>1
  <2> QED BY <1>2, <1>4, <2>2 DEF p, q
<1>5. CASE ch # Slash
  <2> DEFINE last == Append(p[n], ch)
  <2>1. q = [p EXCEPT ![n] = last]
    BY <1>1, <1>5 DEF split_at
  <2>2. last \in Texts /\ last # <<>>
    BY <1>3 DEF Texts
  <2> HIDE DEF last
  <2>3. q \in Seq(Texts) /\ Len(q) = n /\ \A j \in 1 .. n : q[j] = IF j = n THEN last ELSE p[j]
    BY <1>2, <2>1, <2>2, ExceptSeq
  <2>4. q[n] = last /\ \A i \in 1 .. n - 1 : q[i] = p[i]
    BY <1>2, <2>3
  <2> QED BY <1>2, <1>3, <1>5, <2>2, <2>3, <2>4 DEF p, q, last
<1> QED BY <1>4, <1>5

(* Texts that agree after one character more do so before it.               *)
LEMMA SameEnds ==
  ASSUME NEW s \in Seq(Char), NEW t \in Seq(Char), NEW e \in Char, NEW f \in Char,
         Append(s, e) = Append(t, f)
  PROVE  s = t /\ e = f
BY AppendInjective

(* What follows the same beginning is the same.                             *)
LEMMA SameTails ==
  ASSUME NEW s \in Seq(Char), NEW t \in Seq(Char), NEW u \in Seq(Char), s \o t = s \o u
  PROVE  t = u
BY ConcatSimplifications

(* A path that is not empty has a last character.                           *)
LEMMA TextEnds ==
  ASSUME NEW s \in Texts
  PROVE  s = <<>> \/ \E t \in Texts, ch \in Char : s = Append(t, ch)
  BY SequenceEmptyOrAppend DEF Texts

(* A path is what it is split into.                                         *)
LEMMA SplitInjective ==
  ASSUME NEW a \in Texts, NEW b \in Texts, Split(a) = Split(b)
  PROVE  a = b
<1> DEFINE S == {x \in Texts : \A y \in Texts : Split(x) = Split(y) => x = y}
<1>0. <<>> \in Texts /\ Split(<<>>) = << <<>> >>
  BY SplitAppend DEF Texts
<1>6. ASSUME NEW y \in Texts, Split(y) = << <<>> >>
      PROVE  y = <<>>
  <2>1. SUFFICES ASSUME NEW t \in Texts, NEW ch \in Char, y = Append(t, ch)
                 PROVE  FALSE
    BY TextEnds
  <2> DEFINE p == Split(t)
             q == Split(y)
  <2>2. /\ p \in Seq(Texts) /\ Len(p) \in Nat \ {0}
        /\ ch = Slash => Len(q) = Len(p) + 1
        /\ ch # Slash => q[Len(q)] # <<>>
    BY <2>1, SplitLast
  <2>3. Len(q) = 1 /\ q[1] = <<>>
    BY <1>6
  <2> HIDE DEF p, q
  <2> QED BY <2>2, <2>3
<1>1. <<>> \in S
  <2>1. \A y \in Texts : Split(<<>>) = Split(y) => <<>> = y
    BY <1>0, <1>6
  <2> QED BY <1>0, <2>1
<1>2. ASSUME NEW x \in S, NEW ch \in Char PROVE Append(x, ch) \in S
  <2>1. x \in Texts /\ \A y \in Texts : Split(x) = Split(y) => x = y
    OBVIOUS
  <2> DEFINE more == Append(x, ch)
  <2>2. more \in Texts /\ more # <<>>
    <3>1. x \in Seq(Char)
      BY <2>1 DEF Texts
    <3>2. more \in Seq(Char) /\ more # <<>>
      BY <3>1, AppendProperties
    <3> QED BY <3>2 DEF Texts
  <2>3. SUFFICES ASSUME NEW y \in Texts, Split(more) = Split(y) PROVE more = y
    BY <2>2
  <2>4. y # <<>>
    BY <1>0, <1>6, <2>2, <2>3
  <2>5. PICK t \in Texts, last \in Char : y = Append(t, last)
    BY <2>4, TextEnds
  <2> DEFINE p == Split(x)
             q == Split(more)
             r == Split(t)
  <2>6. /\ p \in Seq(Texts) /\ Len(p) \in Nat \ {0} /\ q \in Seq(Texts)
        /\ ch = Slash => /\ Len(q) = Len(p) + 1 /\ q[Len(q)] = <<>>
                         /\ \A i \in 1 .. Len(p) : q[i] = p[i]
        /\ ch # Slash => /\ Len(q) = Len(p) /\ q[Len(q)] = Append(p[Len(p)], ch)
                         /\ q[Len(q)] # <<>> /\ p[Len(p)] \in Seq(Char)
                         /\ \A i \in 1 .. Len(p) - 1 : q[i] = p[i]
    BY <2>1, SplitLast
  <2>7. /\ r \in Seq(Texts) /\ Len(r) \in Nat \ {0}
        /\ last = Slash => /\ Len(q) = Len(r) + 1 /\ q[Len(q)] = <<>>
                         /\ \A i \in 1 .. Len(r) : q[i] = r[i]
        /\ last # Slash => /\ Len(q) = Len(r) /\ q[Len(q)] = Append(r[Len(r)], last)
                         /\ q[Len(q)] # <<>> /\ r[Len(r)] \in Seq(Char)
                         /\ \A i \in 1 .. Len(r) - 1 : q[i] = r[i]
    <3>1. q = Split(Append(t, last))
      BY <2>3, <2>5
    <3> HIDE DEF q
    <3> QED BY <2>5, <3>1, SplitLast
  <2> HIDE DEF p, q, r, more
  <2>8. ch = Slash <=> last = Slash
    BY <2>6, <2>7
  <2>9. Len(p) = Len(r)
    <3>1. CASE ch = Slash
      BY <2>6, <2>7, <2>8, <3>1
    <3>2. CASE ch # Slash
      BY <2>6, <2>7, <2>8, <3>2
    <3> QED BY <3>1, <3>2
  <2>10. ch = last /\ \A i \in 1 .. Len(p) : p[i] = r[i]
    <3>1. CASE ch = Slash
      BY <2>6, <2>7, <2>8, <2>9, <3>1
    <3>2. CASE ch # Slash
      <4>1. /\ p[Len(p)] \in Seq(Char) /\ r[Len(p)] \in Seq(Char)
            /\ Append(p[Len(p)], ch) = Append(r[Len(p)], last)
        BY <2>6, <2>7, <2>8, <2>9, <3>2
      <4>2. p[Len(p)] = r[Len(p)] /\ ch = last
        <5>1. ch \in Char /\ last \in Char
          OBVIOUS
        <5> DEFINE pe == p[Len(p)]
                   re == r[Len(p)]
        <5>2. pe \in Seq(Char) /\ re \in Seq(Char) /\ Append(pe, ch) = Append(re, last)
          BY <4>1
        <5> HIDE DEF pe, re
        <5>3. pe = re /\ ch = last
          BY ONLY <5>1, <5>2, SameEnds
        <5> QED BY <5>3 DEF pe, re
      <4>3. ASSUME NEW i \in 1 .. Len(p), i # Len(p) PROVE p[i] = r[i]
        <5>1. i \in 1 .. Len(p) - 1
          BY <2>6, <4>3
        <5> QED BY <2>6, <2>7, <2>8, <2>9, <3>2, <5>1
      <4> QED BY <4>2, <4>3
    <3> QED BY <3>1, <3>2
  <2>11. p = r
    BY <2>6, <2>7, <2>9, <2>10, SeqEqual
  <2>12. x = t
    BY <2>1, <2>5, <2>11 DEF p, r
  <2> QED BY <2>5, <2>10, <2>12 DEF more
<1>3. S \in SUBSET Seq(Char)
  BY DEF Texts
<1> HIDE DEF S
<1>4. S = Seq(Char)
  BY <1>1, <1>2, <1>3, AppendInduction
<1> QED BY <1>4 DEF S, Texts

(* s and a slash are where name begins.                                     *)
Under(s, name) ==
  /\ Len(s) < Len(name)
  /\ \A i \in 1 .. Len(s) : name[i] = s[i]
  /\ name[Len(s) + 1] = Slash

Heads(p, q) == Len(p) < Len(q) /\ \A i \in 1 .. Len(p) : p[i] = q[i]

(* What has the first components of a name is where the name begins.        *)
LEMMA HeadsUnder ==
  ASSUME NEW s \in Texts, NEW name \in Texts, Heads(Split(s), Split(name))
  PROVE  Under(s, name)
<1> DEFINE S == {x \in Texts : Heads(Split(s), Split(x)) => Under(s, x)}
           p == Split(s)
<1>0. p \in Seq(Texts) /\ Len(p) \in Nat \ {0} /\ s \in Seq(Char)
  BY SplitAppend DEF Parts, Texts
<1>1. <<>> \in S
  <2>1. <<>> \in Texts /\ Len(Split(<<>>)) = 1
    BY SplitAppend DEF Texts
  <2>2. ~Heads(p, Split(<<>>))
    <3>1. ~(Len(p) < 1)
      BY <1>0
    <3> HIDE DEF p
    <3> QED BY <2>1, <3>1 DEF Heads
  <2> QED BY <2>1, <2>2
<1>2. ASSUME NEW x \in S, NEW ch \in Char PROVE Append(x, ch) \in S
  <2>1. x \in Texts /\ x \in Seq(Char) /\ (Heads(p, Split(x)) => Under(s, x))
    BY DEF Texts
  <2> DEFINE more == Append(x, ch)
             r == Split(x)
             q == Split(more)
  <2>2. more \in Texts /\ Len(more) = Len(x) + 1 /\ more[Len(x) + 1] = ch
        /\ (\A i \in 1 .. Len(x) : more[i] = x[i]) /\ Len(x) \in Nat /\ Len(s) \in Nat
    BY <1>0, <2>1 DEF Texts
  <2>3. SUFFICES ASSUME Heads(p, q) PROVE Under(s, more)
    BY <2>2
  <2>4. /\ r \in Seq(Texts) /\ Len(r) \in Nat \ {0} /\ q \in Seq(Texts)
        /\ ch = Slash => /\ Len(q) = Len(r) + 1 /\ q[Len(q)] = <<>>
                         /\ \A i \in 1 .. Len(r) : q[i] = r[i]
        /\ ch # Slash => /\ Len(q) = Len(r)
                         /\ \A i \in 1 .. Len(r) - 1 : q[i] = r[i]
    BY <2>1, SplitLast
  <2> HIDE DEF r, q, p, more
  <2>5. Heads(p, r) => Under(s, more)
    <3>1. SUFFICES ASSUME Heads(p, r) PROVE Under(s, more)
      OBVIOUS
    <3>2. Under(s, x)
      BY <2>1, <3>1 DEF r
    <3>3. Len(s) < Len(x) /\ x[Len(s) + 1] = Slash /\ \A i \in 1 .. Len(s) : x[i] = s[i]
      BY <3>2 DEF Under
    <3>4. Len(s) + 1 \in 1 .. Len(x) /\ Len(s) < Len(more)
          /\ \A i \in 1 .. Len(s) : i \in 1 .. Len(x)
      BY <2>2, <3>3
    <3> QED BY <2>2, <3>3, <3>4 DEF Under
  <2>6. CASE ch # Slash
    <3>1. Len(p) < Len(q) /\ \A i \in 1 .. Len(p) : p[i] = q[i]
      BY <2>3 DEF Heads
    <3>2. \A i \in 1 .. Len(p) : i \in 1 .. Len(r) - 1
      BY <1>0, <2>4, <2>6, <3>1 DEF p
    <3>3. Heads(p, r)
      BY <2>4, <2>6, <3>1, <3>2 DEF Heads
    <3> QED BY <2>5, <3>3
  <2>7. CASE ch = Slash
    <3>1. Len(p) < Len(q) /\ \A i \in 1 .. Len(p) : p[i] = q[i]
      BY <2>3 DEF Heads
    <3>2. Len(p) \in Nat \ {0} /\ Len(p) <= Len(r) /\ p \in Seq(Texts)
      BY <1>0, <2>4, <2>7, <3>1 DEF p
    <3>3. \A i \in 1 .. Len(p) : p[i] = r[i]
      <4>1. \A i \in 1 .. Len(p) : i \in 1 .. Len(r)
        BY <2>4, <3>2
      <4> QED BY <2>4, <2>7, <3>1, <4>1
    <3>4. CASE Len(p) < Len(r)
      BY <2>5, <3>3, <3>4 DEF Heads
    <3>5. CASE Len(p) = Len(r)
      <4>1. p = r
        BY <2>4, <3>2, <3>3, <3>5, SeqEqual
      <4>2. s = x
        BY <2>1, <4>1, SplitInjective DEF p, r
      <4> QED BY <2>2, <2>7, <4>2 DEF Under
    <3> QED BY <2>4, <3>2, <3>4, <3>5
  <2> QED BY <2>6, <2>7
<1>3. S \in SUBSET Seq(Char)
  BY DEF Texts
<1> HIDE DEF S
<1>4. S = Seq(Char)
  BY <1>1, <1>2, <1>3, AppendInduction
<1> QED BY <1>4 DEF S, Texts

(* A path that goes on behind a slash.                                      *)
LEMMA UnderIs ==
  ASSUME NEW s \in Texts, NEW name \in Texts, Under(s, name)
  PROVE  \E t \in Texts : name = Append(s, Slash) \o t
<1> DEFINE n == Len(s) + 1
           t == SubSeq(name, n + 1, Len(name))
           a == Append(s, Slash)
<1>1. s \in Seq(Char) /\ name \in Seq(Char) /\ Len(s) \in Nat /\ Len(name) \in Nat
  BY DEF Texts
<1>2. a \in Seq(Char) /\ Len(a) = n /\ a[n] = Slash /\ \A i \in 1 .. Len(s) : a[i] = s[i]
  BY <1>1, Letters
<1>3. n \in Nat /\ n <= Len(name) /\ \A i \in 1 .. n : name[i] = a[i]
  <2>1. \A i \in 1 .. n : i \in 1 .. Len(s) \/ i = n
    BY <1>1
  <2> QED BY <1>1, <1>2, <2>1 DEF Under
<1> HIDE DEF a, n
<1>4. \A i \in (n + 1) .. Len(name) : name[i] \in Char
  BY <1>1, <1>3
<1>5. /\ t \in Seq(Char) /\ Len(t) = Len(name) - n
      /\ \A i \in 1 .. Len(name) - n : t[i] = name[n + i]
  <2>1. n + 1 \in Int /\ Len(name) \in Int /\ (n + 1 <= Len(name) \/ Len(name) = n)
    BY <1>1, <1>3
  <2>2. /\ t \in Seq(Char) /\ Len(t) = IF n + 1 <= Len(name) THEN Len(name) - (n + 1) + 1 ELSE 0
        /\ \A i \in 1 .. Len(name) - (n + 1) + 1 : t[i] = name[(n + 1) + i - 1]
    BY <1>4, <2>1, SubSeqProperties
  <2> HIDE DEF t
  <2>3. Len(t) = Len(name) - n
    BY <1>1, <1>3, <2>1, <2>2
  <2>4. ASSUME NEW i \in 1 .. Len(name) - n PROVE t[i] = name[n + i]
    <3>1. i \in 1 .. Len(name) - (n + 1) + 1 /\ (n + 1) + i - 1 = n + i
      BY <1>1, <1>3
    <3> QED BY <2>2, <3>1
  <2> QED BY <2>2, <2>3, <2>4
<1> HIDE DEF t
<1> DEFINE whole == a \o t
<1>6. whole \in Seq(Char) /\ Len(whole) = Len(name)
      /\ \A i \in 1 .. Len(name) : whole[i] = IF i <= n THEN a[i] ELSE t[i - n]
  <2>1. /\ whole \in Seq(Char) /\ Len(whole) = Len(a) + Len(t)
        /\ \A i \in 1 .. Len(a) + Len(t) : whole[i] = IF i <= Len(a) THEN a[i] ELSE t[i - Len(a)]
    BY <1>2, <1>5, ConcatProperties
  <2>2. Len(a) + Len(t) = Len(name)
    BY <1>1, <1>2, <1>3, <1>5
  <2> QED BY <1>2, <2>1, <2>2
<1> HIDE DEF whole
<1>7. ASSUME NEW i \in 1 .. Len(name) PROVE whole[i] = name[i]
  <2>1. CASE i <= n
    BY <1>3, <1>6, <2>1
  <2>2. CASE ~(i <= n)
    <3>1. i - n \in 1 .. Len(name) - n /\ n + (i - n) = i
      BY <1>1, <1>3, <2>2
    <3> QED BY <1>5, <1>6, <2>2, <3>1
  <2> QED BY <2>1, <2>2
<1>8. whole = name
  BY <1>1, <1>6, <1>7, SeqEqual
<1> QED BY <1>5, <1>8 DEF whole, a, Texts

(* The least of some numbers.                                               *)
LEMMA LeastIs ==
  ASSUME NEW S \in SUBSET Nat, S # {}
  PROVE  Least(S) \in S /\ \A i \in S : Least(S) <= i
<1>1. PICK m \in S : \A n \in S : ~(<<n, m>> \in OpToRel(<, Nat))
  BY NatLessThanWellFounded, WFMin
<1>2. ASSUME NEW n \in S PROVE m <= n
  <2>1. m \in Nat /\ n \in Nat
    OBVIOUS
  <2>2. ~(n < m)
    BY <1>1, <2>1, Zenon DEF OpToRel
  <2> QED BY <2>1, <2>2
<1> QED BY <1>2 DEF Least

(* What is left of a path behind its first characters.                      *)
LEMMA FromIs ==
  ASSUME NEW p \in Texts
  PROVE  /\ From(p, 1) = p /\ From(p, Len(p) + 1) = <<>>
         /\ \A k \in 1 .. Len(p) + 1 : From(p, k) \in Texts
         /\ \A k \in 1 .. Len(p) : From(p, k) = <<p[k]>> \o From(p, k + 1)
<1>1. p \in Seq(Char) /\ Len(p) \in Nat
  BY DEF Texts
<1>2. From(p, 1) = p
  BY <1>1, SubSeqFull DEF From
<1>3. From(p, Len(p) + 1) = <<>>
  <2>1. Len(p) + 1 \in Int /\ Len(p) \in Int /\ Len(p) < Len(p) + 1
    BY <1>1
  <2> QED BY <2>1, SubSeqEmpty DEF From
<1>4. ASSUME NEW k \in 1 .. Len(p) + 1 PROVE From(p, k) \in Texts
  <2>1. k \in Int /\ Len(p) \in Int /\ \A i \in k .. Len(p) : p[i] \in Char
    BY <1>1
  <2> QED BY <2>1, SubSeqProperties DEF From, Texts
<1>5. ASSUME NEW k \in 1 .. Len(p) PROVE From(p, k) = <<p[k]>> \o From(p, k + 1)
  <2>1. Len(p) \in k .. Len(p)
    BY <1>1
  <2> QED BY <1>1, <2>1, SubSeqRecursiveFirst DEF From
<1> QED BY <1>2, <1>3, <1>4, <1>5

(* The components of a path are those of its parts that are names.          *)
LEMMA ComponentsIs ==
  ASSUME NEW p \in Texts
  PROVE  /\ Split(p) \in Seq(Texts) /\ Len(Split(p)) \in Nat \ {0}
         /\ Components(p) = Kept(Split(p)) /\ Components(p) \in Seq(Texts)
<1>1. Split(p) \in Seq(Texts) /\ Len(Split(p)) \in Nat \ {0}
  BY SplitAppend DEF Parts
<1>2. Components(p) = Kept(Split(p))
  BY DEF Components, Kept
<1> QED BY <1>1, <1>2, KeptAppend

(* A leading slash is an empty component.                                   *)
LEMMA SlashFirst ==
  ASSUME NEW t \in Texts
  PROVE  /\ Split(<<Slash>> \o t) = << <<>> >> \o Split(t)
         /\ Components(<<Slash>> \o t) = Components(t)
         /\ <<Slash>> \o t \in Texts
<1>1. t \in Seq(Char) /\ <<Slash>> \in Seq(Char) /\ <<>> \in Texts /\ Slash \in Char
  BY Letters DEF Texts
<1>2. <<Slash>> \o t \in Texts
  BY <1>1 DEF Texts
<1>3. Append(<<>>, Slash) = <<Slash>>
  OBVIOUS
<1>4. Split(<<Slash>> \o t) = Split(<<>>) \o Split(t)
  BY <1>1, <1>3, SplitConcat
<1>5. Split(<<Slash>> \o t) = << <<>> >> \o Split(t)
  BY <1>4, SplitAppend
<1>6. ~IsName(<<>>)
  BY DEF IsName
<1>7. Kept(<< <<>> >> \o Split(t)) = Kept(Split(t))
  BY <1>1, <1>6, ComponentsIs, KeptBehind
<1> QED BY <1>2, <1>5, <1>7, ComponentsIs

(* A leading dot and slash are a component that is a dot.                   *)
LEMMA DotFirst ==
  ASSUME NEW t \in Texts
  PROVE  /\ Split(<<Dot>> \o (<<Slash>> \o t)) = << <<Dot>> >> \o Split(t)
         /\ Components(<<Dot>> \o (<<Slash>> \o t)) = Components(t)
<1>1. /\ t \in Seq(Char) /\ <<Slash>> \in Seq(Char) /\ <<Dot>> \in Seq(Char) /\ <<>> \in Texts
      /\ <<Dot>> \in Texts /\ Dot \in Char /\ Dot # Slash
  BY Letters DEF Texts
<1>2. Append(<<Dot>>, Slash) = <<Dot>> \o <<Slash>> /\ Append(<<>>, Dot) = <<Dot>>
  <2>1. Slash \in Char
    BY Letters
  <2>2. Append(<<Dot>>, Slash) = <<Dot>> \o <<Slash>>
    BY <1>1, <2>1, AppendIsConcat
  <2>3. Append(<<>>, Dot) = <<Dot>>
    OBVIOUS
  <2> QED BY <2>2, <2>3
<1>3. <<Dot>> \o (<<Slash>> \o t) = Append(<<Dot>>, Slash) \o t
  BY <1>1, <1>2, ConcatAssociative
<1>4. <<Dot>> \o (<<Slash>> \o t) \in Texts
  BY <1>1 DEF Texts
<1>5. Split(<<Dot>>) = << <<Dot>> >>
  <2> DEFINE one == << <<>> >>
  <2>1. Split(Append(<<>>, Dot)) = split_at(one, Dot)
    BY <1>1, SplitAppend
  <2>2. split_at(one, Dot) = [one EXCEPT ![1] = Append(<<>>, Dot)]
    <3>1. Len(one) = 1 /\ one[1] = <<>>
      OBVIOUS
    <3> QED BY <1>1, <3>1 DEF split_at
  <2>3. [one EXCEPT ![1] = Append(<<>>, Dot)] = << <<Dot>> >>
    BY <1>2
  <2> QED BY <1>2, <2>1, <2>2, <2>3
<1>6. Split(<<Dot>> \o (<<Slash>> \o t)) = << <<Dot>> >> \o Split(t)
  BY <1>1, <1>3, <1>5, SplitConcat
<1>7. ~IsName(<<Dot>>)
  BY DEF IsName
<1>8. Kept(<< <<Dot>> >> \o Split(t)) = Kept(Split(t))
  BY <1>1, <1>7, ComponentsIs, KeptBehind
<1> QED BY <1>4, <1>6, <1>8, ComponentsIs

(* Leading slashes say nothing.                                             *)
LEMMA SlashesDropped ==
  ASSUME NEW p \in Texts
  PROVE  after_slashes(p) \in Texts /\ Components(after_slashes(p)) = Components(p)
<1> DEFINE ends == {i \in 1 .. (Len(p) + 1) : i = Len(p) + 1 \/ p[i] # Slash}
           k == Least(ends)
           K == {n \in Nat : n + 1 <= k => Components(From(p, n + 1)) = Components(p)}
<1>1. Len(p) \in Nat
  BY DEF Texts
<1>2. k \in 1 .. Len(p) + 1 /\ \A i \in 1 .. Len(p) + 1 : i < k => i \notin ends
  <2>1. ends \in SUBSET Nat /\ Len(p) + 1 \in ends
    BY <1>1
  <2> HIDE DEF ends
  <2>2. k \in ends /\ \A i \in ends : k <= i
    BY <2>1, LeastIs
  <2> HIDE DEF k
  <2>3. k \in 1 .. Len(p) + 1
    BY <2>2 DEF ends
  <2> QED BY <1>1, <2>2, <2>3
<1>3. after_slashes(p) = From(p, k)
  BY DEF after_slashes
<1>4. \A i \in 1 .. Len(p) : i < k => p[i] = Slash
  BY <1>1, <1>2
<1> HIDE DEF ends, k
<1>5. 0 \in K
  BY FromIs
<1>6. ASSUME NEW n \in K PROVE n + 1 \in K
  <2>1. n \in Nat /\ (n + 1 <= k => Components(From(p, n + 1)) = Components(p))
    OBVIOUS
  <2>2. SUFFICES ASSUME (n + 1) + 1 <= k
                 PROVE  Components(From(p, (n + 1) + 1)) = Components(p)
    BY <2>1
  <2>3. n + 1 \in 1 .. Len(p) /\ n + 1 < k /\ n + 1 <= k /\ (n + 1) + 1 \in 1 .. Len(p) + 1
    BY <1>1, <1>2, <2>1, <2>2
  <2>4. From(p, n + 1) = <<Slash>> \o From(p, (n + 1) + 1)
    BY <1>4, <2>3, FromIs
  <2>5. From(p, (n + 1) + 1) \in Texts
    BY <2>3, FromIs
  <2> QED BY <2>1, <2>3, <2>4, <2>5, SlashFirst
<1> HIDE DEF K
<1>7. K = Nat
  <2>1. K \in SUBSET Nat
    BY DEF K
  <2> QED BY <1>5, <1>6, <2>1, NumberInduction
<1>8. Components(From(p, k)) = Components(p)
  <2>1. k - 1 \in Nat /\ (k - 1) + 1 = k /\ k <= k
    BY <1>2
  <2>2. k - 1 \in K
    BY <1>7, <2>1
  <2> QED BY <2>1, <2>2 DEF K
<1> QED BY <1>2, <1>3, <1>8, FromIs

(* And neither do dots.                                                     *)
LEMMA DotsDropped ==
  ASSUME NEW p \in Texts
  PROVE  after_dots(p) \in Texts /\ Components(after_dots(p)) = Components(p)
<1> DEFINE ends == {n \in 0 .. Len(p) : ~another_dot(p, n)}
           k == Least(ends)
           K == {n \in Nat : n <= k => Components(From(p, 2 * n + 1)) = Components(p)}
<1>1. Len(p) \in Nat
  BY DEF Texts
<1>2. k \in 0 .. Len(p) /\ \A n \in 0 .. Len(p) : n < k => another_dot(p, n)
  <2>1. ends \in SUBSET Nat /\ Len(p) \in ends
    BY <1>1 DEF another_dot
  <2>2. k \in ends /\ \A i \in ends : k <= i
    BY <2>1, LeastIs
  <2>3. k \in 0 .. Len(p)
    BY <2>2
  <2> HIDE DEF k
  <2>4. ASSUME NEW n \in 0 .. Len(p), n < k PROVE another_dot(p, n)
    BY <2>2, <2>3, <2>4
  <2> QED BY <2>3, <2>4
<1>3. after_dots(p) = From(p, 2 * k + 1)
  BY DEF after_dots
<1> HIDE DEF ends, k
<1>4. ASSUME NEW n \in Nat, n < k
      PROVE  /\ 2 * n + 1 \in 1 .. Len(p) /\ 2 * n + 2 \in 1 .. Len(p)
             /\ p[2 * n + 1] = Dot /\ p[2 * n + 2] = Slash
  <2>1. n \in 0 .. Len(p)
    BY <1>1, <1>2, <1>4
  <2>2. another_dot(p, n)
    BY <1>2, <1>4, <2>1
  <2> QED BY <1>1, <2>2 DEF another_dot
<1>5. 0 \in K
  BY FromIs
<1>6. ASSUME NEW n \in K PROVE n + 1 \in K
  <2>1. n \in Nat /\ (n <= k => Components(From(p, 2 * n + 1)) = Components(p))
    OBVIOUS
  <2>2. SUFFICES ASSUME n + 1 <= k
                 PROVE  Components(From(p, 2 * (n + 1) + 1)) = Components(p)
    BY <2>1
  <2> DEFINE a == 2 * n + 1
  <2>3. n < k /\ n <= k /\ 2 * n + 2 = a + 1 /\ 2 * (n + 1) + 1 = (a + 1) + 1 /\ a \in Nat
    BY <1>2, <2>1, <2>2
  <2>4. a \in 1 .. Len(p) /\ a + 1 \in 1 .. Len(p) /\ p[a] = Dot /\ p[a + 1] = Slash
    BY <1>4, <2>1, <2>3
  <2> HIDE DEF a
  <2>5. From(p, a) = <<Dot>> \o (<<Slash>> \o From(p, (a + 1) + 1))
    <3>1. From(p, a) = <<Dot>> \o From(p, a + 1)
      BY <2>4, FromIs
    <3>2. From(p, a + 1) = <<Slash>> \o From(p, (a + 1) + 1)
      BY <2>4, FromIs
    <3> QED BY <3>1, <3>2, Zenon
  <2>6. From(p, (a + 1) + 1) \in Texts
    <3>1. (a + 1) + 1 \in 1 .. Len(p) + 1
      BY <1>1, <2>3, <2>4
    <3> QED BY <3>1, FromIs
  <2>7. Components(From(p, (a + 1) + 1)) = Components(From(p, a))
    BY <2>5, <2>6, DotFirst
  <2> QED BY <2>1, <2>3, <2>7 DEF a
<1> HIDE DEF K
<1>7. K = Nat
  <2>1. K \in SUBSET Nat
    BY DEF K
  <2> QED BY <1>5, <1>6, <2>1, NumberInduction
<1>8. Components(From(p, 2 * k + 1)) = Components(p)
  <2>1. k \in Nat /\ k <= k
    BY <1>2
  <2> QED BY <1>7, <2>1 DEF K
<1>9. 2 * k + 1 \in 1 .. Len(p) + 1
  <2>1. CASE k = 0
    BY <1>1, <2>1
  <2>2. CASE k # 0
    <3>1. k - 1 \in Nat /\ k - 1 < k /\ 2 * (k - 1) + 2 = 2 * k /\ k \in Nat
      BY <1>2, <2>2
    <3>2. 2 * k \in 1 .. Len(p)
      BY <1>4, <3>1
    <3> QED BY <1>1, <3>1, <3>2
  <2> QED BY <2>1, <2>2
<1> QED BY <1>3, <1>8, <1>9, FromIs

(* What is normalised has the same components.                              *)
LEMMA NormalizeMeans ==
  ASSUME NEW p \in Texts
  PROVE  normalize_path(p) \in Texts /\ Components(normalize_path(p)) = Components(p)
BY SlashesDropped, DotsDropped DEF normalize_path

(* Slashes are dropped only where there are some, and dots too.             *)
LEMMA SlashesStay ==
  ASSUME NEW t \in Texts, t # <<>> => t[1] # Slash
  PROVE  after_slashes(t) = t
<1> DEFINE ends == {i \in 1 .. (Len(t) + 1) : i = Len(t) + 1 \/ t[i] # Slash}
<1>1. Len(t) \in Nat /\ (t = <<>> <=> Len(t) = 0)
  BY DEF Texts
<1>2. ends \in SUBSET Nat /\ 1 \in ends
  BY <1>1
<1>3. \A i \in ends : i >= 1
  OBVIOUS
<1> HIDE DEF ends
<1>4. Least(ends) \in Nat /\ Least(ends) \in ends /\ Least(ends) <= 1
  BY <1>2, LeastIs
<1>5. Least(ends) = 1
  BY <1>3, <1>4
<1>6. after_slashes(t) = From(t, 1)
  BY <1>5 DEF after_slashes, ends
<1> QED BY <1>6, FromIs

(* And dots.                                                                *)
LEMMA DotsStay ==
  ASSUME NEW t \in Texts, ~another_dot(t, 0)
  PROVE  after_dots(t) = t
<1> DEFINE ends == {n \in 0 .. Len(t) : ~another_dot(t, n)}
<1>1. Len(t) \in Nat
  BY DEF Texts
<1>2. ends \in SUBSET Nat /\ 0 \in ends
  BY <1>1
<1> DEFINE k == Least(ends)
<1> HIDE DEF ends
<1>3. k \in Nat /\ k <= 0
  BY <1>2, LeastIs
<1>4. k = 0
  BY <1>3
<1>5. after_dots(t) = From(t, 2 * k + 1)
  BY DEF after_dots, ends, k
<1>6. 2 * k + 1 = 1
  BY <1>4
<1> QED BY <1>5, <1>6, FromIs

(* A path of names only begins with none of them.                           *)
LEMMA NamesBegin ==
  ASSUME NEW t \in Texts, AllNames(Split(t))
  PROVE  t # <<>> /\ t[1] # Slash /\ ~another_dot(t, 0)
<1>1. Len(t) \in Nat /\ (t # <<>> => 1 \in 1 .. Len(t))
  BY DEF Texts
<1>2. IsName(Split(t)[1])
  <2>1. 1 \in 1 .. Len(Split(t))
    BY ComponentsIs
  <2> QED BY <2>1 DEF AllNames
<1>3. t # <<>>
  <2>1. SUFFICES ASSUME t = <<>> PROVE FALSE
    OBVIOUS
  <2>2. Split(t)[1] = <<>>
    BY <2>1, SplitAppend
  <2> QED BY <1>2, <2>2 DEF IsName
<1>4. t[1] # Slash
  <2>1. SUFFICES ASSUME t[1] = Slash PROVE FALSE
    OBVIOUS
  <2>2. t = <<Slash>> \o From(t, 2) /\ From(t, 2) \in Texts
    <3>1. 1 + 1 = 2 /\ 2 \in 1 .. Len(t) + 1 /\ 1 \in 1 .. Len(t)
      BY <1>1, <1>3
    <3>2. From(t, 1) = <<t[1]>> \o From(t, 1 + 1)
      BY <3>1, FromIs
    <3> QED BY <2>1, <3>1, <3>2, FromIs
  <2>3. Split(t) = << <<>> >> \o Split(From(t, 2))
    BY <2>2, SlashFirst, Zenon
  <2>4. Split(From(t, 2)) \in Seq(Texts)
    BY <2>2, ComponentsIs
  <2>5. Split(t)[1] = <<>>
    BY <2>3, <2>4
  <2> QED BY <1>2, <2>5 DEF IsName
<1>5. ~another_dot(t, 0)
  <2>1. SUFFICES ASSUME another_dot(t, 0) PROVE FALSE
    OBVIOUS
  <2>2. 2 \in 1 .. Len(t) /\ 3 \in 1 .. Len(t) + 1 /\ t[1] = Dot /\ t[2] = Slash
    BY <1>1, <2>1 DEF another_dot
  <2>3. t = <<Dot>> \o (<<Slash>> \o From(t, 3)) /\ From(t, 3) \in Texts
    <3>1. 1 + 1 = 2 /\ 2 + 1 = 3 /\ 1 \in 1 .. Len(t)
      BY <1>1, <1>3
    <3>2. From(t, 1) = <<Dot>> \o From(t, 2)
      BY <2>2, <3>1, FromIs
    <3>3. From(t, 2) = <<Slash>> \o From(t, 3)
      BY <2>2, <3>1, FromIs
    <3>4. From(t, 1) = t /\ From(t, 3) \in Texts
      BY <2>2, FromIs
    <3> QED BY <3>2, <3>3, <3>4, Zenon
  <2>4. Split(t) = << <<Dot>> >> \o Split(From(t, 3))
    BY <2>3, DotFirst, Zenon
  <2>5. Split(From(t, 3)) \in Seq(Texts)
    BY <2>3, ComponentsIs
  <2>6. Split(t)[1] = <<Dot>>
    BY <2>4, <2>5
  <2> QED BY <1>2, <2>6 DEF IsName
<1> QED BY <1>3, <1>4, <1>5

(* A path of names only is normalised already.                              *)
LEMMA NamesStay ==
  ASSUME NEW t \in Texts, AllNames(Split(t))
  PROVE  normalize_path(t) = t /\ after_dots(t) = t /\ Components(t) = Split(t)
<1>1. t # <<>> /\ t[1] # Slash /\ ~another_dot(t, 0)
  BY NamesBegin
<1>2. after_slashes(t) = t /\ after_dots(t) = t
  BY <1>1, SlashesStay, DotsStay
<1>3. Components(t) = Split(t)
  BY ComponentsIs, KeptAll
<1> QED BY <1>2, <1>3 DEF normalize_path

(* One leading slash.                                                       *)
LEMMA SlashGoes ==
  ASSUME NEW t \in Texts, t # <<>> => t[1] # Slash
  PROVE  after_slashes(<<Slash>> \o t) = t
<1> DEFINE p == <<Slash>> \o t
           ends == {i \in 1 .. (Len(p) + 1) : i = Len(p) + 1 \/ p[i] # Slash}
<1>1. t \in Seq(Char) /\ Len(t) \in Nat /\ (t = <<>> <=> Len(t) = 0) /\ <<Slash>> \in Seq(Char)
  BY Letters DEF Texts
<1>2. Len(p) = Len(t) + 1 /\ p[1] = Slash /\ (t # <<>> => p[2] = t[1]) /\ p \in Seq(Char)
  <2>1. /\ p \in Seq(Char) /\ Len(p) = Len(<<Slash>>) + Len(t)
        /\ \A i \in 1 .. Len(<<Slash>>) + Len(t) :
             p[i] = IF i <= Len(<<Slash>>) THEN <<Slash>>[i] ELSE t[i - Len(<<Slash>>)]
    BY <1>1, ConcatProperties
  <2>2. Len(<<Slash>>) = 1 /\ <<Slash>>[1] = Slash
    OBVIOUS
  <2> HIDE DEF p
  <2>3. 1 \in 1 .. 1 + Len(t) /\ (t # <<>> => 2 \in 1 .. 1 + Len(t) /\ 2 - 1 = 1 /\ ~(2 <= 1))
    BY <1>1
  <2> QED BY <1>1, <2>1, <2>2, <2>3
<1> HIDE DEF p
<1>3. ends \in SUBSET Nat /\ 2 \in ends /\ 1 \notin ends
  BY <1>1, <1>2
<1>4. \A i \in ends : i \in Nat /\ i >= 1 /\ i # 1
  BY <1>3
<1> HIDE DEF ends
<1>5. Least(ends) \in ends /\ Least(ends) <= 2
  BY <1>3, LeastIs
<1>6. Least(ends) = 2
  BY <1>4, <1>5
<1>7. after_slashes(p) = From(p, 2)
  BY <1>6 DEF after_slashes, ends
<1>8. From(p, 2) = t
  <2>1. p \in Texts /\ 1 + 1 = 2 /\ 1 \in 1 .. Len(p) /\ 2 \in 1 .. Len(p) + 1
    BY <1>1, <1>2 DEF Texts
  <2>2. From(p, 1) = <<p[1]>> \o From(p, 1 + 1) /\ From(p, 1) = p
    BY <2>1, FromIs
  <2>3. <<Slash>> \o t = <<Slash>> \o From(p, 2)
    BY <1>2, <2>1, <2>2 DEF p
  <2>4. From(p, 2) \in Seq(Char)
    BY <2>1, FromIs DEF Texts
  <2>5. t \in Seq(Char) /\ <<Slash>> \in Seq(Char)
    BY <1>1
  <2>6. t = From(p, 2)
    BY <2>3, <2>4, <2>5, SameTails
  <2> QED BY <2>6
<1> QED BY <1>7, <1>8 DEF p

(* The root has no components.                                              *)
LEMMA RootIs ==
  /\ <<>> \in Texts /\ <<Slash>> \in Texts
  /\ normalize_path(<<Slash>>) = <<>> /\ normalize_path(<<>>) = <<>>
  /\ Components(<<Slash>>) = <<>> /\ Components(<<>>) = <<>>
<1>1. <<>> \in Texts /\ <<Slash>> \in Texts /\ <<Slash>> \o <<>> = <<Slash>>
  BY Letters DEF Texts
<1>2. after_slashes(<<Slash>>) = <<>> /\ after_slashes(<<>>) = <<>>
  BY <1>1, SlashGoes, SlashesStay
<1>3. after_dots(<<>>) = <<>>
  <2>1. ~another_dot(<<>>, 0)
    BY DEF another_dot
  <2> QED BY <1>1, <2>1, DotsStay
<1>4. Components(<<>>) = <<>>
  <2>1. Kept(<< <<>> >> \o <<>>) = Kept(<<>>) /\ << <<>> >> \o <<>> = << <<>> >>
    <3>1. ~IsName(<<>>) /\ <<>> \in Seq(Texts) /\ << <<>> >> \in Seq(Texts)
      BY <1>1 DEF IsName
    <3>2. << <<>> >> \o <<>> = << <<>> >>
      BY <3>1, ConcatEmptySeq
    <3>3. Kept(<< <<>> >> \o <<>>) = Kept(<<>>)
      BY <1>1, <3>1, KeptBehind
    <3> QED BY <3>2, <3>3
  <2> QED BY <1>1, <2>1, ComponentsIs, SplitAppend, KeptAppend
<1>5. Components(<<Slash>>) = <<>>
  BY <1>1, <1>4, SlashFirst
<1> QED BY <1>1, <1>2, <1>3, <1>4, <1>5 DEF normalize_path

(* What a canonical path is normalised to.                                  *)
LEMMA CanonicalIs ==
  ASSUME NEW p \in Texts, Canonical(p), p # <<Slash>>
  PROVE  LET t == normalize_path(p)
         IN  t \in Texts /\ AllNames(Split(t)) /\ Components(p) = Split(t)
<1>1. /\ p # <<>> /\ Len(p) \in Nat /\ Len(p) # 0
      /\ Len(Split(p)) - Len(Components(p)) = (IF p[1] = Slash THEN 1 ELSE 0)
  BY DEF Canonical, Texts
<1>2. CASE p[1] # Slash
  <2>1. Len(Kept(Split(p))) = Len(Split(p))
    <3>1. Len(Split(p)) \in Nat /\ Len(Components(p)) \in Nat /\ Components(p) = Kept(Split(p))
      BY ComponentsIs
    <3> QED BY <1>1, <1>2, <3>1
  <2>2. AllNames(Split(p))
    BY <2>1, ComponentsIs, KeptAll
  <2> QED BY <2>2, NamesStay
<1>3. CASE p[1] = Slash
  <2> DEFINE t == From(p, 2)
  <2>1. p = <<Slash>> \o t /\ t \in Texts
    <3>1. 1 + 1 = 2 /\ 2 \in 1 .. Len(p) + 1 /\ 1 \in 1 .. Len(p)
      BY <1>1
    <3>2. From(p, 1) = <<p[1]>> \o From(p, 1 + 1)
      BY <3>1, FromIs
    <3> QED BY <1>3, <3>1, <3>2, FromIs
  <2> HIDE DEF t
  <2>2. Split(p) = << <<>> >> \o Split(t) /\ Components(p) = Components(t)
    BY <2>1, SlashFirst, Zenon
  <2>3. /\ Split(t) \in Seq(Texts) /\ Len(Split(t)) \in Nat
        /\ Components(t) = Kept(Split(t)) /\ Components(t) \in Seq(Texts)
    BY <2>1, ComponentsIs
  <2>4. Len(Split(p)) = Len(Split(t)) + 1
    BY <2>2, <2>3
  <2>5. Len(Kept(Split(t))) = Len(Split(t))
    <3>1. Len(Components(t)) \in Nat
      BY <2>3
    <3> QED BY <1>1, <1>3, <2>2, <2>3, <2>4, <3>1
  <2>6. AllNames(Split(t))
    BY <2>3, <2>5, KeptAll
  <2>7. t[1] # Slash /\ after_dots(t) = t /\ Components(t) = Split(t)
    BY <2>1, <2>6, NamesBegin, NamesStay
  <2>8. after_slashes(p) = t
    BY <2>1, <2>7, SlashGoes
  <2>9. normalize_path(p) = t
    BY <2>7, <2>8 DEF normalize_path
  <2> QED BY <2>1, <2>2, <2>6, <2>7, <2>9
<1> QED BY <1>2, <1>3

(* A canonical path is normalised once and for all.                         *)
LEMMA CanonicalTwice ==
  ASSUME NEW p \in Texts, Canonical(p)
  PROVE  normalize_path(normalize_path(p)) = normalize_path(p)
<1>1. CASE p = <<Slash>>
  BY <1>1, RootIs
<1>2. CASE p # <<Slash>>
  BY <1>2, CanonicalIs, NamesStay
<1> QED BY <1>1, <1>2

(* The names of the entries are made of names.                              *)
LEMMA EntryIs ==
  ASSUME NEW name \in Names
  PROVE  /\ name \in Texts /\ AllNames(Split(name))
         /\ EntryParts[name] = Split(name) /\ Components(name) = Split(name)
         /\ Archive[name] \in Nat
<1>1. name \in Texts
  <2>1. name \in Seq(STRING)
    BY ArchiveAssumption
  <2> QED BY <2>1 DEF Texts, Char
<1>2. AllNames(Split(name))
  <2>1. \A part \in ToSet(Split(name)) : IsName(part)
    BY PathAssumption
  <2>2. \A i \in 1 .. Len(Split(name)) : Split(name)[i] \in ToSet(Split(name))
    <3>1. Split(name) \in Seq(Texts)
      BY <1>1, ComponentsIs
    <3> QED BY <3>1 DEF ToSet
  <2> QED BY <2>1, <2>2 DEF AllNames
<1>3. Components(name) = Split(name)
  BY <1>1, <1>2, NamesStay
<1>4. Archive[name] \in Nat
  BY ArchiveAssumption
<1> QED BY <1>1, <1>2, <1>3, <1>4 DEF EntryParts

(* Heads is the strict prefix of the community modules.                     *)
LEMMA StrictIs ==
  ASSUME NEW p \in Seq(Texts), NEW q \in Seq(Texts)
  PROVE  Heads(p, q) <=> IsStrictPrefix(p, q)
<1> DEFINE a == SubSeq(p, 1, Len(p))
           b == SubSeq(q, 1, Len(p))
<1>1. Len(p) \in Nat /\ Len(q) \in Nat
  OBVIOUS
<1>2. a = p
  BY SubSeqFull
<1>3. Len(p) <= Len(q) =>
        b \in Seq(Texts) /\ Len(b) = Len(p) /\ \A i \in 1 .. Len(p) : b[i] = q[i]
  <2>1. SUFFICES ASSUME Len(p) <= Len(q)
                 PROVE  b \in Seq(Texts) /\ Len(b) = Len(p) /\ \A i \in 1 .. Len(p) : b[i] = q[i]
    OBVIOUS
  <2>2. 1 \in Int /\ Len(p) \in Int /\ \A i \in 1 .. Len(p) : q[i] \in Texts
    BY <1>1, <2>1
  <2>3. /\ b \in Seq(Texts) /\ Len(b) = IF 1 <= Len(p) THEN Len(p) - 1 + 1 ELSE 0
        /\ \A i \in 1 .. Len(p) - 1 + 1 : b[i] = q[1 + i - 1]
    BY <2>2, SubSeqProperties
  <2> HIDE DEF b
  <2>4. Len(b) = Len(p)
    BY <1>1, <2>3
  <2>5. ASSUME NEW i \in 1 .. Len(p) PROVE b[i] = q[i]
    <3>1. i \in 1 .. Len(p) - 1 + 1 /\ 1 + i - 1 = i
      BY <1>1
    <3> QED BY <2>3, <3>1
  <2> QED BY <2>3, <2>4, <2>5
<1>4. IsStrictPrefix(p, q) <=> Len(p) <= Len(q) /\ a = b /\ p # q
  BY DEF IsStrictPrefix, IsPrefix
<1> HIDE DEF a, b
<1>5. ASSUME Heads(p, q) PROVE IsStrictPrefix(p, q)
  <2>1. Len(p) < Len(q) /\ \A i \in 1 .. Len(p) : p[i] = q[i]
    BY <1>5 DEF Heads
  <2>2. Len(p) <= Len(q) /\ p # q
    BY <1>1, <2>1
  <2>3. p = b
    BY <1>3, <2>1, <2>2, SeqEqual
  <2> QED BY <1>2, <1>4, <2>2, <2>3
<1>6. ASSUME IsStrictPrefix(p, q) PROVE Heads(p, q)
  <2>1. Len(p) <= Len(q) /\ p = b /\ p # q
    BY <1>2, <1>4, <1>6
  <2>2. \A i \in 1 .. Len(p) : p[i] = q[i]
    BY <1>3, <2>1
  <2>3. Len(p) # Len(q)
    BY <2>1, <2>2, SeqEqual
  <2> QED BY <1>1, <2>1, <2>2, <2>3 DEF Heads
<1> QED BY <1>5, <1>6

(* is_archive_directory compares the first characters of the entries.       *)
LEMMA DirectoryIs ==
  ASSUME NEW d \in Texts
  PROVE  is_archive_directory(d) <=> d = <<>> \/ \E name \in Names : Under(d, name)
<1>1. ASSUME NEW name \in Names
      PROVE  /\ Len(d) < Len(name)
             /\ SubSeq(name, 1, Len(d)) = d /\ name[Len(d) + 1] = Slash
             <=> Under(d, name)
  <2>1. SUFFICES ASSUME Len(d) < Len(name)
                 PROVE  SubSeq(name, 1, Len(d)) = d <=> \A i \in 1 .. Len(d) : name[i] = d[i]
    BY DEF Under
  <2> DEFINE b == SubSeq(name, 1, Len(d))
  <2>2. d \in Seq(Char) /\ name \in Seq(Char) /\ Len(d) \in Nat /\ Len(name) \in Nat
    BY EntryIs DEF Texts
  <2>3. b \in Seq(Char) /\ Len(b) = Len(d) /\ \A i \in 1 .. Len(d) : b[i] = name[i]
    <3>1. 1 \in Int /\ Len(d) \in Int /\ \A i \in 1 .. Len(d) : name[i] \in Char
      BY <2>1, <2>2
    <3>2. /\ b \in Seq(Char) /\ Len(b) = IF 1 <= Len(d) THEN Len(d) - 1 + 1 ELSE 0
          /\ \A i \in 1 .. Len(d) - 1 + 1 : b[i] = name[1 + i - 1]
      BY <3>1, SubSeqProperties
    <3> HIDE DEF b
    <3>3. Len(b) = Len(d)
      BY <2>2, <3>2
    <3>4. ASSUME NEW i \in 1 .. Len(d) PROVE b[i] = name[i]
      <4>1. i \in 1 .. Len(d) - 1 + 1 /\ 1 + i - 1 = i
        BY <2>2
      <4> QED BY <3>2, <4>1
    <3> QED BY <3>2, <3>3, <3>4
  <2> HIDE DEF b
  <2>4. b = d <=> \A i \in 1 .. Len(d) : name[i] = d[i]
    BY <2>2, <2>3, SeqEqual
  <2> QED BY <2>4 DEF b
<1> QED BY <1>1 DEF is_archive_directory

(* What stat calls a directory is one.                                      *)
LEMMA DirectoryFound ==
  ASSUME NEW p \in Texts, is_archive_directory(normalize_path(p))
  PROVE  IsDirectory(Components(p))
<1> DEFINE d == normalize_path(p)
<1>1. d \in Texts /\ Components(d) = Components(p)
  BY NormalizeMeans
<1>2. d = <<>> \/ \E name \in Names : Under(d, name)
  BY <1>1, DirectoryIs
<1> HIDE DEF d
<1>3. CASE d = <<>>
  BY <1>1, <1>3, RootIs DEF IsDirectory
<1>4. ASSUME NEW name \in Names, Under(d, name) PROVE IsDirectory(Components(d))
  <2>1. name \in Texts /\ AllNames(Split(name)) /\ EntryParts[name] = Split(name)
    BY EntryIs
  <2>2. PICK t \in Texts : name = Append(d, Slash) \o t
    BY <1>1, <1>4, <2>1, UnderIs
  <2>3. Split(name) = Split(d) \o Split(t)
    BY <1>1, <2>2, SplitConcat
  <2>4. /\ Split(d) \in Seq(Texts) /\ Split(t) \in Seq(Texts) /\ Split(name) \in Seq(Texts)
        /\ Len(Split(t)) \in Nat \ {0}
    BY <1>1, <2>1, <2>2, ComponentsIs
  <2>5. Len(Split(d)) < Len(Split(name)) /\ \A i \in 1 .. Len(Split(d)) : Split(d)[i] = Split(name)[i]
    BY <2>3, <2>4
  <2>6. AllNames(Split(d))
    <3>1. ASSUME NEW i \in 1 .. Len(Split(d)) PROVE IsName(Split(d)[i])
      <4>1. i \in 1 .. Len(Split(name))
        BY <2>4, <2>5
      <4> QED BY <2>1, <2>5, <4>1 DEF AllNames
    <3> QED BY <3>1 DEF AllNames
  <2>7. Components(d) = Split(d)
    BY <1>1, <2>6, NamesStay
  <2>8. Heads(Split(d), Split(name))
    BY <2>5 DEF Heads
  <2>9. IsStrictPrefix(Components(d), EntryParts[name])
    BY <2>1, <2>4, <2>7, <2>8, StrictIs
  <2> QED BY <2>9 DEF IsDirectory
<1> QED BY <1>1, <1>2, <1>3, <1>4

(* Of a canonical path, no entry is missed.                                 *)
LEMMA EntryFound ==
  ASSUME NEW p \in Texts, Canonical(p), NEW name \in Names, Components(p) = EntryParts[name]
  PROVE  normalize_path(p) = name
<1>1. name \in Texts /\ EntryParts[name] = Split(name) /\ Split(name) # <<>>
  BY EntryIs, SplitAppend DEF Parts
<1>2. p # <<Slash>>
  BY <1>1, RootIs
<1>3. normalize_path(p) \in Texts /\ Components(p) = Split(normalize_path(p))
  BY <1>2, CanonicalIs
<1> QED BY <1>1, <1>3, SplitInjective

(* And no directory.                                                        *)
LEMMA DirectoryMissed ==
  ASSUME NEW p \in Texts, Canonical(p), IsDirectory(Components(p))
  PROVE  is_archive_directory(normalize_path(p))
<1> DEFINE d == normalize_path(p)
<1>1. CASE p = <<Slash>>
  BY <1>1, RootIs, DirectoryIs
<1>2. CASE p # <<Slash>>
  <2>1. d \in Texts /\ Components(p) = Split(d)
    BY <1>2, CanonicalIs
  <2> HIDE DEF d
  <2>2. Split(d) \in Seq(Texts) /\ Split(d) # <<>>
    BY <2>1, SplitAppend DEF Parts
  <2>3. PICK name \in Names : IsStrictPrefix(Split(d), EntryParts[name])
    BY <2>1, <2>2 DEF IsDirectory
  <2>4. name \in Texts /\ EntryParts[name] = Split(name)
    BY EntryIs
  <2>5. Split(name) \in Seq(Texts)
    BY <2>4, ComponentsIs
  <2>6. Heads(Split(d), Split(name))
    BY <2>2, <2>3, <2>4, <2>5, StrictIs
  <2>7. Under(d, name)
    BY <2>1, <2>4, <2>6, HeadsUnder
  <2>8. is_archive_directory(d)
    BY <2>1, <2>7, DirectoryIs
  <2> QED BY <2>8 DEF d
<1> QED BY <1>1, <1>2

(* An answer that is neither success nor absence.                           *)
OtherReply(err) == err # "" /\ err # "ENOENT"

(* Replies that PathsResolve says nothing about.                            *)
LEMMA NothingSaid ==
  ASSUME reply'.call \notin {"open", "fopen", "stat"} \/ OtherReply(reply'.err)
  PROVE  PathsResolve'
  BY DEF PathsResolve, OtherReply

(* What stat answers.                                                       *)
LEMMA StatResolves ==
  ASSUME NEW p \in Texts, stat(p)
  PROVE  PathsResolve'
<1> DEFINE d == normalize_path(p)
           parts == Components(p)
<1>1. d \in Texts /\ Components(d) = parts
  BY NormalizeMeans
<1>2. CASE d \in Names
  <2>1. reply' = [call |-> "stat", path |-> p, ret |-> 0, err |-> "", st |-> Regular(Archive[d])]
    BY <1>2 DEF stat, find_file, Describes, Replies
  <2>2. parts = EntryParts[d]
    BY <1>1, <1>2, EntryIs
  <2>3. Regular(Archive[d]) # Directory
    BY DEF Regular, Directory
  <2> HIDE DEF d
  <2> QED BY <1>2, <2>1, <2>2, <2>3 DEF PathsResolve
<1>3. CASE d \notin Names /\ is_archive_directory(d)
  <2>1. reply' = [call |-> "stat", path |-> p, ret |-> 0, err |-> "", st |-> Directory]
    BY <1>3 DEF stat, find_file, Describes, Replies
  <2>2. IsDirectory(parts)
    BY <1>3, DirectoryFound
  <2> QED BY <2>1, <2>2 DEF PathsResolve
<1>4. CASE d \notin Names /\ ~is_archive_directory(d)
  <2>1. reply' = [call |-> "stat", path |-> p, ret |-> -1, err |-> "ENOENT", st |-> NoStat]
    BY <1>4 DEF stat, find_file, Answers, Replies
  <2>2. Canonical(p) => \A name \in Names : parts # EntryParts[name]
    BY <1>4, EntryFound
  <2>3. Canonical(p) => ~IsDirectory(parts)
    BY <1>4, DirectoryMissed
  <2> QED BY <2>1, <2>2, <2>3 DEF PathsResolve
<1> QED BY <1>2, <1>3, <1>4

(* What open and fopen answer, the normalised path included.                *)
LEMMA OpenResolves ==
  ASSUME FilesInv, NEW call \in {"open", "fopen"}, NEW path \in Texts,
         NEW given \in {path, normalize_path(path)}, NEW writes,
         open_cpio(call, path, given, writes)
  PROVE  PathsResolve'
<1> DEFINE name == normalize_path(given)
           parts == Components(path)
<1>1. given \in Texts /\ name \in Texts /\ Components(name) = parts
  BY NormalizeMeans
<1>2. Canonical(path) => name = normalize_path(path)
  BY CanonicalTwice
<1>3. CASE \E err, p : Refused(call, p, err) /\ OtherReply(err)
  BY <1>3, NothingSaid DEF Refused, Answers, Replies
<1>4. CASE name \notin Names /\ Refused(call, path, "ENOENT")
  <2>1. reply' = [call |-> call, path |-> path, ret |-> -1, err |-> "ENOENT", st |-> NoStat]
    BY <1>4 DEF Refused, Answers, Replies
  <2>2. Canonical(path) => \A entry \in Names : parts # EntryParts[entry]
    BY <1>2, <1>4, EntryFound
  <2>3. call # "stat"
    OBVIOUS
  <2> QED BY <2>1, <2>2, <2>3 DEF PathsResolve
<1>5. ASSUME name \in Names, NEW f \in Fds, NEW b \in Blocks,
             open_with_memory(f, b, name), Answers(call, path, f, "")
      PROVE  PathsResolve'
  <2>1. reply' = [call |-> call, path |-> path, ret |-> f, err |-> "", st |-> NoStat]
    BY <1>5 DEF Answers, Replies
  <2>2. opened'[f] = name
    BY <1>5 DEF open_with_memory, open_at
  <2>3. parts = EntryParts[name] /\ call # "stat"
    BY <1>1, <1>5, EntryIs
  <2> QED BY <2>1, <2>2, <2>3 DEF PathsResolve
<1>6. ASSUME Answers(call, <<>>, -1, "ENOMEM") PROVE PathsResolve'
  BY <1>6, NothingSaid DEF Answers, Replies, OtherReply
<1> DEFINE Opened ==
      \E f \in free_descriptors :
        \/ open_without_memory(f) /\ Answers(call, <<>>, -1, "ENOMEM")
        \/ \E b \in free_blocks : open_with_memory(f, b, name) /\ Answers(call, path, f, "")
<1>7. \/ \E err, p : Refused(call, p, err) /\ OtherReply(err)
      \/ name \notin Names /\ Refused(call, path, "ENOENT")
      \/ name \in Names /\ Opened
  <2>1. CASE writes
    BY <2>1 DEF open_cpio, OtherReply
  <2>2. CASE ~writes /\ ~find_file(given)
    BY <2>2 DEF open_cpio, find_file
  <2>3. CASE free_descriptors = {} /\ ~writes /\ find_file(given)
    BY <2>3 DEF open_cpio, OtherReply
  <2>4. CASE ~writes /\ find_file(given) /\ free_descriptors # {}
    BY <2>4 DEF open_cpio, find_file
  <2> QED BY <2>1, <2>2, <2>3, <2>4
<1> HIDE DEF name
<1>8. CASE name \in Names /\ Opened
  <2>1. PICK f \in Fds :
          \/ Answers(call, <<>>, -1, "ENOMEM")
          \/ \E b \in Blocks : open_with_memory(f, b, name) /\ Answers(call, path, f, "")
    BY <1>8 DEF free_descriptors, free_blocks
  <2> QED BY <1>5, <1>6, <1>8, <2>1
<1> QED BY <1>3, <1>4, <1>7, <1>8

(* All paths given are sequences of characters.                             *)
LEMMA PathsAre ==
  /\ Script \in Texts
  /\ \A path \in Paths : path \in Texts
<1>1. \A path \in Paths \cup {Script} : path \in Seq(STRING)
  BY PathAssumption
<1> QED BY <1>1 DEF Texts, Char

(* No step makes an answer wrong.                                           *)
LEMMA ResolvesStep ==
  ASSUME IInv, PathsResolve, [Next]_vars
  PROVE  PathsResolve'
<1>1. FilesInv
  BY DEF IInv
<1>2. ASSUME UNCHANGED <<opened, reply>> PROVE PathsResolve'
  BY <1>2 DEF PathsResolve
<1>3. ASSUME NEW path \in Texts, NEW writes, open(path, writes) \/ fopen(path, writes)
      PROVE  PathsResolve'
  <2>1. PICK call \in {"open", "fopen"}, given \in {path, normalize_path(path)} :
          open_cpio(call, path, given, writes)
    BY <1>3 DEF open, fopen
  <2> QED BY <1>1, <2>1, OpenResolves
<1>4. ASSUME NEW f, fstat(f) PROVE PathsResolve'
  <2>1. CASE served(f)
    <3>1. Describes("fstat", <<>>, Regular(memory[fd_table[f].data].size))
      BY <1>4, <2>1 DEF fstat
    <3> QED BY <3>1, NothingSaid DEF Describes, Replies
  <2>2. CASE ~served(f)
    <3>1. Answers("fstat", <<>>, -1, "EBADF")
      BY <1>4, <2>2 DEF fstat
    <3> QED BY <3>1, NothingSaid DEF Answers, Replies
  <2> QED BY <2>1, <2>2
<1>5. ASSUME NEW f, NEW n, ReadBytes(f, n) PROVE PathsResolve'
  <2>1. reply'.call = "read"
    BY <1>5 DEF ReadBytes, Answers, Replies
  <2> QED BY <2>1, NothingSaid
<1>6. ASSUME ReadFails PROVE PathsResolve'
  <2>1. reply'.call = "read"
    BY <1>6 DEF ReadFails, Refused, Answers, Replies
  <2> QED BY <2>1, NothingSaid
<1>7. ASSUME NEW f, close(f) PROVE PathsResolve'
  <2>1. reply'.call = "close"
    BY <1>7 DEF close, Answers, Replies
  <2> QED BY <2>1, NothingSaid
<1>8. CASE read_script
  <2>1. CASE LoadOpen
    BY <1>3, <2>1, PathsAre DEF LoadOpen
  <2>2. CASE LoadFstat
    BY <1>4, <2>2 DEF LoadFstat
  <2>3. CASE LoadMalloc \/ LoadRead \/ LoadReadEnds \/ LoadTerminate \/ FreeScript
    BY <1>2, <2>3 DEF LoadMalloc, LoadRead, LoadReadEnds, LoadTerminate, FreeScript,
                      fs_vars, files
  <2>4. CASE LoadReadFails
    BY <1>6, <2>4 DEF LoadReadFails, ReadErrorLeadsTo
  <2>5. CASE LoadClose \/ LoadCloseFailed
    BY <1>7, <2>5 DEF LoadClose, LoadCloseFailed
  <2> QED BY <1>8, <2>1, <2>2, <2>3, <2>4, <2>5 DEF read_script
<1>9. CASE RubyCalls
  <2>1. CASE \E path \in Paths, writes \in BOOLEAN : open(path, writes) \/ fopen(path, writes)
    BY <1>3, <2>1, PathsAre
  <2>2. CASE \E path \in Paths : stat(path)
    BY <2>2, PathsAre, StatResolves
  <2>3. CASE \E f \in Fds \ left : fstat(f)
    BY <1>4, <2>3
  <2>4. CASE \E f \in DOMAIN opened : (\E n \in Available(f, 1) : ReadBytes(f, n)) \/ close(f)
    BY <1>5, <1>7, <2>4
  <2> QED BY <1>9, <2>1, <2>2, <2>3, <2>4 DEF RubyCalls, FsCalls
<1>10. CASE Boot \/ ScriptEnds \/ UNCHANGED vars
  BY <1>2, <1>10 DEF Boot, ScriptEnds, vars, fs_vars, files
<1> QED BY <1>8, <1>9, <1>10 DEF Next

(* The archive is a tree (PathsResolve): for every archive whose names are  *)
(* as make-archive.sh writes them, every path given and every state, a path *)
(* that open, fopen or stat finds is what its components name, and of a     *)
(* canonical path nothing that is there is missed                           *)
(* (ruby_syscall_fs.c:106-135).                                             *)
THEOREM TreeOfTheArchive == Spec => []PathsResolve
<1>1. Init => IInv /\ PathsResolve
  <2>1. Init => PathsResolve
    <3>1. SUFFICES ASSUME Init PROVE PathsResolve
      OBVIOUS
    <3>2. \E path, ret, err, st :
            reply = [call |-> "none", path |-> path, ret |-> ret, err |-> err, st |-> st]
      BY <3>1 DEF Init, FsInit
    <3>3. reply.call = "none"
      BY <3>2
    <3>4. reply.call \notin {"open", "fopen", "stat"}
      BY <3>3
    <3> QED BY <3>4, Zenon DEF PathsResolve
  <2> QED BY <2>1, InitIInv
<1>2. IInv /\ PathsResolve /\ [Next]_vars => (IInv /\ PathsResolve)'
  BY NextIInv, ResolvesStep
<1> QED BY <1>1, <1>2, PTL DEF Spec
=============================================================================
