---------------------------- MODULE ScriptLoader -----------------------------
(***************************************************************************)
(* ruby.c: run boots Ruby, reads the script with read_script, evaluates it  *)
(* and finalises.  Ruby uses the file system while it boots and while it    *)
(* runs the script; one step here is one call of the loader or of Ruby.     *)
(***************************************************************************)
EXTENDS CpioFs, SequencesExt

CONSTANT Script        \* the path given to read_script

VARIABLES
  pc,                  \* the call that run is about to make
  fd, buffer, buffer_size, used,    \* locals of read_script
  ruby_fds             \* history: descriptors that Ruby itself holds

locals == <<fd, buffer, buffer_size, used>>
vars   == <<fs_vars, pc, locals, ruby_fds>>

(* Where the loader holds a descriptor, and where it is at work at all.     *)
Holding == {"fstat", "malloc", "read", "close", "close_failed"}
Loading == Holding \cup {"open", "terminate", "free"}

Text(bytes, n) == [kind |-> "text", bytes |-> bytes, size |-> n]

-----------------------------------------------------------------------------
(* read_script.                                                             *)

LoadOpen ==
  /\ pc = "open"
  /\ open(Script, FALSE)
  /\ fd' = reply'.ret
  /\ pc' = IF reply'.ret = -1 THEN "over" ELSE "fstat"
  /\ UNCHANGED <<buffer, buffer_size, used, ruby_fds>>

(* Mutant: no room for the terminator.                                      *)
buffer_bytes_exact(size) == size

buffer_bytes(size) == size + 1

LoadFstat ==
  /\ pc = "fstat"
  /\ fstat(fd)
  /\ IF reply'.err # "" THEN pc' = "close_failed" /\ UNCHANGED locals
     ELSE /\ buffer_size' = buffer_bytes(reply'.st.size)
          /\ pc' = "malloc"
          /\ UNCHANGED <<fd, buffer, used>>
  /\ UNCHANGED ruby_fds

LoadMalloc ==
  /\ pc = "malloc"
  /\ \/ pc' = "close_failed" /\ UNCHANGED <<memory, locals>>
     \/ \E b \in free_blocks :
          /\ memory' = [memory EXCEPT ![b] = Text(<<>>, buffer_size)]
          /\ buffer' = b
          /\ used' = 0
          /\ pc' = "read"
          /\ UNCHANGED <<fd, buffer_size>>
  /\ UNCHANGED <<fd_table, free_fds, opened, left, reply, ruby_fds>>

(* The next n bytes of the file behind fd, put behind the used ones.        *)
Filled(n) ==
  LET state == memory[fd_table[fd].data] IN
  [memory EXCEPT
     ![fd_table[fd].data].current = @ + n,
     ![buffer].bytes = SubSeq(@, 1, used) \o [i \in 1 .. n |-> state.current + i]]

(* The body of the loop, and the step behind it.                            *)
LoadRead ==
  /\ pc = "read" /\ used + 1 < buffer_size
  /\ \E n \in Available(fd, buffer_size - used - 1) :
       /\ memory' = Filled(n)
       /\ used' = used + n
       /\ pc' = IF n = 0 THEN "close" ELSE "read"
  /\ UNCHANGED <<fd_table, free_fds, opened, left, reply, fd, buffer, buffer_size, ruby_fds>>

LoadReadEnds ==
  /\ pc = "read" /\ used + 1 >= buffer_size
  /\ pc' = "close"
  /\ UNCHANGED <<fs_vars, locals, ruby_fds>>

(* Mutant: after an error the file is read again from its start.            *)
LoadReadRestarts ==
  /\ pc = "read" /\ used + 1 < buffer_size
  /\ memory' = [memory EXCEPT ![fd_table[fd].data].current = 0]
  /\ used' = 0
  /\ UNCHANGED <<fd_table, free_fds, opened, left, reply, pc, fd, buffer, buffer_size,
                 ruby_fds>>

ReadErrorLeadsTo(next) ==
  /\ pc = "read" /\ used + 1 < buffer_size
  /\ ReadFails
  /\ pc' = next
  /\ UNCHANGED <<locals, ruby_fds>>

(* Mutant: an error returns without closing.                                *)
LoadReadAbandons == ReadErrorLeadsTo("free")

LoadReadFails == ReadErrorLeadsTo("close_failed")

LoadClose ==
  /\ pc = "close"
  /\ close(fd)
  /\ pc' = "terminate"
  /\ UNCHANGED <<locals, ruby_fds>>

LoadTerminate ==
  /\ pc = "terminate"
  /\ memory' = [memory EXCEPT ![buffer].bytes = SubSeq(@, 1, used) \o <<0>>]
  /\ pc' = "run"
  /\ UNCHANGED <<fd_table, free_fds, opened, left, reply, locals, ruby_fds>>

LoadCloseFailed ==
  /\ pc = "close_failed"
  /\ close(fd)
  /\ pc' = IF buffer = NULL THEN "over" ELSE "free"
  /\ UNCHANGED <<locals, ruby_fds>>

(* After a failure, and after the script has run.                           *)
FreeScript ==
  /\ pc = "free"
  /\ memory' = [memory EXCEPT ![buffer] = Free]
  /\ buffer' = NULL
  /\ pc' = "over"
  /\ UNCHANGED <<fd_table, free_fds, opened, left, reply, fd, buffer_size, used, ruby_fds>>

read_script ==
  \/ LoadOpen \/ LoadFstat \/ LoadMalloc
  \/ LoadRead \/ LoadReadEnds \/ LoadReadFails
  \/ LoadClose \/ LoadTerminate \/ LoadCloseFailed \/ FreeScript

-----------------------------------------------------------------------------
(* run, and Ruby.                                                           *)

Boot ==
  /\ pc = "boot"
  /\ pc' = "open"
  /\ UNCHANGED <<fs_vars, locals, ruby_fds>>

ScriptEnds ==
  /\ pc = "run"
  /\ pc' = "free"
  /\ UNCHANGED <<fs_vars, locals, ruby_fds>>

RubyCalls ==
  /\ pc \in {"boot", "run"}
  /\ FsCalls
  /\ ruby_fds' = DOMAIN opened'
  /\ UNCHANGED <<pc, locals>>

Init ==
  /\ FsInit
  /\ pc = "boot" /\ fd = -1 /\ buffer = NULL /\ buffer_size = 0 /\ used = 0
  /\ ruby_fds = {}

Next == Boot \/ ScriptEnds \/ RubyCalls \/ read_script

(* The thread runs while it is in the loader.  Neither the boot nor the     *)
(* script has to end.                                                       *)
Spec == Init /\ [][Next]_vars /\ WF_vars(read_script)

-----------------------------------------------------------------------------
(* Properties.                                                              *)

(* The variables keep their types; a descriptor is on the free list once or *)
(* not at all, and no position is behind the end of its file.               *)
TypeOK ==
  /\ fd_table \in [Fds -> [filetype : {"none", "cpio"}, data : Blocks \cup {NULL}]]
  /\ free_fds \in [Fds -> {0, 1}]
  /\ \A b \in Blocks :
       \/ memory[b] = Free
       \/ /\ memory[b].kind = "file" /\ memory[b].current \in 0 .. memory[b].size
       \/ /\ memory[b].kind = "text" /\ Len(memory[b].bytes) <= memory[b].size
  /\ DOMAIN opened \subseteq Fds /\ left \subseteq Fds /\ ruby_fds \subseteq Fds
  /\ pc \in Loading \cup {"boot", "run", "over"}
  /\ fd \in Fds \cup {-1} /\ buffer \in Blocks \cup {NULL}
  /\ buffer_size \in Nat /\ used \in Nat

(* Everything taken has exactly one owner.  A descriptor is on the free     *)
(* list or held by Ruby or by the loader, each open file has a block of its *)
(* own, the loader may have one more, and no other block is in use:         *)
(* whatever call fails, nothing is lost and nothing is given back twice     *)
(* (ruby.c:29-59, ruby_syscall_fs.c:182-193).                               *)
NothingLeaks ==
  /\ DOMAIN opened = ruby_fds \cup (IF pc \in Holding THEN {fd} ELSE {})
  /\ \A f \in Fds : free_fds[f] = IF f \in DOMAIN opened THEN 0 ELSE 1
  /\ Blocks \ free_blocks =
       {fd_table[f].data : f \in DOMAIN opened} \cup ({buffer} \ {NULL})
  /\ \A f, g \in DOMAIN opened : fd_table[f].data = fd_table[g].data => f = g
  /\ \A f \in DOMAIN opened : fd_table[f].data # buffer

(* fstat and mmap serve every open descriptor, and of the closed ones just  *)
(* those whose entry the library's close left in the table: an open that    *)
(* fails half way leaves nothing to be served, even on a descriptor whose   *)
(* last state was still there (ruby_syscall_fs.c:187-193, 311-319).         *)
ServedIsOpen == \A f \in Fds : served(f) <=> f \in DOMAIN opened \cup left

(* The entry that open(Script) looks for.                                   *)
script_file == normalize_path(normalize_path(Script))

(* The script that is run is the whole file with its terminator, however    *)
(* short the reads were, and stays so while Ruby opens other files          *)
(* (ruby.c:43-60, 114-117).                                                 *)
RunsWholeScript ==
  pc \in {"terminate", "run"} =>
    LET n     == Archive[script_file]
        whole == [i \in 1 .. n |-> i]
    IN memory[buffer] =
         Text(IF pc = "run" THEN Append(whole, 0) ELSE whole, n + 1)

(* How far each step of read_script is from its end.                        *)
Ahead == [open |-> 8, fstat |-> 7, malloc |-> 6, read |-> 5, close |-> 4,
          close_failed |-> 4, terminate |-> 3, free |-> 2, run |-> 0, over |-> 0]

(* read_script goes on, whatever fails: a step is its last of that kind, or *)
(* a read that brought something and left room for the terminator           *)
(* (ruby.c:43-60).                                                          *)
LoadIsShort ==
  [][(pc \in Loading) =>
       \/ Ahead[pc'] < Ahead[pc]
       \/ /\ pc = "read" /\ pc' = "read" /\ buffer_size' = buffer_size
          /\ used < used' /\ used' < buffer_size]_vars

(* read_script returns, after short reads and after errors                  *)
(* (ruby.c:43-56).                                                          *)
LoadEnds == pc \in Loading ~> pc \in {"run", "over"}

(* What a path means: its components, without empty ones and dots.          *)
split_at(parts, ch) ==
  IF ch = Slash THEN Append(parts, <<>>)
  ELSE [parts EXCEPT ![Len(parts)] = Append(@, ch)]

Split(path) == FoldLeft(split_at, << <<>> >>, path)

IsName(part) == part \notin {<<>>, <<Dot>>}

with_name(parts, part) == IF IsName(part) THEN Append(parts, part) ELSE parts

Components(path) == FoldLeft(with_name, <<>>, Split(path))

(* make-archive.sh:41-42 archives what find prints of regular files, without *)
(* the leading ./; such a name has no empty component and no dot.           *)
ASSUME PathAssumption ==
  /\ Paths \cup {Script} \subseteq Seq(STRING)
  /\ \A name \in Names : \A part \in ToSet(Split(name)) : IsName(part)

EntryParts == [name \in Names |-> Components(name)]

IsDirectory(parts) ==
  parts = <<>> \/ \E name \in Names : IsStrictPrefix(parts, EntryParts[name])

(* A path written the way rb_realpath_internal and require write them.      *)
Canonical(path) ==
  \/ path = <<Slash>>
  \/ /\ path # <<>>
     /\ Len(Split(path)) - Len(Components(path)) = (IF path[1] = Slash THEN 1 ELSE 0)

(* The archive is a tree, as far as open and stat say: a path that is found *)
(* is what its components name, and of a canonical path, every prefix of an *)
(* entry included ("rb_realpath_internal walks a path one component at a    *)
(* time and stats each prefix", ruby_syscall_fs.c:106-109), nothing that is *)
(* there is missed, by open, fopen or stat.                                 *)
PathsResolve ==
  reply.call \in {"open", "fopen", "stat"} =>
    LET parts == Components(reply.path) IN
    /\ reply.call = "stat" /\ reply.err = "" =>
         IF reply.st = Directory THEN IsDirectory(parts)
         ELSE \E name \in Names : /\ parts = EntryParts[name]
                                  /\ reply.st = Regular(Archive[name])
    /\ reply.call # "stat" /\ reply.err = "" =>
         parts = EntryParts[opened[reply.ret]]
    /\ reply.err = "ENOENT" /\ Canonical(reply.path) =>
         /\ \A name \in Names : parts # EntryParts[name]
         /\ reply.call = "stat" => ~IsDirectory(parts)

file_table ==
  [f \in DOMAIN opened |-> [name     |-> memory[fd_table[f].data].start,
                            position |-> memory[fd_table[f].data].current]]

Table == INSTANCE FileTable WITH table <- file_table

(* The library's table, its free list and the blocks behind it are a table  *)
(* of open files with a name and a position each.                           *)
IsFileTable == Table!Spec

(* "The archive root, reached as "/" or "."" (ruby_syscall_fs.c:126).       *)
DotIsRoot ==
  reply.call = "stat" /\ reply.path \in {<<Slash>>, <<Dot>>} => reply.err = ""
=============================================================================
