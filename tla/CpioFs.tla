------------------------------- MODULE CpioFs --------------------------------
(***************************************************************************)
(* ruby_syscall_fs.c: opening and describing the files of the embedded      *)
(* archive.  A path is a sequence of characters.  The archive maps the name *)
(* of an entry to the size of the file; its i-th byte is represented by i.  *)
(*                                                                         *)
(* The descriptor table and its free list are libsel4muslcsys', which is    *)
(* not under src: fd_table is get_fd_struct, free_fds counts how often a    *)
(* descriptor is on the free list.  Only the allocator's promise is used of *)
(* memory: malloc gives a block nobody has, or none.                        *)
(*                                                                         *)
(* opened and left are history: the file behind each descriptor a caller    *)
(* holds, and the closed descriptors whose entry the library left as it     *)
(* was.  reply is what the last call returned; path is the one it looked up. *)
(***************************************************************************)
EXTENDS Integers, Sequences, FiniteSets

CONSTANTS
  Archive,     \* entry name -> size
  Paths,       \* paths given to open and stat
  Fds,         \* descriptors of the library's table
  Blocks,      \* what malloc can give out
  NULL

Names == DOMAIN Archive

Slash == "/"
Dot   == "."

ASSUME ArchiveAssumption ==
  /\ Names \subseteq Seq(STRING) /\ Archive \in [Names -> Nat]
  /\ Fds \subseteq Nat /\ NULL \notin Blocks

VARIABLES
  fd_table,    \* fd -> [filetype, data]
  free_fds,    \* fd -> times on the free list
  memory,      \* block -> what is in it
  opened, left,
  reply        \* [call, path, ret, err, st]

files   == <<fd_table, free_fds, memory, opened, left>>
fs_vars == <<files, reply>>

Free                 == [kind |-> "free"]
FileState(name, pos) == [kind |-> "file", start |-> name, size |-> Archive[name],
                         current |-> pos]

NoStat      == [kind |-> "none", size |-> 0]
Regular(n)  == [kind |-> "file", size |-> n]
Directory   == [kind |-> "dir", size |-> 0]

Replies(call, path, ret, err, st) ==
  reply' = [call |-> call, path |-> path, ret |-> ret, err |-> err, st |-> st]
Answers(call, path, ret, err) == Replies(call, path, ret, err, NoStat)
Describes(call, path, st)     == Replies(call, path, 0, "", st)
Refused(call, path, err) == Answers(call, path, -1, err) /\ UNCHANGED files

-----------------------------------------------------------------------------
(* Paths.                                                                   *)

From(path, i) == SubSeq(path, i, Len(path))
Least(S)      == CHOOSE i \in S : \A j \in S : i <= j

after_slashes(path) ==
  From(path, Least({i \in 1 .. (Len(path) + 1) :
                      i = Len(path) + 1 \/ path[i] # Slash}))

(* Whether ./ is found behind n times ./                                    *)
another_dot(path, n) ==
  2 * n + 2 <= Len(path) /\ path[2 * n + 1] = Dot /\ path[2 * n + 2] = Slash

after_dots(path) ==
  From(path, 2 * Least({n \in 0 .. Len(path) : ~another_dot(path, n)}) + 1)

normalize_path(path) == after_dots(after_slashes(path))

find_file(path) == normalize_path(path) \in Names

(* Mutant: the name has only to begin like an entry.                        *)
is_archive_directory_prefix(name) ==
  \/ name = <<>>
  \/ \E entry \in Names :
       Len(name) < Len(entry) /\ SubSeq(entry, 1, Len(name)) = name

is_archive_directory(name) ==
  \/ name = <<>>
  \/ \E entry \in Names :
       /\ Len(name) < Len(entry)
       /\ SubSeq(entry, 1, Len(name)) = name /\ entry[Len(name) + 1] = Slash

-----------------------------------------------------------------------------
(* Opening.                                                                 *)

(* allocate_fd takes any descriptor that is free; malloc any block that is  *)
(* free, or none, for what is free may be too small.                        *)
free_blocks      == {b \in Blocks : memory[b] = Free}
free_descriptors == {fd \in Fds : free_fds[fd] > 0}

Allocated(fd) == [free_fds EXCEPT ![fd] = @ - 1]

(* Mutant: the block is tested before it is stored.                         *)
open_without_memory_tested(fd) ==
  /\ fd_table' = [fd_table EXCEPT ![fd].filetype = "cpio"]
  /\ left' = left \ {fd}
  /\ UNCHANGED <<free_fds, memory, opened>>

(* The descriptor goes back with its type set and no data.                  *)
open_without_memory(fd) ==
  /\ fd_table' = [fd_table EXCEPT ![fd] = [filetype |-> "cpio", data |-> NULL]]
  /\ left' = left \ {fd}
  /\ UNCHANGED <<free_fds, memory, opened>>

open_at(fd, b, name, position) ==
  /\ fd_table' = [fd_table EXCEPT ![fd] = [filetype |-> "cpio", data |-> b]]
  /\ free_fds' = Allocated(fd)
  /\ memory' = [memory EXCEPT ![b] = FileState(name, position)]
  /\ opened' = [x \in DOMAIN opened \cup {fd} |-> IF x = fd THEN name ELSE opened[x]]
  /\ left' = left \ {fd}

(* Mutant: the position is not set and is what the block held before.       *)
open_with_memory_unset(fd, b, name) == open_at(fd, b, name, Archive[name] + 1)

open_with_memory(fd, b, name) == open_at(fd, b, name, 0)

(* The open and openat system calls, which fopen reaches.                   *)
open_cpio(call, path, given, writes) ==
  LET Opens(fd) ==
        \/ open_without_memory(fd) /\ Answers(call, <<>>, -1, "ENOMEM")
        \/ \E b \in free_blocks :
             /\ open_with_memory(fd, b, normalize_path(given))
             /\ Answers(call, path, fd, "")
  IN IF writes THEN Refused(call, <<>>, "EROFS")
     ELSE IF ~find_file(given) THEN Refused(call, path, "ENOENT")
     ELSE IF free_descriptors = {} THEN Refused(call, <<>>, "EMFILE")
     ELSE \E fd \in free_descriptors : Opens(fd)

fopen(path, writes) == open_cpio("fopen", path, path, writes)

(* open and openat: the path is normalised here and again in open_cpio.     *)
open(path, writes) ==
  \E given \in {normalize_path(path)} : open_cpio("open", path, given, writes)

-----------------------------------------------------------------------------
(* Describing.  A null path or buffer is refused with EFAULT, and left out. *)

(* stat, lstat and fstatat.                                                 *)
stat(path) ==
  /\ UNCHANGED files
  /\ IF find_file(path)
       THEN Describes("stat", path, Regular(Archive[normalize_path(path)]))
     ELSE IF is_archive_directory(normalize_path(path))
       THEN Describes("stat", path, Directory)
     ELSE Answers("stat", path, -1, "ENOENT")

(* Whether fstat finds a file behind fd, which it does by the same test as  *)
(* cpio_file_for_fd of mmap.                                                *)
served(fd) == fd_table[fd].filetype = "cpio" /\ fd_table[fd].data # NULL

(* Of a descriptor of the library; stdin, stdout and stderr are character   *)
(* devices, and no other number is one.                                     *)
fstat(fd) ==
  /\ UNCHANGED files
  /\ IF served(fd)
       THEN Describes("fstat", <<>>, Regular(memory[fd_table[fd].data].size))
       ELSE Answers("fstat", <<>>, -1, "EBADF")

-----------------------------------------------------------------------------
(* read and close of libsel4muslcsys, on a descriptor the caller holds.     *)

(* A read hands over n bytes, at least one of those left and no more than   *)
(* asked for; nothing at the end of the file; or it fails.                  *)
Available(fd, asked) ==
  LET state == memory[fd_table[fd].data]
      rest  == state.size - state.current
  IN IF rest = 0 \/ asked = 0 THEN {0} ELSE 1 .. (IF asked < rest THEN asked ELSE rest)

ReadBytes(fd, n) ==
  /\ memory' = [memory EXCEPT ![fd_table[fd].data].current = @ + n]
  /\ Answers("read", <<>>, n, "")
  /\ UNCHANGED <<fd_table, free_fds, opened, left>>

ReadFails == Refused("read", <<>>, "EIO")

(* Its entry is cleared, or left as it was.                                 *)
close(fd) ==
  /\ memory' = [memory EXCEPT ![fd_table[fd].data] = Free]
  /\ free_fds' = [free_fds EXCEPT ![fd] = @ + 1]
  /\ opened' = [x \in DOMAIN opened \ {fd} |-> opened[x]]
  /\ \/ /\ fd_table' = [fd_table EXCEPT ![fd] = [filetype |-> "none", data |-> NULL]]
        /\ left' = left
     \/ fd_table' = fd_table /\ left' = left \cup {fd}
  /\ Answers("close", <<>>, 0, "")

-----------------------------------------------------------------------------

FsInit ==
  /\ fd_table = [fd \in Fds |-> [filetype |-> "none", data |-> NULL]]
  /\ free_fds = [fd \in Fds |-> 1]
  /\ memory = [b \in Blocks |-> Free]
  /\ opened = [fd \in {} |-> <<>>] /\ left = {}
  /\ reply = [call |-> "none", path |-> <<>>, ret |-> 0, err |-> "",
              st |-> NoStat]

(* What Ruby may call.                                                      *)
FsCalls ==
  \/ \E path \in Paths, writes \in BOOLEAN : open(path, writes) \/ fopen(path, writes)
  \/ \E path \in Paths : stat(path)
  \/ \E fd \in Fds \ left : fstat(fd)
  \/ \E fd \in DOMAIN opened :
       \/ \E n \in Available(fd, 1) : ReadBytes(fd, n)
       \/ close(fd)
=============================================================================
