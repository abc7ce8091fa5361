------------------------------ MODULE FileTraverse ------------------------------
(***************************************************************************)
(* hiw_file_traverse of servlet/src/hiw_file_content.c, the POSIX half: a  *)
(* depth-first walk over a directory tree with one buffer for the path.    *)
(*                                                                         *)
(* A path is the sequence of its characters. A frame of the stack is one   *)
(* call of hiw_file_traverse or hiw_file_traverse1: the directory it has   *)
(* open, the path in front of its entries, and the entries that readdir    *)
(* still has to give, in any order. What the callback does is left to the  *)
(* module that extends this one.                                           *)
(***************************************************************************)
EXTENDS Integers, Sequences, FiniteSets

CONSTANTS
    Trees,      \* the directory trees: each maps a directory to its entries
    Root,       \* the directory at base_dir
    BaseDir,    \* base_dir, as the user gave it
    MAX_PATH    \* HIW_MAX_PATH

ASSUME TraverseAssumption ==
    /\ MAX_PATH \in Nat
    /\ BaseDir \in Seq(STRING)
    /\ \A t \in Trees :
        /\ Root \in DOMAIN t
        /\ \A d \in DOMAIN t : \A e \in t[d] :
            /\ e.name \in Seq(STRING)
            /\ e.dir => e.to \in DOMAIN t

\* hiw_file_ignored
Ignored(name) == name \in {<<".">>, <<".", ".">>}

\* Directories nest finitely deep, and the entries of one have different names
\* without a slash.
ASSUME NestingAssumption ==
    \A t \in Trees :
        /\ IsFiniteSet(DOMAIN t)
        /\ \E depth \in [DOMAIN t -> 0 .. Cardinality(DOMAIN t)] :
            \A d \in DOMAIN t : \A e \in t[d] :
                e.dir /\ ~Ignored(e.name) => depth[d] < depth[e.to]
        /\ \A d \in DOMAIN t : \A e, f \in t[d] :
            /\ e.name = f.name => e = f
            /\ \A i \in 1 .. Len(e.name) : e.name[i] # "/"

VARIABLES
    tree,     \* the tree that is there
    stack,    \* the calls, the innermost first
    dirs,     \* the directories open
    err,      \* hiw_file_traverse_error
    visited   \* the files the callback was given

traverseVars == <<tree, stack, dirs, err, visited>>

TraverseInit ==
    /\ tree \in Trees
    /\ stack = << >>
    /\ dirs = 0
    /\ err = "SUCCESS"
    /\ visited = << >>

-------------------------------------------------------------------------------
(* hiw_std_copy stops at the end of the buffer. *)

Clipped(path) ==
    SubSeq(path, 1, IF Len(path) < MAX_PATH THEN Len(path) ELSE MAX_PATH)

\* There is room for the terminating zero.
Terminated(path) == Len(path) < MAX_PATH

\* There is room for "/." and its zero.
RoomForDir(path) == Len(path) + 3 <= MAX_PATH

-------------------------------------------------------------------------------
Walking == stack # << >> /\ err = "SUCCESS"

PathOf(e) == Clipped(Head(stack).path \o <<"/">> \o e.name)

\* readdir has given the entry.
Taken(e) ==
    <<[Head(stack) EXCEPT !.left = @ \ {e}]>> \o Tail(stack)

\* A call opens the directory at a path; calls are the ones around it.
OpenDir(calls, dir, path) ==
    /\ RoomForDir(path)
    /\ stack' = <<[dir |-> dir, path |-> path, left |-> tree[dir]]>> \o calls
    /\ dirs' = dirs + 1
    /\ UNCHANGED <<tree, err, visited>>

OpenFails(calls, path) ==
    /\ err' = IF RoomForDir(path) THEN "NOT_FOUND" ELSE "PATH_LEN"
    /\ stack' = calls
    /\ UNCHANGED <<tree, dirs, visited>>

OpenRoot == OpenDir(<< >>, Root, Clipped(BaseDir))

OpenRootFails == OpenFails(<< >>, Clipped(BaseDir))

SubDir(e) ==
    /\ Walking
    /\ e \in Head(stack).left
    /\ e.dir
    /\ ~Ignored(e.name)

Descend(e) == SubDir(e) /\ OpenDir(Taken(e), e.to, PathOf(e))

DescendFails(e) == SubDir(e) /\ OpenFails(Taken(e), PathOf(e))

Skip(e) ==
    /\ Walking
    /\ e \in Head(stack).left
    /\ e.dir
    /\ Ignored(e.name)
    /\ stack' = Taken(e)
    /\ UNCHANGED <<tree, dirs, err, visited>>

\* The callback is called; the one of this repository never stops the walk.
Visit(e) ==
    /\ Walking
    /\ e \in Head(stack).left
    /\ ~e.dir
    /\ stack' = Taken(e)
    /\ visited' = Append(visited, e.to)
    /\ UNCHANGED <<tree, dirs, err>>

\* Mutant: the path of the subdirectory stays in the buffer.
CloseDirPathKept ==
    /\ Walking
    /\ Head(stack).left = {}
    /\ stack' = IF Tail(stack) = << >> THEN << >>
                ELSE <<[Head(Tail(stack)) EXCEPT !.path = Head(stack).path]>>
                        \o Tail(Tail(stack))
    /\ dirs' = dirs - 1
    /\ UNCHANGED <<tree, err, visited>>

CloseDir ==
    /\ Walking
    /\ Head(stack).left = {}
    /\ stack' = Tail(stack)
    /\ dirs' = dirs - 1
    /\ UNCHANGED <<tree, err, visited>>

\* Mutant: an error returns at once.
UnwindOpen ==
    /\ stack # << >>
    /\ err # "SUCCESS"
    /\ stack' = Tail(stack)
    /\ UNCHANGED <<tree, dirs, err, visited>>

\* An error is passed on by every call after its closedir.
Unwind ==
    /\ stack # << >>
    /\ err # "SUCCESS"
    /\ stack' = Tail(stack)
    /\ dirs' = dirs - 1
    /\ UNCHANGED <<tree, err, visited>>

Entries == UNION {tree[d] : d \in DOMAIN tree}

Walk ==
    \/ \E e \in Entries : Descend(e) \/ DescendFails(e) \/ Skip(e)
    \/ CloseDir
    \/ Unwind
===============================================================================
