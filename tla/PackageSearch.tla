---------------------------- MODULE PackageSearch ----------------------------
(***************************************************************************)
(* Which of the packages found on the search paths the code generator      *)
(* uses when a name occurs more than once.                                 *)
(*                                                                         *)
(* Source: roslibrust_codegen/src/utils.rs (deduplicate_packages).  The    *)
(* map it fills has keys of two kinds: it is asked for the bare name of a  *)
(* package, and filled under the name with the ROS version appended.  A    *)
(* bare name that happens to end like the versioned one of another package *)
(* is left out.  Of a path only its place in the search matters.           *)
(***************************************************************************)
EXTENDS Naturals, Sequences

CONSTANTS
    PackageNames,
    Versions,       \* ROS1, ROS2 or unknown
    MaxPackages     \* bound: packages found

VARIABLES
    packages,   \* what crawl found, in the order of the search
    at,         \* how many have been looked at
    map         \* place of the package kept under each versioned name

vars == <<packages, at, map>>

Package == [name : PackageNames, version : Versions]

Keys == PackageNames \X Versions

TypeOK ==
    /\ packages \in UNION {[1 .. n -> Package] : n \in 0 .. MaxPackages}
    /\ at \in 0 .. Len(packages)
    /\ map \in [Keys -> 0 .. Len(packages)]

Init ==
    /\ packages \in UNION {[1 .. n -> Package] : n \in 0 .. MaxPackages}
    /\ at = 0
    /\ map = [k \in Keys |-> 0]

Key(p) == <<p.name, p.version>>

(* The bare name is never there, so every package is inserted. *)
Insert ==
    /\ at < Len(packages)
    /\ at' = at + 1
    /\ map' = [map EXCEPT ![Key(packages[at'])] = at']
    /\ UNCHANGED packages

Next == Insert

Spec == Init /\ [][Next]_vars

-----------------------------------------------------------------------------

Done == at = Len(packages)

(* Where the packages with a key are. *)
Places(k) == {i \in 1 .. Len(packages) : <<packages[i].name, packages[i].version>> = k}

(* What is kept for a name and version is a package of that name and version *)
(* if any was seen, and of several the one that was found last.              *)
LastPathWins == \A k \in Keys :
    /\ map[k] # 0 => map[k] <= at /\ Key(packages[map[k]]) = k
    /\ \A i \in 1 .. at : Key(packages[i]) = k => i <= map[k]

(* Of packages that are equal but for their path, the first is used.         *)
FirstPathWins == Done => \A k \in Keys : \A i \in Places(k) : map[k] <= i

=============================================================================
