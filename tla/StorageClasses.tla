--------------------------- MODULE StorageClasses ---------------------------
(***************************************************************************)
(* defaultStorageClass of pkg/engine/renderer_storage.go, the loop over    *)
(* the listed StorageClasses.  Names are represented by their rank in the  *)
(* alphabet, creation times by their second.                               *)
(***************************************************************************)
EXTENDS Integers, FiniteSets

CONSTANTS ClassSets,   \* sets of classes: [name, created, isDefault]
          NoClass

ASSUME ClassAssumption ==
    \A C \in ClassSets : NoClass \notin C /\
      \A c \in C : /\ c.name \in Nat /\ c.created \in Nat /\ c.isDefault \in BOOLEAN
                   /\ \A d \in C : c.name = d.name => c = d

VARIABLES classes,    \* the list
          passed,     \* those the loop has been through
          selected    \* the one it would choose

classVars == <<classes, passed, selected>>

\* A class of the same second is taken too.
Better_NoTie(c, d) == c.created >= d.created

\* Newer, or of the same second and first in the alphabet.
Better(c, d) == c.created > d.created \/ (c.created = d.created /\ c.name < d.name)

ConsiderClass(c) ==
    /\ c \in classes \ passed /\ passed' = passed \cup {c}
    /\ selected' = IF c.isDefault /\ (selected = NoClass \/ (selected # NoClass /\ Better(c, selected)))
                   THEN c ELSE selected
    /\ UNCHANGED classes

ClassInit(C) == classes = C /\ passed = {} /\ selected = NoClass

ClassStep == \E c \in classes : ConsiderClass(c)

-----------------------------------------------------------------------------
(* Properties *)

Defaults == {c \in passed : c.isDefault}

\* The choice depends on the classes and not on the order in which the API server
\* lists them: it is the newest default, and of several of one second the first in
\* the alphabet, or the rendered assets would change from pass to pass
\* (renderer_storage.go 43-59).
NewestDefaultIsSelected ==
    IF Defaults = {} THEN selected = NoClass
    ELSE selected \in Defaults /\ \A c \in Defaults \ {selected} :
           c.created < selected.created \/ (c.created = selected.created /\ selected.name < c.name)
=============================================================================
