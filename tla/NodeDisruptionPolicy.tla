------------------------ MODULE NodeDisruptionPolicy ------------------------
(***************************************************************************)
(* pkg/engine/node_disruption_policy.go, the functions on policies: what a *)
(* policy covers, when MCO's status holds it, and how the policies of all  *)
(* active MachineConfigs become the one of MachineConfiguration/cluster.   *)
(*                                                                         *)
(* A policy has three sections.  files and units are keyed lists: functions *)
(* from paths or unit names to actions; sshkey is one action.  Each may be *)
(* missing, which the code tells apart from an empty list.                 *)
(***************************************************************************)
EXTENDS FiniteSets, Integers, Sequences, Functions

CONSTANT Absent       \* a section that is not there

KeyedSections == {"files", "units"}

Keys(section) == IF section = Absent THEN {} ELSE DOMAIN section

\* Later entries of a keyed section replace earlier ones of the same key.
Overlay(over, under) ==
    [k \in DOMAIN over \cup DOMAIN under |-> IF k \in DOMAIN over THEN over[k] ELSE under[k]]

EmptyPolicy == [files |-> Absent, units |-> Absent, sshkey |-> Absent]

-----------------------------------------------------------------------------
(* What a policy covers.  A MachineConfig is the set of its files and of its *)
(* units, whether it sets SSH keys, and whether it sets any other field.     *)

\* Units are not looked at.
Covers_FilesOnly(policy, mc) ==
    /\ ~mc.other
    /\ mc.files \subseteq Keys(policy.files)
    /\ mc.ssh => policy.sshkey # Absent

\* nodeDisruptionPolicyCoversMachineConfig returns no error.
Covers(policy, mc) ==
    /\ ~mc.other
    /\ \A s \in KeyedSections : mc[s] \subseteq Keys(policy[s])
    /\ mc.ssh => policy.sshkey # Absent

-----------------------------------------------------------------------------
(* When MCO's status holds a policy *)

NamedEntriesMatch(actual, expected) ==
    \A k \in DOMAIN expected : k \in DOMAIN actual /\ actual[k] = expected[k]

\* nodeDisruptionPolicyEntriesMatch: "error" if nothing, or an empty list, is
\* requested.  The sections are looked at in order, and the first that decides
\* ends it: a mismatch in files hides an empty list of units.
EntriesMatch(actual, expected) ==
    LET Section(s) ==
          CASE expected[s] = Absent -> "pass"
            [] expected[s] # Absent /\ DOMAIN expected[s] = {} -> "error"
            [] OTHER -> IF actual[s] # Absent /\ NamedEntriesMatch(actual[s], expected[s])
                        THEN "pass" ELSE "no"
        SSHKey == IF expected.sshkey \in {Absent, actual.sshkey} THEN "pass" ELSE "no"
    IN  CASE Section("files") # "pass" -> Section("files")
          [] Section("files") = "pass" /\ Section("units") # "pass" -> Section("units")
          [] OTHER -> IF SSHKey = "no" THEN "no"
                      ELSE IF expected = EmptyPolicy THEN "error" ELSE "yes"

\* machineConfigHasEffectiveNodeDisruptionPolicy, of engine/tombstone.go: an
\* action of the status applies to a file or a unit of the MachineConfig.
HasEffectiveAction(mc, status) == \E s \in KeyedSections : mc[s] \cap Keys(status[s]) # {}

-----------------------------------------------------------------------------
(* The aggregate.  A step of the loop carries the three sections, or Absent  *)
(* once an error was returned.                                               *)

NoEntries == [files |-> <<>>, units |-> <<>>, sshkey |-> Absent]

\* An entry that differs replaces the one that is there.
MergeEntries_LastWins(destination, section) ==
    IF section = Absent THEN destination ELSE Overlay(section, destination)

MergeEntries(destination, section) ==
    CASE section = Absent -> destination
      [] section # Absent /\ \E k \in DOMAIN section \cap DOMAIN destination : section[k] # destination[k]
           -> Absent
      [] OTHER -> Overlay(section, destination)

MergeSSHKey(existing, candidate) ==
    IF candidate = Absent THEN existing ELSE candidate

SSHKeyConflict(existing, candidate) ==
    candidate # Absent /\ existing # Absent /\ existing # candidate

MergePolicy(aggregate, policy) ==
    LET files == MergeEntries(aggregate.files, policy.files)
        units == MergeEntries(aggregate.units, policy.units)
    IN  IF files = Absent \/ units = Absent \/ SSHKeyConflict(aggregate.sshkey, policy.sshkey)
        THEN Absent
        ELSE [files |-> files, units |-> units,
              sshkey |-> MergeSSHKey(aggregate.sshkey, policy.sshkey)]

\* One dependent of the catalog: [active, excluded, rendered, policy, mc].
\* policy = Absent: the policy asset renders nothing, which is an error while
\* the dependent is there.
AddDependent(aggregate, dependent) ==
    CASE aggregate = Absent -> Absent
      [] aggregate # Absent /\ (~dependent.active \/ ~dependent.rendered \/ dependent.excluded) -> aggregate
      [] OTHER -> IF dependent.policy = Absent THEN Absent
                  ELSE IF Covers(dependent.policy, dependent.mc)
                       THEN MergePolicy(aggregate, dependent.policy) ELSE Absent

\* nodeDisruptionPolicyAggregateEntries, in the order of the catalog.
AggregateEntries(dependents) ==
    LET after[n \in 0 .. Len(dependents)] ==
          IF n = 0 THEN NoEntries ELSE AddDependent(after[n - 1], dependents[n])
    IN  after[Len(dependents)]

\* The second result: something is wanted, so the singleton may be created.
HasActiveDependent(aggregate) ==
    DOMAIN aggregate.files # {} \/ DOMAIN aggregate.units # {} \/ aggregate.sshkey # Absent
=============================================================================
