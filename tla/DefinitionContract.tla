-------------------------- MODULE DefinitionContract --------------------------
(***************************************************************************)
(* What the alarm definition resource promises the threshold engine, with  *)
(* no requests, rows or handlers: a definition is created once and deleted *)
(* at most once, it changes only in between, and every change owes the     *)
(* engine an announcement, a deletion a second one about the alarms.  An   *)
(* announcement is made at most once or is lost, and never made of         *)
(* something that did not happen.                                          *)
(***************************************************************************)
EXTENDS Naturals, Sequences

CONSTANTS Definitions,   \* definition ids
          Senders,       \* who makes a change and owes its announcement
          InStore        \* definitions that are live at the start

VARIABLES stage,   \* of every definition: "absent", "live" or "deleted"
          owed,    \* announcements of changes that have been made
          told     \* the announcements made, in order
contractVars == <<stage, owed, told>>

Announcement(type, d, by) == [type |-> type, definition |-> d, by |-> by]

ContractInit ==
    /\ stage = [d \in Definitions |-> IF d \in InStore THEN "live" ELSE "absent"]
    /\ owed = {}
    /\ told = <<>>

\* A sender makes one change, and has not announced anything before.
Unused(by) ==
    /\ \A x \in owed : x.by # by
    /\ \A i \in DOMAIN told : told[i].by # by

Change(types, d, by, from, to) ==
    /\ Unused(by)
    /\ stage[d] = from
    /\ stage' = [stage EXCEPT ![d] = to]
    /\ owed' = owed \cup {Announcement(type, d, by) : type \in types}
    /\ UNCHANGED told

Create(d, by) == Change({"created"}, d, by, "absent", "live")
Update(d, by) == Change({"updated"}, d, by, "live", "live")
Delete(d, by) == Change({"deleted", "alarm-deleted"}, d, by, "live", "deleted")

OwedBy(by) == {x \in owed : x.by = by}

\* The definition comes before its alarms.  Who announces one thing may give up
\* the other.
Announce(x) ==
    /\ x \in owed
    /\ x.type = "alarm-deleted" => OwedBy(x.by) = {x}
    /\ \E lost \in SUBSET OwedBy(x.by) : owed' = owed \ ({x} \cup lost)
    /\ told' = Append(told, x)
    /\ UNCHANGED stage

\* The server went down, or the queue did not take the message.
Lose(by) ==
    /\ \E lost \in SUBSET OwedBy(by) : owed' = owed \ lost
    /\ UNCHANGED <<stage, told>>

ContractNext ==
    \/ \E d \in Definitions, by \in Senders :
            Create(d, by) \/ Update(d, by) \/ Delete(d, by)
    \/ \E x \in owed : Announce(x)
    \/ \E by \in Senders : Lose(by)

ContractSpec == ContractInit /\ [][ContractNext]_contractVars
------------------------------------------------------------------------------
\* One deletion per definition, and one announcement of it at most.
OneDeletion ==
    \A i, j \in DOMAIN told :
        told[i].type = "deleted" /\ told[j].type = "deleted"
            /\ told[i].definition = told[j].definition => i = j

\* What was announced of a definition, or is owed, has happened to it.
ToldIsTrue ==
    \A i \in DOMAIN told :
        /\ stage[told[i].definition] # "absent"
        /\ told[i].type \in {"deleted", "alarm-deleted"} =>
                stage[told[i].definition] = "deleted"
==============================================================================
