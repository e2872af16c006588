--------------------------- MODULE RegistryEdits ---------------------------
(***************************************************************************)
(* What the use cases of HostService do to a stored table, as functions of *)
(* the table they loaded. hosts.json maps a hostname to its group,         *)
(* interface_groups.json a group to its interface; both are tables of      *)
(* entries [key, value] here. Inputs are valid: a name the model refuses   *)
(* raises before anything is loaded or is skipped by the bulk edit.        *)
(***************************************************************************)
EXTENDS FiniteSets

CONSTANTS
  Keys,     \* hostnames, or group names
  Values,   \* group names, or interface names
  None

Entries == [key : Keys, value : Values]
Tables == SUBSET Entries
KeysOf(table) == {e.key : e \in table}

\* A read: list_hosts, load_interface_groups.
Reading == [kind |-> "read", keys |-> {}, from |-> None, to |-> None]

\* add_host, register_interface_group, add_hosts_bulk, remove_host,
\* reassign_group, and the reads.
Edits ==
  [kind : {"add", "register"}, keys : {{k} : k \in Keys}, from : {None}, to : Values]
    \cup [kind : {"bulk"}, keys : SUBSET Keys, from : {None}, to : Values]
    \cup [kind : {"remove"}, keys : {{k} : k \in Keys}, from : {None}, to : {None}]
    \cup [kind : {"reassign"}, keys : {{}}, from : Values, to : Values]
    \cup {Reading}

\* Whether an edit of this table is saved at all: add_host refuses a hostname
\* that is managed, the others skip the save when nothing would change.
Saves(e, table) ==
  CASE e.kind = "add"      -> e.keys \cap KeysOf(table) = {}
    [] e.kind = "bulk"     -> e.keys \ KeysOf(table) # {}
    [] e.kind = "remove"   -> e.keys \cap KeysOf(table) # {}
    [] e.kind = "reassign" -> \E r \in table : r.value = e.from
    [] e.kind = "register" -> TRUE
    [] e.kind = "read"     -> FALSE

Others(e, table) == {r \in table : r.key \notin e.keys}
Added(e, keys) == [key : keys, value : {e.to}]

\* The table that is saved.
Edited(e, table) ==
  CASE e.kind \in {"add", "bulk"} -> table \cup Added(e, e.keys \ KeysOf(table))
    [] e.kind = "remove"          -> Others(e, table)
    [] e.kind = "register"        -> Others(e, table) \cup Added(e, e.keys)
    [] e.kind = "reassign"        ->
         {[r EXCEPT !.value = IF @ = e.from THEN e.to ELSE @] : r \in table}
    [] e.kind = "read"            -> table
=============================================================================
