------------------------------ MODULE Allowlist ------------------------------
(***************************************************************************)
(* The Move module seal_demo::allowlist and the key servers that ask it.   *)
(* Lists are shared objects, members a vector; a server answers from the   *)
(* state of a full node of its own, which may lag.                         *)
(***************************************************************************)
EXTENDS Naturals, Sequences, SequencesExt

CONSTANT Server

VARIABLES changes,  \* events, in the order of execution
          lists,    \* a sequence: the n-th list created
          view      \* for each server: lists, and how many events it has seen

allowlistVars == <<changes, lists, view>>

AllowlistInit ==
    /\ changes = <<>> /\ lists = <<>>
    /\ view = [s \in Server |-> [lists |-> <<>>, seen |-> 0]]

create(sender) ==
    /\ lists' = Append(lists, [owner |-> sender, members |-> <<>>])
    /\ UNCHANGED changes

ListGoes(sender, call) == lists[call.list].owner = sender

Event(type, call) == [type |-> type, allowlist |-> call.list, member |-> call.member]

(* Faulty: whoever is on the list already is put on it again.              *)
AddAgain(call) ==
    /\ lists' = [lists EXCEPT ![call.list].members = Append(@, call.member)]
    /\ changes' = Append(changes, Event("MemberAdded", call))

AddMember(call) ==
    IF Contains(lists[call.list].members, call.member)
    THEN UNCHANGED <<lists, changes>>
    ELSE /\ lists' = [lists EXCEPT ![call.list].members = Append(@, call.member)]
         /\ changes' = Append(changes, Event("MemberAdded", call))

add(sender, call) == ListGoes(sender, call) /\ AddMember(call)

IndexOf(members, m) == CHOOSE i \in DOMAIN members :
    members[i] = m /\ \A j \in 1 .. i - 1 : members[j] # m

remove(sender, call) ==
    /\ ListGoes(sender, call)
    /\ IF Contains(lists[call.list].members, call.member)
       THEN /\ lists' = [lists EXCEPT ![call.list].members =
                            RemoveAt(@, IndexOf(@, call.member))]
            /\ changes' = Append(changes, Event("MemberRemoved", call))
       ELSE UNCHANGED <<lists, changes>>

-----------------------------------------------------------------------------
(* A server's node executes what it had not seen.                          *)
CatchUp(s) ==
    /\ view[s] # [lists |-> lists, seen |-> Len(changes)]
    /\ view' = [view EXCEPT ![s] = [lists |-> lists, seen |-> Len(changes)]]
    /\ UNCHANGED <<lists, changes>>

(* Faulty: the owner of a list need not be on it.                          *)
ApprovesOwner(id, al, sender) == Contains(al.members, sender) \/ al.owner = sender

(* id is not looked at.                                                    *)
seal_approve(id, al, sender) == Contains(al.members, sender)

(* The gate a server runs dry.  An identity is the list named in it; the    *)
(* call names a list beside it, which need not be the same.                *)
sealApprovePasses(s, id, list, sender) ==
    /\ list \in DOMAIN view[s].lists
    /\ seal_approve(id, view[s].lists[list], sender)

(* The call comes from who asks for the shares.                            *)
Released(s, id, sender) ==
    \E list \in DOMAIN view[s].lists : sealApprovePasses(s, id, list, sender)
=============================================================================
