---------------------------- MODULE DeckContract ----------------------------
(***************************************************************************)
(* What TermDeck promises about a terminal, without bridges, sockets,      *)
(* requests or server restarts: a record that is open, closed or absent,   *)
(* and a process tree that lives or not.  A tree lives only under an open  *)
(* record, and a record is closed or dropped only when its tree is dead.   *)
(* A restart of the server is no step of the contract at all.              *)
(***************************************************************************)
CONSTANT Sessions

VARIABLES record, tree

vars == <<record, tree>>

Init == /\ record = [s \in Sessions |-> "absent"]
        /\ tree = [s \in Sessions |-> "dead"]

Goes(s, where, life) == /\ record' = [record EXCEPT ![s] = where]
                        /\ tree' = [tree EXCEPT ![s] = life]

(* A new terminal, or a closed one that is opened again, starts its process
   or fails to. *)
Open(s, life) == record[s] # "open" /\ Goes(s, "open", life)

Start(s) == record[s] = "open" /\ tree[s] = "dead" /\ Goes(s, "open", "live")

End(s) == record[s] = "open" /\ tree[s] = "live" /\ Goes(s, "open", "dead")

(* Closing may push the oldest closed record out of the history. *)
Close(s) ==
  /\ record[s] = "open" /\ tree[s] = "dead"
  /\ \/ record' = [record EXCEPT ![s] = "closed"]
     \/ \E old \in Sessions : record[old] = "closed"
                              /\ record' = [record EXCEPT ![s] = "closed", ![old] = "absent"]
  /\ UNCHANGED tree

Drop(s) == record[s] # "absent" /\ tree[s] = "dead" /\ Goes(s, "absent", "dead")

Next == \E s \in Sessions : \/ \E life \in {"dead", "live"} : Open(s, life)
                            \/ Start(s) \/ End(s) \/ Close(s) \/ Drop(s)

Spec == Init /\ [][Next]_vars
=============================================================================
