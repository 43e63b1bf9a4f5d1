---------------------------- MODULE MCNotebookHeld ----------------------------
(***************************************************************************)
(* One course of Notebook, too long for TLC to meet among all the others:  *)
(* only the order in which people act is given, and everything between is  *)
(* left open.  Two windows, One and Other, start on one note.              *)
(***************************************************************************)
EXTENDS Notebook

CONSTANTS One, Other

first == CHOOSE n \in FirstNotes : TRUE

Rests(w) == Drained(page[w]) /\ page[w].timer = NoTimer /\ page[w].fetch = {} /\ stream[w] = <<>>

Acts6 == <<One, One, One, One, Other, One>>

(* The next thing happens in the window whose turn it is. *)
Turn(w) == page'[w] # page[w] /\ \A v \in Windows \ {w} : page'[v] = page[v]

Typing ==
  typed' > typed =>
    CASE typed' \in {1, 2} -> acts = 0 /\ Turn(IF typed' = 1 THEN One ELSE Other)
      [] typed' = 3 -> acts >= 5 /\ page[Other].shown # first /\ Turn(Other)
      [] typed' = 4 -> acts >= 5 /\ page[One].shown = first /\ Turn(One)

Acted ==
  LET p == page[One]
      q == page'[One]
  IN acts' > acts =>
       /\ Turn(Acts6[acts'])
          (* One selects the note its refused text went into, once everything has settled, *)
       /\ acts' = 1 => typed = 2 /\ Cardinality(DOMAIN notes) = 2 /\ (\A w \in Windows : Rests(w)) /\ q.shown # p.shown
          (* saves it, and leaves it, which saves it once more, *)
       /\ acts' = 2 => q.shown = p.shown /\ q.live
       /\ acts' = 3 => q.shown # p.shown
          (* loses its status stream while one of the saves is still queued, *)
       /\ acts' = 4 => ~q.live /\ Len(p.queue) = 1 /\ p.wire = Idle
          (* Other selects the same note and types in it, *)
       /\ acts' = 5 => page'[Other].shown # page[Other].shown
          (* and One saves the first note once more. *)
       /\ acts' = 6 => q.queue # p.queue /\ q.shown = p.shown /\ typed = 4

(* Other is through before One goes on, and One has its stream again once both notes are held. *)
Order ==
  /\ Typing /\ Acted
  /\ ~Rests(Other) /\ typed >= 2 => page'[One] = page[One]
  /\ page'[One].live => page[One].live \/ Cardinality(page[One].held) = 2

CourseSpec == Init /\ [][Next /\ Order]_vars

=============================================================================
