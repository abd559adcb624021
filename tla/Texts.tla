-------------------------------- MODULE Texts -------------------------------
(***************************************************************************)
(* Note documents as far as their text goes (crates/core/src/doc.rs).  A   *)
(* document holds marks, each put in at one place: two insertions of one   *)
(* mark are the same text twice.  What is taken out stays known, so that   *)
(* documents join by union.                                                *)
(***************************************************************************)
CONSTANTS
  Marks,   \* what a text can be made of
  Places   \* where marks are put in

Items == Marks \X Places
Doc == [ins : SUBSET Items, del : SUBSET Items]
Empty == [ins |-> {}, del |-> {}]

Shown(doc) == doc.ins \ doc.del
Text(doc) == {i[1] : i \in Shown(doc)}
Twice(doc) == {i[1] : i \in {j \in Shown(doc) : \E k \in Shown(doc) : k # j /\ k[1] = j[1]}}

\* Whether one document has everything the other has.
Within(a, b) == a.ins \subseteq b.ins /\ a.del \subseteq b.del

\* `apply_update` of all of a document.
Join(a, b) == [ins |-> a.ins \cup b.ins, del |-> a.del \cup b.del]

\* `set_text`: what is not in the document is put in, what is not in the text is taken out.
SetText(doc, text, place) ==
  [ins |-> doc.ins \cup {<<m, place>> : m \in text \ Text(doc)},
   del |-> doc.del \cup {i \in doc.ins : i[1] \notin text}]
=============================================================================
