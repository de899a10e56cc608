------------------------- MODULE MCMetadataEditing --------------------------
(* Small files: a marker or a tag and the marker before, two frames after. *)
EXTENDS MetadataEditing

MCPrefix == <<[type |-> "tag"], [type |-> "fLaC"]>>
MCAudio == <<[type |-> "frame", id |-> 1], [type |-> "frame", id |-> 2]>>

MCIds == {"info", "new", "a", "b"}

Info(id) == [type |-> "streaminfo", id |-> id, length |-> 1, last |-> FALSE]
Other(id, n) == [type |-> "other", id |-> id, length |-> n, last |-> FALSE]
TheLast(b) == [b EXCEPT !.last = TRUE]

MCStarts == {<<TheLast(Info("info"))>>,
             <<Info("info"), Other("a", 1), Padding(6, TRUE)>>,
             <<Info("info"), Padding(2, FALSE), TheLast(Other("a", 5))>>}

(* The last call is there for the action properties, which look at the     *)
(* steps: states that differ in nothing else are the same.                 *)
MCView == <<file, it, torn, chain, current>>

(* New objects, as FLAC__metadata_object_new makes them.                   *)
MCNew == {Info("new"), Other("b", 1), Other("b", 5), Padding(3, FALSE)}

(* Copies that FLAC__metadata_object_clone made of last blocks.            *)
MCCopies == {TheLast(Other("b", 1))}
=============================================================================
