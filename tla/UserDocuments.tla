--------------------------- MODULE UserDocuments ---------------------------
(***************************************************************************)
(* What the databases of the users promise to those who read them: a       *)
(* document appears only as one rendered for a user, changes only into one *)
(* rendered anew or into a version that was once stored with one field     *)
(* changed, and when it is removed no late writer brings it back.          *)
(***************************************************************************)
CONSTANTS
  Doc,       \* the documents: a database and a login
  Body,      \* what a document may say
  NoBody,    \* the document does not exist, no member of Body
  Rendered,  \* the set of bodies a template gives, for each document
  Edited     \* the pairs of bodies that one edit leads from and to

VARIABLES
  current,  \* the body of each document
  past      \* the bodies each document has ever had

documents == <<current, past>>

TypeOK ==
  /\ current \in [Doc -> Body \union {NoBody}]
  /\ past \in [Doc -> SUBSET Body]

Init ==
  /\ current = [d \in Doc |-> NoBody]
  /\ past = [d \in Doc |-> {}]

Store(d, b) ==
  /\ current' = [current EXCEPT ![d] = b]
  /\ past' = [past EXCEPT ![d] = @ \union {b}]

Render(d) == \E b \in Rendered[d] : Store(d, b)

Edit(d) ==
  /\ current[d] # NoBody
  /\ \E o \in past[d], b \in Body : <<o, b>> \in Edited /\ Store(d, b)

Remove(d) ==
  /\ current[d] # NoBody
  /\ current' = [current EXCEPT ![d] = NoBody]
  /\ UNCHANGED past

Next == \E d \in Doc : Render(d) \/ Edit(d) \/ Remove(d)

Spec == Init /\ [][Next]_documents
=============================================================================
