-------------------------- MODULE SanctionLinksProofs --------------------------
(***************************************************************************)
(* Theorems about SanctionLinks, for any sanctions, politicians, maskings, *)
(* names and imports, any number of operators' acts and failures.          *)
(***************************************************************************)
EXTENDS SanctionLinks, FiniteSetTheorems, SequenceTheorems, TLAPS

(* The parts of the inductive invariant.                                   *)

\* What the program points of the worker and of the operator say about what they
\* have in hand.
Hands ==
  /\ link.pc # "idle" => \E s \in Sanction : link.sanction = {s}
  /\ link.pc \notin {"idle", "each"} => \E c \in Cpf : link.at = {c}
  /\ op.pc \in {"edge", "mark"} => op.review \in DOMAIN reviews

\* Whoever is about to get an edge or a review as a politician is one.
AllKnown ==
  /\ \A i \in DOMAIN reviews : pol[reviews[i].cpf].known
  /\ \A m \in link.matches : pol[m[1]].known
  /\ link.pc \in {"file", "score"} \/ (link.pc = "edge" /\ link.label = "Politician")
       => \A c \in link.at : pol[c].known

\* The worker goes on with a document, full or masked, as long as it has to.
InHandEvidence ==
  \A s \in Sanction : link.sanction = {s} =>
    /\ link.pc \in {"find", "create", "edge"} => Rec[s].kind = "cpf" /\ link.at = {Rec[s].cpf}
    /\ Rec[s].kind = "masked" => \A m \in link.matches : Masked[m[1]] = Masked[Rec[s].cpf]
    /\ link.pc = "score" => /\ Rec[s].kind = "masked"
                            /\ \A c \in link.at : Masked[c] = Masked[Rec[s].cpf]

\* Only politicians are scored, and the score of several candidates links none.
Scored == /\ \A e \in edges : e.by = "score" => e.label = "Politician"
          /\ link.pc = "score" => link.count <= 1

\* A candidate that was alone is the one politician the mask was ever linked to.
Alone ==
  \A s \in Sanction :
    link.sanction = {s} /\ Rec[s].kind = "masked" /\ link.count <= 1 /\ link.pc # "idle" =>
      \E c \in Cpf : /\ \A m \in link.matches : m[1] = c
                     /\ link.pc = "score" => link.at = {c}
                     /\ \A e \in edges : e.by = "score" /\ e.sanction = s => e.cpf = c

\* A review that is about to be filed is the first of its pair.
FirstOfPair ==
  link.pc = "file" =>
    \A s \in Sanction, c \in Cpf : link.sanction = {s} /\ link.at = {c} => ~HasSanctionReview(s, c)

\* A person about to be written whose CPF is tombstoned by now is exposed.
InHandExposed == link.pc \in {"find", "create"} => link.at \cap tombstones \subseteq exposed

LinksInv ==
  /\ TypeOK /\ Hands /\ AllKnown
  /\ InHandEvidence /\ LinkHasEvidence
  /\ Scored /\ Alone /\ OneLinkPerMask
  /\ FirstOfPair /\ FiledOnce
  /\ InHandExposed /\ PersonStaysOut

-------------------------------------------------------------------------------
(* Lemmas about operators.                                                 *)

\* The member of a set of one.
LEMMA OneOf == ASSUME NEW S, NEW x, S = {x} PROVE (CHOOSE y \in S : TRUE) = x
  OBVIOUS

\* The placeholders are values of their sets.
LEMMA Placeholders ==
  NoLink \in LinkState /\ NoOp \in OpState /\ Unknown \in Politician /\ NoPhoto \in Photo
<1>1. AnyName \in Name /\ AnyUf \in Uf
  BY PoliticianStoreAssumption DEF AnyName, AnyUf
<1> QED
  BY <1>1 DEF NoLink, LinkState, NoOp, OpState, Unknown, Politician, NoPhoto, Photo

\* What the worker has in hand, by name.
LEMMA InHand ==
  /\ \A s \in Sanction : link.sanction = {s} => s0 = s /\ r0 = Rec[s]
  /\ \A c \in Cpf : link.at = {c} => c0 = c
  BY OneOf DEF s0, r0, c0

\* Only an edge is added, from a node that is there if it was before.
LEMMA LinkedEdges ==
  ASSUME NEW label, NEW c, NEW s, NEW by
  PROVE  /\ edges \subseteq Linked(label, c, s, by)
         /\ \A e \in Linked(label, c, s, by) \ edges :
              /\ e = [label |-> label, cpf |-> c, sanction |-> s, by |-> by]
              /\ ~(\E f \in edges : f.label = label /\ f.cpf = c /\ f.sanction = s)
              /\ label = "Person" => c \in persons
  BY DEF Linked

\* A linked pair is an edge.
LEMMA LinkedType ==
  ASSUME edges \subseteq Edge, NEW label \in {"Politician", "Person"}, NEW c \in Cpf,
         NEW s \in Sanction, NEW by \in {"document", "score", "human"}
  PROVE  Linked(label, c, s, by) \subseteq Edge
  BY DEF Linked, Edge

\* Several candidates never reach the threshold, nor does anything but a name that
\* is equal.
LEMMA ScoreOfOne ==
  ASSUME NEW a, NEW b, NEW n \in Nat, AutoLink(Score(TRUE, a, b, n))
  PROVE  n <= 1 /\ a = b
  BY DEF AutoLink, AutoLinkThreshold, Score

\* The candidates of a mask can be counted.
LEMMA FitsFinite == \A s \in Sanction : IsFiniteSet(Fits(s)) /\ Cardinality(Fits(s)) \in Nat
<1> TAKE s \in Sanction
<1>1. Fits(s) \subseteq Cpf
  BY DEF Fits
<1> QED
  BY <1>1, PoliticianStoreAssumption, FS_Subset, FS_CardinalityType

\* A candidate counted alone is alone.
LEMMA FitsOne ==
  ASSUME NEW s \in Sanction, Fits(s) # {}, Cardinality(Fits(s)) <= 1
  PROVE  \E c \in Cpf : Fits(s) = {c}
<1>1. Cardinality(Fits(s)) # 0
  BY FitsFinite, FS_EmptySet
<1>2. Cardinality(Fits(s)) = 1
  BY <1>1, FitsFinite
<1>3. PICK c : Fits(s) = {c}
  BY <1>2, FitsFinite, FS_Singleton
<1> QED
  BY <1>3 DEF Fits

-------------------------------------------------------------------------------
(* The worker.                                                             *)

\* The worker asks the tombstones: whoever it goes on with is not purged.
LEMMA LinkFullCPFInv ==
  ASSUME LinksInv, NEW s \in Sanction, LinkFullCPF(s)
  PROVE  LinksInv'
<1> USE DEF LinksInv, LinkFullCPF, Rest, store, bounds
<1>1. Rec[s] \in Record /\ Rec[s].cpf \in Cpf
  BY SanctionLinksAssumption DEF Record
<1>2. link' = [NoLink EXCEPT !.pc = "find", !.sanction = {s}, !.at = {Rec[s].cpf}]
  OBVIOUS
<1>3. TypeOK'
  BY <1>1, Placeholders DEF TypeOK, StoreTypeOK, LinkState
<1>4. Hands' /\ AllKnown'
  BY <1>1 DEF Hands, AllKnown, NoLink
<1>5. InHandEvidence' /\ Scored' /\ Alone' /\ FirstOfPair'
  BY <1>1 DEF InHandEvidence, Scored, Alone, FirstOfPair, NoLink
<1>6. InHandExposed'
  BY DEF InHandExposed, IsSubjectPurged, NoLink
<1>7. LinkHasEvidence' /\ OneLinkPerMask' /\ FiledOnce' /\ PersonStaysOut'
  BY DEF LinkHasEvidence, OneLinkPerMask, FiledOnce, PersonStaysOut
<1> QED
  BY <1>3, <1>4, <1>5, <1>6, <1>7

\* It finds a politician, who is known, or a person.
LEMMA FindSubjectInv == ASSUME LinksInv, FindSubjectByCPF PROVE LinksInv'
<1> USE DEF LinksInv, FindSubjectByCPF, Rest, store, bounds
<1>1. PICK s \in Sanction : link.sanction = {s} /\ link.at = {Rec[s].cpf} /\ c0 = Rec[s].cpf
                            /\ Rec[s].cpf \in Cpf /\ Rec[s].kind = "cpf"
  BY InHand DEF Hands, InHandEvidence
<1>2. /\ link'.sanction = link.sanction /\ link'.at = link.at /\ link'.matches = link.matches
      /\ link'.count = link.count
      /\ link'.pc \in {"edge", "create"} /\ link' \in LinkState
      /\ link'.pc = "edge" /\ link'.label = "Politician" => pol[c0].known
  BY DEF TypeOK, LinkState
<1>3. TypeOK'
  BY <1>2 DEF TypeOK, StoreTypeOK
<1>4. Hands' /\ AllKnown'
  BY <1>1, <1>2 DEF Hands, AllKnown
<1>5. InHandEvidence' /\ Scored' /\ Alone' /\ FirstOfPair'
  BY <1>1, <1>2 DEF InHandEvidence, Scored, Alone, FirstOfPair
<1>6. InHandExposed'
  BY <1>2 DEF InHandExposed
<1>7. LinkHasEvidence' /\ OneLinkPerMask' /\ FiledOnce' /\ PersonStaysOut'
  BY DEF LinkHasEvidence, OneLinkPerMask, FiledOnce, PersonStaysOut
<1> QED
  BY <1>3, <1>4, <1>5, <1>6, <1>7

\* It writes a person, cleared before or exposed since.
LEMMA UpsertPersonInv == ASSUME LinksInv, UpsertPersonByCPF PROVE LinksInv'
<1> USE DEF LinksInv, UpsertPersonByCPF, Rest, store, bounds
<1>1. PICK s \in Sanction : link.sanction = {s} /\ link.at = {Rec[s].cpf} /\ c0 = Rec[s].cpf
                            /\ Rec[s].cpf \in Cpf /\ Rec[s].kind = "cpf"
  BY InHand DEF Hands, InHandEvidence
<1>2. /\ link'.sanction = link.sanction /\ link'.at = link.at /\ link'.matches = link.matches
      /\ link'.count = link.count
      /\ link'.pc = "edge" /\ link'.label = "Person" /\ link' \in LinkState
  BY DEF TypeOK, LinkState
<1>3. TypeOK'
  BY <1>1, <1>2 DEF TypeOK, StoreTypeOK
<1>4. Hands' /\ AllKnown'
  BY <1>1, <1>2 DEF Hands, AllKnown
<1>5. InHandEvidence' /\ Scored' /\ Alone' /\ FirstOfPair' /\ InHandExposed'
  BY <1>1, <1>2 DEF InHandEvidence, Scored, Alone, FirstOfPair, InHandExposed
<1>6. PersonStaysOut'
  BY <1>1 DEF PersonStaysOut, InHandExposed
<1>7. LinkHasEvidence' /\ OneLinkPerMask' /\ FiledOnce'
  BY DEF LinkHasEvidence, OneLinkPerMask, FiledOnce
<1> QED
  BY <1>3, <1>4, <1>5, <1>6, <1>7

\* It links by the full CPF of the record.
LEMMA LinkByDocumentInv == ASSUME LinksInv, LinkByDocument PROVE LinksInv'
<1> USE DEF LinksInv, LinkByDocument, Rest, store, bounds
<1>1. PICK s \in Sanction : link.sanction = {s} /\ link.at = {Rec[s].cpf} /\ s0 = s
                            /\ c0 = Rec[s].cpf /\ Rec[s].cpf \in Cpf /\ Rec[s].kind = "cpf"
  BY InHand DEF Hands, InHandEvidence
<1>2. edges \subseteq edges' /\ \A e \in edges' \ edges :
        /\ e = [label |-> link.label, cpf |-> c0, sanction |-> s0, by |-> "document"]
        /\ link.label = "Person" => c0 \in persons
  BY LinkedEdges
<1>3. edges' \subseteq Edge
  BY <1>1, LinkedType DEF TypeOK, LinkState
<1>4. link.label = "Politician" => pol[c0].known
  BY <1>1 DEF AllKnown
<1>5. TypeOK'
  BY <1>1, <1>2, <1>3, <1>4, Placeholders DEF TypeOK, StoreTypeOK, LinkState
<1>6. Hands' /\ AllKnown' /\ InHandEvidence' /\ Alone' /\ FirstOfPair' /\ InHandExposed'
  BY DEF Hands, AllKnown, InHandEvidence, Alone, FirstOfPair, InHandExposed, NoLink
<1>7. LinkHasEvidence'
  BY <1>1, <1>2 DEF LinkHasEvidence
<1>8. Scored' /\ OneLinkPerMask'
  BY <1>2 DEF Scored, OneLinkPerMask, NoLink
<1>9. FiledOnce' /\ PersonStaysOut'
  BY DEF FiledOnce, PersonStaysOut
<1> QED
  BY <1>5, <1>6, <1>7, <1>8, <1>9

\* It takes the candidates of a mask.
LEMMA LinkMaskedCPFInv ==
  ASSUME LinksInv, NEW s \in Sanction, LinkMaskedCPF(s)
  PROVE  LinksInv'
<1> USE DEF LinksInv, LinkMaskedCPF, Rest, store, bounds
<1>1. Rec[s] \in Record /\ Fits(s) \subseteq Cpf
  BY SanctionLinksAssumption DEF Fits
<1>2. link'.matches \subseteq Cpf \X Name
  BY <1>1 DEF TypeOK, StoreTypeOK, Politician, NoLink
<1>3. link' = [NoLink EXCEPT !.pc = "each", !.sanction = {s}, !.count = Cardinality(Fits(s)),
                             !.matches = link'.matches]
      /\ link'.matches = {<<c, pol[c].name>> : c \in Fits(s)}
  BY DEF NoLink
<1>4. TypeOK'
  BY <1>2, <1>3, FitsFinite, Placeholders DEF TypeOK, StoreTypeOK, LinkState
<1>5. \A m \in link'.matches : m[1] \in Fits(s)
  BY <1>3
<1>6. Hands' /\ AllKnown'
  BY <1>3, <1>5 DEF Hands, AllKnown, NoLink, Fits
<1>7. InHandEvidence' /\ Scored' /\ FirstOfPair' /\ InHandExposed'
  BY <1>3, <1>5 DEF InHandEvidence, Scored, FirstOfPair, InHandExposed, NoLink, Fits
<1>8. ASSUME Cardinality(Fits(s)) <= 1
      PROVE  \E c \in Cpf : /\ \A m \in link'.matches : m[1] = c
                            /\ \A e \in edges : e.by = "score" /\ e.sanction = s => e.cpf = c
  <2>1. PICK c \in Cpf : Fits(s) = {c}
    BY <1>8, FitsOne
  <2>2. ASSUME NEW e \in edges, e.by = "score", e.sanction = s
        PROVE  e.cpf \in Fits(s)
    <3>1. e.label = "Politician" /\ e.cpf \in Cpf
      BY <2>2 DEF Scored, TypeOK, Edge
    <3>2. Masked[Rec[s].cpf] = Masked[e.cpf]
      BY <2>2, <3>1 DEF LinkHasEvidence
    <3> QED
      BY <2>2, <3>1, <3>2 DEF TypeOK, Fits
  <2> QED
    BY <2>1, <2>2, <1>5
<1>9. Alone'
  BY <1>3, <1>8 DEF Alone, NoLink
<1>10. LinkHasEvidence' /\ OneLinkPerMask' /\ FiledOnce' /\ PersonStaysOut'
  BY DEF LinkHasEvidence, OneLinkPerMask, FiledOnce, PersonStaysOut
<1> QED
  BY <1>4, <1>6, <1>7, <1>9, <1>10

\* It takes the candidates of a name, for the queue only.
LEMMA LinkNameOnlyInv ==
  ASSUME LinksInv, NEW s \in Sanction, LinkNameOnly(s)
  PROVE  LinksInv'
<1> USE DEF LinksInv, Rest, store, bounds
<1>1. PICK c \in Cpf :
        /\ pol[c].known
        /\ link' = [NoLink EXCEPT !.pc = "each", !.sanction = {s}, !.count = 1,
                                  !.matches = {<<c, Rec[s].name>>}]
  BY DEF LinkNameOnly
<1>2. Rec[s].name \in Name /\ Rec[s].kind = "name" /\ UNCHANGED <<store, Rest>>
  BY SanctionLinksAssumption DEF Record, LinkNameOnly
<1>3. TypeOK'
  <2>1. {<<c, Rec[s].name>>} \subseteq Cpf \X Name
    BY <1>2
  <2>2. link' \in LinkState
    BY <1>1, <2>1 DEF LinkState, NoLink
  <2> QED
    BY <1>2, <2>2 DEF TypeOK, StoreTypeOK
<1>4. Hands' /\ AllKnown'
  BY <1>1, <1>2 DEF Hands, AllKnown, NoLink
<1>5. InHandEvidence' /\ Scored' /\ Alone' /\ FirstOfPair' /\ InHandExposed'
  BY <1>1, <1>2 DEF InHandEvidence, Scored, Alone, FirstOfPair, InHandExposed, NoLink
<1>6. LinkHasEvidence' /\ OneLinkPerMask' /\ FiledOnce' /\ PersonStaysOut'
  BY <1>2 DEF LinkHasEvidence, OneLinkPerMask, FiledOnce, PersonStaysOut
<1> QED
  BY <1>3, <1>4, <1>5, <1>6

\* One match of the record: skipped, to be filed, or to be linked.
LEMMA EachMatchInv == ASSUME LinksInv, EachMatch PROVE LinksInv'
<1> USE DEF LinksInv, Rest, store, bounds
<1>1. PICK s \in Sanction : link.sanction = {s} /\ s0 = s /\ r0 = Rec[s]
  BY InHand DEF Hands, EachMatch
<1>2. PICK m \in link.matches :
        LET auto == r0.kind = "masked" /\ AutoLink(Score(TRUE, r0.name, m[2], link.count))
            skip == IF auto THEN IsSubjectPurged({m[2]}) ELSE HasSanctionReview(s0, m[1])
        IN link' = [link EXCEPT !.matches = @ \ {m}, !.at = {m[1]},
                                !.pc = IF skip THEN "each" ELSE IF auto THEN "score" ELSE "file"]
  BY DEF EachMatch
<1>3. UNCHANGED <<store, Rest>> /\ link.pc = "each" /\ link.matches \subseteq Cpf \X Name
      /\ link.count \in Nat
  BY DEF EachMatch, TypeOK, LinkState
<1>4. m[1] \in Cpf /\ pol[m[1]].known
  BY <1>3 DEF AllKnown
<1>5. /\ link'.sanction = {s} /\ link'.at = {m[1]} /\ link'.matches = link.matches \ {m}
      /\ link'.count = link.count /\ link'.pc \in {"each", "score", "file"} /\ link' \in LinkState
  BY <1>1, <1>2, <1>3, <1>4 DEF TypeOK, LinkState
<1>6. link'.pc = "score" => Rec[s].kind = "masked" /\ link.count <= 1
  BY <1>1, <1>2, <1>3, ScoreOfOne DEF TypeOK, LinkState
<1>7. link'.pc = "file" => ~HasSanctionReview(s, m[1])
  BY <1>1, <1>2, <1>3 DEF TypeOK, LinkState
<1>8. TypeOK'
  BY <1>3, <1>5 DEF TypeOK, StoreTypeOK
<1>9. Hands' /\ AllKnown'
  BY <1>3, <1>4, <1>5 DEF Hands, AllKnown
<1>10. InHandEvidence'
  BY <1>1, <1>3, <1>5, <1>6 DEF InHandEvidence
<1>11. Scored' /\ InHandExposed'
  BY <1>3, <1>5, <1>6 DEF Scored, InHandExposed
<1>12. Alone'
  BY <1>1, <1>3, <1>4, <1>5 DEF Alone
<1>13. FirstOfPair'
  BY <1>1, <1>3, <1>4, <1>5, <1>7 DEF FirstOfPair, HasSanctionReview
<1>14. LinkHasEvidence' /\ OneLinkPerMask' /\ FiledOnce' /\ PersonStaysOut'
  BY <1>3 DEF LinkHasEvidence, OneLinkPerMask, FiledOnce, PersonStaysOut
<1> QED
  BY <1>8, <1>9, <1>10, <1>11, <1>12, <1>13, <1>14

\* It files the candidate, the first row of its pair.
LEMMA QueueReviewInv == ASSUME LinksInv, QueueReview PROVE LinksInv'
<1> USE DEF LinksInv, QueueReview, Rest, store, bounds
<1>1. PICK s \in Sanction, c \in Cpf : link.sanction = {s} /\ link.at = {c} /\ s0 = s /\ c0 = c
  BY InHand DEF Hands
<1> DEFINE row == [sanction |-> s, cpf |-> c, status |-> "pending"]
<1>2. row \in Review /\ reviews \in Seq(Review) /\ reviews' = Append(reviews, row)
  BY <1>1 DEF TypeOK, Review
<1>3. /\ reviews' \in Seq(Review)
      /\ DOMAIN reviews \subseteq DOMAIN reviews'
      /\ \A i \in DOMAIN reviews : reviews'[i] = reviews[i]
      /\ \A i \in DOMAIN reviews' : i \in DOMAIN reviews \/ (i = Len(reviews) + 1 /\ reviews'[i] = row)
  BY <1>2, AppendProperties
<1>4. /\ link'.sanction = link.sanction /\ link'.at = link.at /\ link'.matches = link.matches
      /\ link'.count = link.count /\ link'.pc = "each" /\ link' \in LinkState
  BY DEF TypeOK, LinkState
<1>5. TypeOK'
  BY <1>3, <1>4 DEF TypeOK, StoreTypeOK
<1>6. Hands'
  BY <1>1, <1>3, <1>4 DEF Hands
<1>7. AllKnown'
  BY <1>1, <1>3, <1>4 DEF AllKnown
<1>8. InHandEvidence' /\ Scored' /\ Alone' /\ FirstOfPair' /\ InHandExposed'
  BY <1>4 DEF InHandEvidence, Scored, Alone, FirstOfPair, InHandExposed
<1>9. LinkHasEvidence'
  BY <1>3 DEF LinkHasEvidence
<1>10. ~HasSanctionReview(s, c)
  BY <1>1 DEF FirstOfPair
<1>11. FiledOnce'
  BY <1>3, <1>10 DEF FiledOnce, HasSanctionReview
<1>12. OneLinkPerMask' /\ PersonStaysOut'
  BY DEF OneLinkPerMask, PersonStaysOut
<1> QED
  BY <1>5, <1>6, <1>7, <1>8, <1>9, <1>11, <1>12

\* It links the only candidate of a mask.
LEMMA LinkByScoreInv == ASSUME LinksInv, LinkByScore PROVE LinksInv'
<1> USE DEF LinksInv, LinkByScore, Rest, store, bounds
<1>1. PICK s \in Sanction, c \in Cpf : link.sanction = {s} /\ link.at = {c} /\ s0 = s /\ c0 = c
  BY InHand DEF Hands
<1> DEFINE new == [label |-> "Politician", cpf |-> c, sanction |-> s, by |-> "score"]
<1>2. edges \subseteq edges' /\ \A e \in edges' \ edges : e = new
  BY <1>1, LinkedEdges
<1>3. edges' \subseteq Edge
  BY <1>1, LinkedType DEF TypeOK
<1>4. pol[c].known /\ Rec[s].kind = "masked" /\ Masked[c] = Masked[Rec[s].cpf] /\ link.count <= 1
  BY <1>1 DEF AllKnown, InHandEvidence, Scored
<1>5. \A e \in edges : e.by = "score" /\ e.sanction = s => e.cpf = c
  BY <1>1, <1>4 DEF Alone
<1>6. /\ link'.sanction = link.sanction /\ link'.at = link.at /\ link'.matches = link.matches
      /\ link'.count = link.count /\ link'.pc = "each" /\ link' \in LinkState
  BY DEF TypeOK, LinkState
<1>7. TypeOK'
  BY <1>2, <1>3, <1>4, <1>6 DEF TypeOK, StoreTypeOK
<1>8. Hands' /\ AllKnown' /\ InHandEvidence' /\ FirstOfPair' /\ InHandExposed'
  BY <1>6 DEF Hands, AllKnown, InHandEvidence, FirstOfPair, InHandExposed
<1>9. LinkHasEvidence' /\ Scored'
  BY <1>2, <1>4, <1>6 DEF LinkHasEvidence, Scored
<1>10. Alone'
  BY <1>1, <1>2, <1>5, <1>6 DEF Alone
<1>11. OneLinkPerMask'
  <2> SUFFICES ASSUME NEW e \in edges', NEW f \in edges', e.by = "score", f.by = "score",
                      e.sanction = f.sanction
               PROVE  e = f
    BY DEF OneLinkPerMask
  <2>1. \A g \in edges' : g.by = "score" => g.label = "Politician" /\ g \in Edge
    BY <1>3, <1>9 DEF Scored
  <2>2. CASE e \in edges /\ f \in edges
    BY <2>2 DEF OneLinkPerMask
  <2>3. CASE e = new \/ f = new
    <3>1. e.sanction = s /\ f.sanction = s
      BY <2>3
    <3>2. e.cpf = c /\ f.cpf = c
      BY <3>1, <1>2, <1>5
    <3> QED
      BY <3>1, <3>2, <2>1 DEF Edge
  <2> QED
    BY <2>2, <2>3, <1>2
<1>12. FiledOnce' /\ PersonStaysOut'
  BY DEF FiledOnce, PersonStaysOut
<1> QED
  BY <1>7, <1>8, <1>9, <1>10, <1>11, <1>12

\* The worker is done with a record, or fails.
LEMMA LinkEndInv == ASSUME LinksInv, LinkDone \/ LinkFails PROVE LinksInv'
<1> USE DEF LinksInv, LinkDone, LinkFails, Rest, store, bounds
<1>1. link' = NoLink /\ UNCHANGED <<pol, photo, store, op, exposed>>
  OBVIOUS
<1>2. TypeOK'
  BY <1>1, Placeholders DEF TypeOK, StoreTypeOK
<1>3. Hands' /\ AllKnown' /\ InHandEvidence' /\ Scored' /\ Alone' /\ FirstOfPair' /\ InHandExposed'
  BY <1>1 DEF Hands, AllKnown, InHandEvidence, Scored, Alone, FirstOfPair, InHandExposed, NoLink
<1>4. LinkHasEvidence' /\ OneLinkPerMask' /\ FiledOnce' /\ PersonStaysOut'
  BY <1>1 DEF LinkHasEvidence, OneLinkPerMask, FiledOnce, PersonStaysOut
<1> QED
  BY <1>2, <1>3, <1>4

-------------------------------------------------------------------------------
(* The importer and the operators.                                         *)

\* An import makes politicians and unmakes none.
LEMMA ImportKnows ==
  ASSUME StoreTypeOK, NEW r \in Rows, NEW y \in Year, UpsertPoliticiansFromTSE({r}, y)
  PROVE  /\ StoreTypeOK'
         /\ \A c \in Cpf : pol[c].known => pol'[c].known
<1> DEFINE At(c) == {q \in {r} : q.cpf = c}
<1>1. r.name \in Name /\ r.uf \in Uf
  BY SanctionLinksAssumption
<1>2. \A c \in Cpf : At(c) # {} => (CHOOSE q \in At(c) : TRUE) = r
  OBVIOUS
<1>3. \A c \in Cpf : pol'[c] = IF At(c) = {} THEN pol[c]
        ELSE [pol[c] EXCEPT !.known = TRUE, !.name = r.name, !.state = r.uf]
  BY <1>2 DEF UpsertPoliticiansFromTSE
<1>4. pol' \in [Cpf -> Politician]
  <2>1. \A c \in Cpf : pol'[c] \in Politician
    BY <1>1, <1>3 DEF StoreTypeOK, Politician
  <2>2. pol' = [c \in Cpf |-> pol'[c]]
    BY DEF UpsertPoliticiansFromTSE
  <2> QED
    BY <2>1, <2>2
<1>5. photo' \in [Subject -> Photo]
  BY DEF UpsertPoliticiansFromTSE, StoreTypeOK, Photo
<1> QED
  BY <1>3, <1>4, <1>5 DEF StoreTypeOK, Politician

\* Politicians come and are renamed: none is forgotten.
LEMMA ImportInv ==
  ASSUME LinksInv, NEW r \in Rows, ImportPolitician(r)
  PROVE  LinksInv'
<1> USE DEF LinksInv, store
<1>1. UNCHANGED <<persons, edges, reviews, tombstones, link, op, exposed>>
  BY DEF ImportPolitician
<1>2. (CHOOSE y \in Year : TRUE) \in Year
  BY PoliticianStoreAssumption
<1>3. StoreTypeOK' /\ \A c \in Cpf : pol[c].known => pol'[c].known
  BY <1>2, ImportKnows DEF ImportPolitician, TypeOK
<1>4. /\ \A e \in edges : e.cpf \in Cpf
      /\ \A i \in DOMAIN reviews : reviews[i] \in Review /\ reviews[i].cpf \in Cpf
      /\ link.at \subseteq Cpf /\ \A m \in link.matches : m[1] \in Cpf
  <2>1. \A i \in DOMAIN reviews : reviews[i] \in Review
    BY ElementOfSeq DEF TypeOK
  <2> QED
    BY <2>1 DEF TypeOK, Edge, Review, LinkState
<1>5. TypeOK'
  BY <1>1, <1>3, <1>4 DEF TypeOK
<1>6. AllKnown'
  BY <1>1, <1>3, <1>4 DEF AllKnown
<1>7. Hands' /\ InHandEvidence' /\ Scored' /\ Alone' /\ FirstOfPair' /\ InHandExposed'
  BY <1>1 DEF Hands, InHandEvidence, Scored, Alone, FirstOfPair, HasSanctionReview, InHandExposed
<1>8. LinkHasEvidence' /\ OneLinkPerMask' /\ FiledOnce' /\ PersonStaysOut'
  BY <1>1 DEF LinkHasEvidence, OneLinkPerMask, FiledOnce, PersonStaysOut
<1> QED
  BY <1>5, <1>6, <1>7, <1>8

\* An operator who takes a row up, or lets go of what was begun.
LEMMA TakenUpInv ==
  ASSUME LinksInv, (\E i \in DOMAIN reviews : ApprovePoliticianSanction(i)) \/ OperatorFails
  PROVE  LinksInv'
<1> USE DEF LinksInv, store, bounds
<1>1. UNCHANGED <<pol, photo, store, link, exposed>>
  BY DEF ApprovePoliticianSanction, OperatorFails
<1>2. op' \in OpState /\ (op'.pc \in {"edge", "mark"} => op'.review \in DOMAIN reviews)
  <2>1. DOMAIN reviews \subseteq Nat
    BY LenProperties DEF TypeOK
  <2> QED
    BY <2>1, Placeholders DEF ApprovePoliticianSanction, OperatorFails, OpState, NoOp
<1>3. TypeOK' /\ Hands'
  BY <1>1, <1>2 DEF TypeOK, StoreTypeOK, Hands
<1>4. AllKnown' /\ InHandEvidence' /\ Scored' /\ Alone' /\ FirstOfPair' /\ InHandExposed'
  BY <1>1 DEF AllKnown, InHandEvidence, Scored, Alone, FirstOfPair, HasSanctionReview, InHandExposed
<1>5. LinkHasEvidence' /\ OneLinkPerMask' /\ FiledOnce' /\ PersonStaysOut'
  BY <1>1 DEF LinkHasEvidence, OneLinkPerMask, FiledOnce, PersonStaysOut
<1> QED
  BY <1>3, <1>4, <1>5

\* An operator links what a row says.
LEMMA ConfirmEdgeInv == ASSUME LinksInv, ConfirmEdge PROVE LinksInv'
<1> USE DEF LinksInv, store, bounds
<1> DEFINE v == reviews[op.review]
<1>1. op.review \in DOMAIN reviews /\ v \in Review /\ pol[v.cpf].known
  BY ElementOfSeq DEF ConfirmEdge, Hands, TypeOK, AllKnown
<1>2. /\ edges \subseteq edges'
      /\ \A e \in edges' \ edges :
           e = [label |-> "Politician", cpf |-> v.cpf, sanction |-> v.sanction, by |-> "human"]
  BY LinkedEdges DEF ConfirmEdge
<1>3. edges' \subseteq Edge
  BY <1>1, LinkedType DEF ConfirmEdge, TypeOK, Review
<1>4. UNCHANGED <<pol, photo, persons, reviews, tombstones, link, exposed>>
      /\ op' = [op EXCEPT !.pc = "mark"]
  BY DEF ConfirmEdge
<1>5. TypeOK'
  BY <1>1, <1>2, <1>3, <1>4 DEF TypeOK, StoreTypeOK, OpState
<1>6. Hands' /\ AllKnown' /\ InHandEvidence' /\ FirstOfPair' /\ InHandExposed'
  BY <1>1, <1>4 DEF Hands, TypeOK, OpState, AllKnown, InHandEvidence, FirstOfPair,
                    HasSanctionReview, InHandExposed
<1>7. LinkHasEvidence'
  BY <1>1, <1>2, <1>4 DEF LinkHasEvidence
<1>8. Scored' /\ Alone' /\ OneLinkPerMask'
  BY <1>2, <1>4 DEF Scored, Alone, OneLinkPerMask
<1>9. FiledOnce' /\ PersonStaysOut'
  BY <1>4 DEF FiledOnce, PersonStaysOut
<1> QED
  BY <1>5, <1>6, <1>7, <1>8, <1>9

\* A decision changes the status of a row and not what it is about.
LEMMA DecidedInv ==
  ASSUME LinksInv, FinishEdgeApproval \/ \E i \in DOMAIN reviews : Reject(i)
  PROVE  LinksInv'
<1> USE DEF LinksInv, store, bounds
<1>1. PICK i \in DOMAIN reviews, st \in {"approved", "rejected"} :
        reviews' = [reviews EXCEPT ![i].status = st]
  BY DEF FinishEdgeApproval, Reject, Hands
<1>2. UNCHANGED <<pol, photo, persons, edges, tombstones, link, exposed>> /\ op' \in {op, NoOp}
  BY DEF FinishEdgeApproval, Reject, Act
<1>3. reviews' \in Seq(Review) /\ DOMAIN reviews' = DOMAIN reviews
  <2>1. reviews[i] \in Review
    BY ElementOfSeq DEF TypeOK
  <2>2. [reviews[i] EXCEPT !.status = st] \in Review
    BY <2>1 DEF Review
  <2> QED
    BY <2>2, <1>1, ExceptSeq DEF TypeOK
<1>4. \A j \in DOMAIN reviews : reviews'[j].sanction = reviews[j].sanction
                                /\ reviews'[j].cpf = reviews[j].cpf
  <2>1. \A j \in DOMAIN reviews : reviews[j] \in Review
    BY ElementOfSeq DEF TypeOK
  <2> QED
    BY <2>1, <1>1 DEF Review
<1>5. TypeOK'
  BY <1>2, <1>3, Placeholders DEF TypeOK, StoreTypeOK
<1>6. Hands' /\ AllKnown'
  BY <1>2, <1>3, <1>4 DEF Hands, AllKnown, NoOp
<1>7. InHandEvidence' /\ Scored' /\ Alone' /\ InHandExposed'
  BY <1>2 DEF InHandEvidence, Scored, Alone, InHandExposed
<1>8. FirstOfPair' /\ FiledOnce'
  BY <1>2, <1>3, <1>4 DEF FirstOfPair, FiledOnce, HasSanctionReview
<1>9. LinkHasEvidence'
  BY <1>2, <1>3, <1>4 DEF LinkHasEvidence
<1>10. OneLinkPerMask' /\ PersonStaysOut'
  BY <1>2 DEF OneLinkPerMask, PersonStaysOut
<1> QED
  BY <1>5, <1>6, <1>7, <1>8, <1>9, <1>10

\* A purge deletes a Person, and none of the politicians.
LEMMA PurgePersonInv ==
  ASSUME LinksInv, NEW c \in Cpf, PurgePersonNode(c)
  PROVE  LinksInv'
<1> USE DEF LinksInv, store, bounds
<1>1. /\ UNCHANGED <<pol, photo, reviews, tombstones, link, exposed>>
      /\ persons' = persons \ {c}
      /\ edges' = {e \in edges : ~(e.label = "Person" /\ e.cpf = c)}
      /\ op' = [NoOp EXCEPT !.pc = "tomb", !.cpf = {c}]
  BY DEF PurgePersonNode
<1>2. TypeOK'
  BY <1>1, Placeholders DEF TypeOK, StoreTypeOK, OpState
<1>3. Hands' /\ AllKnown' /\ InHandEvidence' /\ Scored' /\ FirstOfPair' /\ InHandExposed'
  BY <1>1 DEF Hands, NoOp, AllKnown, InHandEvidence, Scored, FirstOfPair, HasSanctionReview,
              InHandExposed
<1>4. Alone' /\ LinkHasEvidence' /\ OneLinkPerMask'
  BY <1>1 DEF Alone, LinkHasEvidence, OneLinkPerMask
<1>5. FiledOnce' /\ PersonStaysOut'
  BY <1>1 DEF FiledOnce, PersonStaysOut
<1> QED
  BY <1>2, <1>3, <1>4, <1>5

\* The tombstone exposes the CPF the worker has cleared and not written yet.
LEMMA TombstonesInv == ASSUME LinksInv, CreatePurgeTombstones PROVE LinksInv'
<1> USE DEF LinksInv, store, bounds
<1>1. /\ UNCHANGED <<pol, photo, persons, edges, reviews, link>>
      /\ op' = NoOp
      /\ exposed' = exposed \cup (op.cpf \cap (persons \cup
                      IF link.pc \in {"find", "create"} THEN link.at ELSE {}))
  BY DEF CreatePurgeTombstones
<1>2. op.cpf \subseteq Cpf /\ (link.pc \in {"find", "create"} => link.at \subseteq Cpf)
  BY DEF TypeOK, OpState, LinkState
<1>3. UNION {PersonName(c) : c \in op.cpf} \subseteq Name
  BY SanctionLinksAssumption DEF PersonName, Record
<1>4. tombstones' \subseteq Cpf \cup Name /\ tombstones' \cap Cpf \subseteq tombstones \cup op.cpf
  BY <1>2, <1>3, SanctionLinksAssumption DEF CreatePurgeTombstones, TypeOK
<1>5. TypeOK'
  BY <1>1, <1>2, <1>4, Placeholders DEF TypeOK, StoreTypeOK
<1>6. PersonStaysOut'
  BY <1>1, <1>4 DEF PersonStaysOut, TypeOK
<1>7. InHandExposed'
  BY <1>1, <1>2, <1>4 DEF InHandExposed
<1>8. Hands' /\ AllKnown' /\ InHandEvidence' /\ Scored' /\ Alone' /\ FirstOfPair'
  BY <1>1 DEF Hands, NoOp, AllKnown, InHandEvidence, Scored, Alone, FirstOfPair, HasSanctionReview
<1>9. LinkHasEvidence' /\ OneLinkPerMask' /\ FiledOnce'
  BY <1>1 DEF LinkHasEvidence, OneLinkPerMask, FiledOnce
<1> QED
  BY <1>5, <1>6, <1>7, <1>8, <1>9

-------------------------------------------------------------------------------
(* Theorems.                                                               *)

\* LinksInv holds at first.
LEMMA LinksInit == Init => LinksInv
<1> SUFFICES ASSUME Init PROVE LinksInv
  OBVIOUS
<1> USE DEF Init, NoLink, NoOp
<1>1. StoreTypeOK
  BY Placeholders DEF StoreInit, StoreTypeOK
<1>2. reviews = <<>> /\ <<>> \in Seq(Review) /\ DOMAIN reviews = {}
  OBVIOUS
<1>3. TypeOK
  BY <1>1, <1>2, Placeholders DEF TypeOK
<1>4. Hands /\ AllKnown /\ InHandEvidence /\ Scored /\ Alone /\ FirstOfPair /\ InHandExposed
  BY <1>2 DEF Hands, AllKnown, InHandEvidence, Scored, Alone, FirstOfPair, InHandExposed
<1>5. LinkHasEvidence /\ OneLinkPerMask /\ FiledOnce /\ PersonStaysOut
  BY <1>2 DEF LinkHasEvidence, OneLinkPerMask, FiledOnce, PersonStaysOut
<1> QED
  BY <1>3, <1>4, <1>5 DEF LinksInv

\* Every step keeps LinksInv.
LEMMA LinksStep == LinksInv /\ [Next]_vars => LinksInv'
<1> SUFFICES ASSUME LinksInv, [Next]_vars PROVE LinksInv'
  OBVIOUS
<1>1. CASE \E s \in Sanction : Begin(s)
  BY <1>1, LinkFullCPFInv, LinkMaskedCPFInv, LinkNameOnlyInv DEF Begin
<1>2. CASE LinkStep \/ LinkFails
  BY <1>2, FindSubjectInv, UpsertPersonInv, LinkByDocumentInv, EachMatchInv, QueueReviewInv,
     LinkByScoreInv, LinkEndInv DEF LinkStep
<1>3. CASE \E r \in Rows : ImportPolitician(r)
  BY <1>3, ImportInv
<1>4. CASE \E i \in DOMAIN reviews : ApprovePoliticianSanction(i) \/ Reject(i)
  BY <1>4, TakenUpInv, DecidedInv
<1>5. CASE \E c \in Cpf : PurgePersonNode(c)
  BY <1>5, PurgePersonInv
<1>6. CASE OperatorStep \/ OperatorFails
  BY <1>6, ConfirmEdgeInv, DecidedInv, TombstonesInv, TakenUpInv DEF OperatorStep
<1>7. CASE UNCHANGED vars
  BY <1>7 DEF vars, store, bounds, LinksInv, TypeOK, StoreTypeOK, Hands, AllKnown, InHandEvidence,
     Scored, Alone, FirstOfPair, HasSanctionReview, InHandExposed, LinkHasEvidence, OneLinkPerMask,
     FiledOnce, PersonStaysOut
<1> QED
  BY <1>1, <1>2, <1>3, <1>4, <1>5, <1>6, <1>7 DEF Next

\* The inductive invariant (the linking of the sanctions worker and the purge).
THEOREM LinksInvHolds == Spec => []LinksInv
  BY LinksInit, LinksStep, PTL DEF Spec

\* Edges, reviews, tombstones, the worker's and the operator's state keep their
\* types, and no edge is left behind by a purge (PurgePersonNode).
THEOREM TypeCorrect == Spec => []TypeOK
<1>1. LinksInv => TypeOK
  BY DEF LinksInv
<1> QED
  BY <1>1, LinksInvHolds, PTL

\* No politician is shown with a sanction on the strength of a name (Score).
THEOREM LinksHaveEvidence == Spec => []LinkHasEvidence
<1>1. LinksInv => LinkHasEvidence
  BY DEF LinksInv
<1> QED
  BY <1>1, LinksInvHolds, PTL

\* The worker links a mask to one politician at most, however many fit it in the
\* end (the cap of Score).
THEOREM MasksLinkOne == Spec => []OneLinkPerMask
<1>1. LinksInv => OneLinkPerMask
  BY DEF LinksInv
<1> QED
  BY <1>1, LinksInvHolds, PTL

\* A pair of sanction and politician is filed once (HasSanctionReview).
THEOREM PairsAreFiledOnce == Spec => []FiledOnce
<1>1. LinksInv => FiledOnce
  BY DEF LinksInv
<1> QED
  BY <1>1, LinksInvHolds, PTL

\* A purged person comes back only by a worker that had asked the tombstones
\* before they were written (linkFullCPF).
THEOREM PersonsStayOut == Spec => []PersonStaysOut
<1>1. LinksInv => PersonStaysOut
  BY DEF LinksInv
<1> QED
  BY <1>1, LinksInvHolds, PTL
===============================================================================
