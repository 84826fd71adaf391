--------------------- MODULE IngressGroupSharingProofs ----------------------
(* What TLAPS proves of what the Ingresses of IngressGroup share: that one   *)
(* LBService is never recorded by two groups, that the last Ingress to       *)
(* record a resource cleans it up, and that pools outlast their rules.  All  *)
(* three are of passes that read what the API server has (StaleReads =       *)
(* FALSE), which the code does not promise: the second is false of copies.   *)
(* The types it stands on are those of IngressGroupProofs.                   *)
EXTENDS IngressGroupProofs, FiniteSetTheorems

Own(a) == {e.key : e \in a.lbs} \ {Legacy}
HomeKey(i) == Identity(ing[i].group, i)

(* What is recorded on an Ingress is that of one group.  An ungrouped        *)
(* Ingress has nothing of another, and what is being deleted nothing of      *)
(* another group.                                                            *)
KeyInv ==
    \A i \in Ingresses :
       /\ \A k, l \in Own(ann[i]) : k = l
       /\ \A k \in Own(ann[i]) : k \in Identities /\ (k[1] = "" => k = HomeKey(i))
       /\ ~ing[i].there => ann[i] = NoAnnotations
       /\ ing[i].del => Own(ann[i]) \subseteq {HomeKey(i)}

(* Members of a pass that leave its group meanwhile are seen to have left.   *)
MemberInv ==
    pc \in Converging =>
       /\ w.left \subseteq w.members
       /\ \A m \in w.members :
             /\ ing[m].there
             /\ ing[m].del => w.owner = HomeKey(m)
             /\ w.owner = HomeKey(m) \/ HomeKey(m) \notin Own(ann[m])
             /\ w.owner[1] = "" => w.owner = HomeKey(m)

(* An LBService is recorded by the group whose name it has.                  *)
NameInv ==
    \A i \in Ingresses :
       LBVisible(ann[i].lb) => Own(ann[i]) = {lbs[ann[i].lb].name}

(* A pass starts from nothing but what its own group has recorded, and the   *)
(* LBService it has then found or created is that group's.                   *)
PassInv ==
    /\ pc \in {"finalizer", "lb"} => w.a = ann[w.on] /\ Own(w.a) \subseteq {w.owner}
    /\ pc \in AfterLB =>
          /\ Own(w.a) = {w.owner}
          /\ LBVisible(w.a.lb) => lbs[w.a.lb].name = w.owner
          /\ \A j \in Ingresses : ann[j].lb = w.a.lb => Own(ann[j]) = {w.owner}
ApartInv == KeyInv /\ MemberInv /\ NameInv /\ PassInv

(* A pass that reads what is there patches what it has read, and removes the *)
(* finalizer of what is being deleted.                                       *)
FreshInv ==
    /\ StaleReads = FALSE
    /\ pc = "finalizer" => w.a = ann[w.on]
    /\ pc \in Converging =>
          \A m \in IF pc \in {"persist", "publish"} THEN w.left ELSE w.members :
             w.base[m] = ann[m]
    /\ pc \in {"children", "clean", "unfinalize"} => w.why = "delete"
    /\ pc # "idle" /\ w.why = "delete" => ing[w.on].there /\ ing[w.on].del

LEMMA FreshReads == FreshInv => IngRead = ing /\ AnnRead = ann
BY DEF FreshInv, IngRead, AnnRead

(* What it writes is then what it has in hand.                               *)
LEMMA FreshWrites ==
    ASSUME FreshInv, TypeInv
    PROVE  /\ EnsureFinalizer => w' = w
           /\ PersistMember =>
                 \E m \in w.left :
                    /\ ing[m].there /\ ann' = [ann EXCEPT ![m] = w.a]
                    /\ w' = [w EXCEPT !.left = w.left \ {m}, !.at = m, !.base[m] = NoAnnotations]
           /\ RemoveFinalizer => /\ ing' = [ing EXCEPT ![w.on] = Absent]
                                 /\ ann' = [ann EXCEPT ![w.on] = NoAnnotations]
<1>1. w \in Work /\ w.a \in Annotations /\ ann \in [Ingresses -> Annotations]
  BY WorkParts DEF TypeInv, TypeOK, StateTypeOK
<1>2. EnsureFinalizer => w' = w
  BY <1>1 DEF EnsureFinalizer, FreshInv, Work
<1>3. ASSUME PersistMember
      PROVE  \E m \in w.left :
                /\ ing[m].there /\ ann' = [ann EXCEPT ![m] = w.a]
                /\ w' = [w EXCEPT !.left = w.left \ {m}, !.at = m, !.base[m] = NoAnnotations]
  <2>1. PICK m \in w.left :
           /\ ing[m].there
           /\ ann' = [ann EXCEPT ![m] = Patched(w.a, w.base[m], ann[m])]
           /\ w' = [w EXCEPT !.left = w.left \ {m}, !.at = m, !.base[m] = NoAnnotations]
    BY <1>3 DEF PersistMember
  <2>2. m \in Ingresses /\ w.base[m] \in Annotations /\ ann[m] \in Annotations
    BY <1>1, <2>1 DEF Work
  <2>3. w.base[m] = ann[m]
    BY <1>3, <2>1 DEF FreshInv, PersistMember, Converging, AfterLB
  <2>4. Patched(w.a, w.base[m], ann[m]) = w.a
    BY <1>1, <2>2, <2>3, PatchedType
  <2> QED
    BY <2>1, <2>4
<1>4. RemoveFinalizer => /\ ing' = [ing EXCEPT ![w.on] = Absent]
                         /\ ann' = [ann EXCEPT ![w.on] = NoAnnotations]
  BY DEF RemoveFinalizer, FreshInv
<1> QED
  BY <1>2, <1>3, <1>4

(* The nothing recorded is nobody's.                                         *)
LEMMA NothingRecorded ==
    /\ Own(NoAnnotations) = {} /\ NoAnnotations.lb = NoId /\ NoAnnotations.vs = {}
    /\ ~LBVisible(NoAnnotations.lb)
BY DEF Own, NoAnnotations, LBVisible

(* How the annotations change.                                               *)
LEMMA AnnSteps ==
    ASSUME FreshInv, TypeInv, [Next]_vars
    PROVE  \/ UNCHANGED ann
           \/ /\ PersistMember /\ pc = "persist" /\ pc' = "publish" /\ UNCHANGED <<ing, lbs>>
              /\ \E m \in w.left :
                    /\ ing[m].there /\ ann' = [ann EXCEPT ![m] = w.a]
                    /\ w' = [w EXCEPT !.left = w.left \ {m}, !.at = m, !.base[m] = NoAnnotations]
           \/ /\ StripObserved \/ RemoveFinalizer
              /\ pc' = "idle" /\ UNCHANGED lbs
              /\ ann' = [ann EXCEPT ![w.on] = NoAnnotations]
<1>1. CASE PersistMember
  <2>1. pc = "persist" /\ pc' = "publish" /\ UNCHANGED <<ing, lbs>>
    BY <1>1 DEF PersistMember
  <2> QED
    BY <1>1, <2>1, FreshWrites
<1>2. CASE StripObserved
  BY <1>2 DEF StripObserved, EndPass
<1>3. CASE RemoveFinalizer
  <2>1. pc' = "idle" /\ UNCHANGED lbs
    BY <1>3 DEF RemoveFinalizer, EndPass
  <2> QED
    BY <1>3, <2>1, FreshWrites
<1> QED
  BY <1>1, <1>2, <1>3, AnnWriters

(* How LBServices get and keep their names.                                  *)
LEMMA LBNames ==
    ASSUME TypeInv, [Next]_vars, NEW l \in LbIds, lbs'[l].st # "absent"
    PROVE  \/ lbs[l].st # "absent" /\ lbs'[l].name = lbs[l].name
           \/ CreateLB /\ l \in FreeLBs /\ lbs'[l].name = w.owner
<1>1. lbs \in [LbIds -> LBRecord] /\ lbs[l] \in LBRecord
  BY DEF TypeInv, TypeOK, StateTypeOK
<1>2. CASE CreateLB
  <2>1. PICK k \in LbIds, st \in {"ready", "pending"} :
           k \in FreeLBs /\ lbs' = [lbs EXCEPT ![k] = [NoLB EXCEPT !.st = st, !.name = w.owner]]
    BY <1>2 DEF CreateLB, IsNext
  <2>2. [NoLB EXCEPT !.st = st, !.name = w.owner].name = w.owner
    BY DEF NoLB
  <2> QED
    BY <1>1, <1>2, <2>1, <2>2
<1>3. CASE UploadCertificate
  <2>1. PICK x \in CertIds :
           lbs' = [lbs EXCEPT ![w.a.lb].certs = @ \cup
                     {[name |-> CertNow, version |-> w.material[CertNow], id |-> x]}]
    BY <1>3 DEF UploadCertificate
  <2> QED
    BY <1>1, <2>1 DEF LBRecord
<1>4. CASE DeleteCertificate
  BY <1>1, <1>4 DEF DeleteCertificate, LBRecord
<1>5. CASE CleanParents
  BY <1>1, <1>5 DEF CleanParents, LBRecord
<1>6. CASE \E k \in LbIds : LBReady(k) \/ LBGone(k)
  BY <1>1, <1>6 DEF LBReady, LBGone, LBRecord, NoLB
<1> QED
  BY <1>2, <1>3, <1>4, <1>5, <1>6, LBWriters

(* What a pass starts from.                                                  *)
LEMMA StartWork ==
    ASSUME FreshInv, TypeInv, NEW i \in Ingresses, NEW why, NEW next, NEW owner, NEW members,
           Start(i, why, next, owner, members)
    PROVE  /\ pc = "idle" /\ pc' = next /\ UNCHANGED <<ing, ann, lbs, vips, vss, fault>>
           /\ w'.on = i /\ w'.why = why /\ w'.owner = owner /\ w'.members = members
           /\ w'.left = members /\ w'.a = ann[i]
           /\ \A j \in Ingresses \cap members : w'.base[j] = ann[j]
<1> DEFINE t == {j \in members : IngRead[j].tls}
           m == [j \in Ingresses |-> IF why = "ensure" /\ j \in members
                                     THEN IngRead[j].secret ELSE NoMaterial]
           b == [j \in Ingresses |-> IF j \in members THEN AnnRead[j] ELSE NoAnnotations]
<1>1. /\ w' = [IdleWork EXCEPT !.on = i, !.why = why, !.owner = owner, !.members = members,
                               !.tls = t, !.material = m, !.base = b,
                               !.a = AnnRead[i], !.left = members]
      /\ pc = "idle" /\ pc' = next /\ UNCHANGED <<ing, ann, lbs, vips, vss, fault>>
  BY Zenon DEF Start, Dequeue
<1>2. \A j \in Ingresses \cap members : b[j] = ann[j]
  BY FreshReads
<1> HIDE DEF t, m, b
<1> QED
  BY <1>1, <1>2, FreshReads DEF IdleWork

(* A pass that shall make a group converge has as members Ingresses of that  *)
(* group, none of them being deleted, and starts from what one of them, or   *)
(* the one that leaves, has recorded of it.                                  *)
LEMMA BeginConverging ==
    ASSUME FreshInv, TypeInv, KeyInv, NEW i \in Ingresses, Take(i), pc' \in Converging
    PROVE  \/ UNCHANGED <<pc, w>>
           \/ /\ pc' \in {"finalizer", "lb"}
              /\ w'.left = w'.members /\ w'.on = i /\ w'.a = ann[i] /\ Own(ann[i]) \subseteq {w'.owner}
              /\ w'.members \subseteq Ingresses
              /\ \A m \in w'.members : Live(m) /\ HomeKey(m) = w'.owner /\ w'.base[m] = ann[m]
              /\ w'.why = "delete" => ing[i].there /\ ing[i].del
<1>1. /\ ing \in [Ingresses -> Object]
      /\ \A j \in Ingresses : ing[j].group \in Groups
  BY DEF TypeInv, TypeOK, StateTypeOK, Object
<1>2. \A k \in Own(ann[i]) : k \in Identities /\ k # Legacy
  BY LegacyIsNobody DEF KeyInv, Own
<1>3. \A k, l \in Own(ann[i]) : k = l
  BY DEF KeyInv
<1>4. ASSUME NEW g \in ObservedGroups(i)
      PROVE  (Own(ann[i]) = {} /\ g = "") \/ \E k \in Own(ann[i]) : k[1] = g
  BY <1>4, FreshReads DEF ObservedGroups, Own
<1>5. ASSUME NEW g \in Groups, NEW m \in LiveIn(ing, g), g # ""
      PROVE  Live(m) /\ HomeKey(m) = Identity(g, i) /\ m \in Ingresses
  BY <1>5 DEF LiveIn, Live, HomeKey, Identity
<1>6. CASE BeginEnsure(i)
  <2>1. PICK g \in ObservedGroups(i) : Live(i) /\ ~Left(i, g)
    BY <1>6, FreshReads DEF BeginEnsure, Live
  <2>2. Own(ann[i]) \subseteq {HomeKey(i)}
    <3>1. SUFFICES ASSUME NEW k \in Own(ann[i]) PROVE k = HomeKey(i)
      OBVIOUS
    <3>2. k[1] = g
      BY <1>3, <1>4, <2>1
    <3>3. CASE k[1] = ""
      BY <3>3 DEF KeyInv
    <3>4. CASE k[1] # ""
      <4>1. g = ing[i].group
        BY <2>1, <3>2, <3>4, FreshReads DEF Left
      <4> QED
        BY <1>2, <3>2, <3>4, <4>1, IdentityParts DEF HomeKey
    <3> QED
      BY <3>3, <3>4
  <2>3. \A m \in GroupMembers(ing, i) : m \in Ingresses /\ Live(m) /\ HomeKey(m) = HomeKey(i)
    BY <1>1, <1>5, <2>1 DEF GroupMembers, HomeKey
  <2>4. Start(i, "ensure", IF ing[i].fin THEN "lb" ELSE "finalizer", HomeKey(i), GroupMembers(ing, i))
    BY <1>6, FreshReads DEF BeginEnsure, HomeKey
  <2> QED
    BY <2>2, <2>3, <2>4, StartWork
<1>7. CASE BeginLeave(i)
  <2>1. PICK g \in ObservedGroups(i) :
           /\ Left(i, g)
           /\ Start(i, "leave", IF LiveIn(ing, g) \ {i} = {} THEN "strip" ELSE "lb",
                    Identity(g, i), LiveIn(ing, g) \ {i})
    BY <1>7, FreshReads DEF BeginLeave
  <2>2. g # ""
    BY <2>1 DEF Left
  <2>3. \A k \in Own(ann[i]) : k = Identity(g, i) /\ g \in Groups
    BY <1>2, <1>3, <1>4, <2>1, <2>2, IdentityParts
  <2>4. \A m \in LiveIn(ing, g) : m \in Ingresses /\ Live(m) /\ HomeKey(m) = Identity(g, i)
    BY <2>2 DEF LiveIn, Live, HomeKey, Identity
  <2>5. pc' # "strip"
    BY DEF Converging, AfterLB, ListenerCalls
  <2> QED
    BY <2>1, <2>3, <2>4, <2>5, StartWork
<1>8. CASE BeginDepart(i)
  <2>1. Own(ann[i]) \subseteq {HomeKey(i)}
    BY <1>8, FreshReads DEF BeginDepart, KeyInv
  <2>2. \A m \in Remaining(i) : m \in Ingresses /\ Live(m) /\ HomeKey(m) = HomeKey(i)
    BY <1>1, <1>5, FreshReads DEF Remaining, HomeKey
  <2>3. Start(i, "delete", "lb", HomeKey(i), Remaining(i)) /\ ing[i].there /\ ing[i].del
    BY <1>8, FreshReads DEF BeginDepart, HomeKey
  <2> QED
    BY <2>1, <2>2, <2>3, StartWork
<1>9. CASE Ignore(i)
  BY <1>9 DEF Ignore
<1>10. CASE BeginCleanup(i)
  BY <1>10 DEF BeginCleanup, Converging, AfterLB, ListenerCalls
<1> QED
  BY <1>6, <1>7, <1>8, <1>9, <1>10 DEF Take

-----------------------------------------------------------------------------
(* An Ingress that is new is there, and nobody has yet deleted it or had it  *)
(* reconciled.                                                               *)
LEMMA NewObjectParts ==
    \A i \in Ingresses, g \in Groups :
       NewObject(i, g).there /\ ~NewObject(i, g).del /\ ~NewObject(i, g).fin
<1>1. \A g \in Groups, b \in BOOLEAN :
         LET o == [Absent EXCEPT !.there = TRUE, !.group = g, !.tls = b]
         IN  o.there /\ ~o.del /\ ~o.fin
  BY DEF Absent
<1>2. \A i : (i \in TLS) \in BOOLEAN
  OBVIOUS
<1> QED
  BY <1>1, <1>2, Zenon DEF NewObject

(* What a user does to an Ingress.                                           *)
LEMMA UserSteps ==
    ASSUME TypeInv, User
    PROVE  /\ UNCHANGED <<ann, pc, w, lbs, vips, vss, fault>>
           /\ \E i \in Ingresses :
                 /\ \A j \in Ingresses \ {i} : ing'[j] = ing[j]
                 /\ \/ ~ing[i].there /\ ing'[i].there /\ ~ing'[i].del
                    \/ /\ ing[i].there /\ ~ing[i].del
                       /\ ing'[i].there /\ ing'[i].group = ing[i].group
                       /\ Settled(i) /\ ing'[i].fin = ing[i].fin
                    \/ /\ ing[i].there /\ ~ing[i].del
                       /\ ing'[i].there /\ ~ing'[i].del /\ ing'[i].fin = ing[i].fin
                       /\ <<ing[i].group, ing'[i].group>> \in Moves /\ Settled(i)
<1>1. ing \in [Ingresses -> Object]
  BY DEF TypeInv, TypeOK, StateTypeOK
<1>2. PICK i \in Ingresses :
         DeleteIngress(i) \/ EditTLS(i) \/ RotateSecret(i)
         \/ \E g \in Groups : CreateIngress(i, g) \/ MoveIngress(i, g)
  BY DEF User
<1>3. UNCHANGED <<ann, pc, w, lbs, vips, vss>>
  BY <1>2 DEF DeleteIngress, EditTLS, RotateSecret, CreateIngress, MoveIngress, Change
<1>4. UNCHANGED fault
  BY <1>2 DEF DeleteIngress, EditTLS, RotateSecret, CreateIngress, MoveIngress, Change
<1>5. CASE DeleteIngress(i)
  <2>1. ing' = [ing EXCEPT ![i].del = TRUE] /\ Live(i) /\ Settled(i)
    BY <1>5 DEF DeleteIngress
  <2> QED
    BY <1>1, <1>3, <1>4, <2>1 DEF Object, Live
<1>6. CASE EditTLS(i)
  <2>1. ing' = [ing EXCEPT ![i].tls = ~@] /\ Live(i) /\ Settled(i)
    BY <1>6 DEF EditTLS
  <2>2. PICK b : ing' = [ing EXCEPT ![i].tls = b]
    BY <2>1
  <2>3. /\ \A j \in Ingresses \ {i} : ing'[j] = ing[j]
        /\ ing'[i].there /\ ing'[i].group = ing[i].group /\ ing'[i].fin = ing[i].fin
    BY <1>1, <2>1, <2>2 DEF Object, Live
  <2> QED
    BY <1>3, <1>4, <2>1, <2>3 DEF Live
<1>7. CASE RotateSecret(i)
  <2>1. PICK v : ing' = [ing EXCEPT ![i].secret = v] /\ Live(i) /\ Settled(i)
    BY <1>7 DEF RotateSecret
  <2> QED
    BY <1>1, <1>3, <1>4, <2>1 DEF Object, Live
<1>8. CASE \E g \in Groups : CreateIngress(i, g)
  <2>1. PICK g \in Groups : ing' = [ing EXCEPT ![i] = NewObject(i, g)] /\ ~ing[i].there
    BY <1>8 DEF CreateIngress
  <2> QED
    BY <1>1, <1>3, <1>4, <2>1, NewObjectParts
<1>9. CASE \E g \in Groups : MoveIngress(i, g)
  <2>1. PICK g \in Groups :
           /\ ing' = [ing EXCEPT ![i].group = g] /\ ing[i].there /\ ~ing[i].del /\ Settled(i)
           /\ <<ing[i].group, g>> \in Moves
    BY <1>9 DEF MoveIngress, Live
  <2> QED
    BY <1>1, <1>3, <1>4, <2>1 DEF Object, Live
<1> QED
  BY <1>2, <1>5, <1>6, <1>7, <1>8, <1>9

(* How the Ingresses change.                                                 *)
LEMMA IngSteps ==
    ASSUME FreshInv, TypeInv, [Next]_vars
    PROVE  \/ UNCHANGED ing
           \/ /\ EnsureFinalizer /\ UNCHANGED <<ann, w, lbs>> /\ ing[w.on].there
              /\ pc = "finalizer" /\ pc' = "lb"
              /\ \A j \in Ingresses : /\ ing'[j].there = ing[j].there /\ ing'[j].del = ing[j].del
                                      /\ ing'[j].group = ing[j].group
           \/ /\ RemoveFinalizer /\ pc = "unfinalize" /\ pc' = "idle" /\ UNCHANGED lbs
              /\ ing' = [ing EXCEPT ![w.on] = Absent]
              /\ ann' = [ann EXCEPT ![w.on] = NoAnnotations]
           \/ User
<1>1. ing \in [Ingresses -> Object]
  BY DEF TypeInv, TypeOK, StateTypeOK
<1>2. CASE EnsureFinalizer
  <2>1. /\ ing' = [ing EXCEPT ![w.on].fin = TRUE] /\ ing[w.on].there
        /\ UNCHANGED <<ann, w, lbs>> /\ pc = "finalizer" /\ pc' = "lb"
    BY <1>2, FreshWrites DEF EnsureFinalizer
  <2> QED
    BY <1>1, <1>2, <2>1 DEF Object
<1>3. CASE RemoveFinalizer
  <2>1. pc = "unfinalize" /\ pc' = "idle" /\ UNCHANGED lbs
    BY <1>3 DEF RemoveFinalizer, EndPass
  <2> QED
    BY <1>3, <2>1, FreshWrites
<1> QED
  BY <1>2, <1>3, IngWriters

(* A settled Ingress has recorded its own group, and so no other.            *)
LEMMA SettledOwn ==
    ASSUME TypeInv, KeyInv, NEW i \in Ingresses, Settled(i)
    PROVE  Own(ann[i]) = {HomeKey(i)}
<1>1. ing[i].group \in Groups
  BY DEF TypeInv, TypeOK, StateTypeOK, Object
<1>2. HomeKey(i) # Legacy
  BY <1>1, IdentityType, LegacyIsNobody DEF HomeKey
<1>3. \E e \in ann[i].lbs : e.key = HomeKey(i)
  BY DEF Settled, HomeKey
<1>4. HomeKey(i) \in Own(ann[i])
  BY <1>2, <1>3 DEF Own
<1>5. \A k \in Own(ann[i]) : k = HomeKey(i)
  BY <1>4 DEF KeyInv
<1> QED
  BY <1>4, <1>5

(* Users and the pass keep what is recorded that of one group, as long as    *)
(* an Ingress that is given a new group had one before.                      *)
LEMMA KeyStep ==
    ASSUME FreshInv, TypeInv, ApartInv, [Next]_vars, \A m \in Moves : m[1] # ""
    PROVE  KeyInv'
<1> SUFFICES ASSUME NEW i \in Ingresses
             PROVE  /\ \A k, l \in Own(ann'[i]) : k = l
                    /\ \A k \in Own(ann'[i]) :
                          k \in Identities /\ (k[1] = "" => k = Identity(ing'[i].group, i))
                    /\ ~ing'[i].there => ann'[i] = NoAnnotations
                    /\ ing'[i].del => Own(ann'[i]) \subseteq {Identity(ing'[i].group, i)}
  BY DEF KeyInv, HomeKey, Own
<1>1. /\ \A k, l \in Own(ann[i]) : k = l
      /\ \A k \in Own(ann[i]) : k \in Identities /\ (k[1] = "" => k = HomeKey(i))
      /\ ~ing[i].there => ann[i] = NoAnnotations
      /\ ing[i].del => Own(ann[i]) \subseteq {HomeKey(i)}
  BY DEF ApartInv, KeyInv
<1>2. ann \in [Ingresses -> Annotations] /\ ing \in [Ingresses -> Object]
  BY DEF TypeInv, TypeOK, StateTypeOK
<1>3. CASE UNCHANGED <<ing, ann>>
  BY <1>1, <1>3 DEF HomeKey
<1>4. CASE EnsureFinalizer
  <2>1. /\ UNCHANGED ann /\ ing'[i].there = ing[i].there /\ ing'[i].del = ing[i].del
        /\ ing'[i].group = ing[i].group
    <3>1. UNCHANGED ann /\ ing' = [ing EXCEPT ![w.on].fin = TRUE]
      BY <1>4 DEF EnsureFinalizer
    <3> QED
      BY <1>2, <3>1 DEF Object
  <2> QED
    BY <1>1, <2>1 DEF HomeKey
<1>5. CASE User
  <2>1. UNCHANGED ann
    BY <1>5, UserSteps
  <2>2. CASE ing'[i] = ing[i]
    BY <1>1, <2>1, <2>2 DEF HomeKey
  <2>3. CASE ~ing[i].there /\ ing'[i].there /\ ~ing'[i].del
    BY <1>1, <2>1, <2>3, NothingRecorded
  <2>4. CASE ing[i].there /\ ing'[i].there /\ ing'[i].group = ing[i].group /\ Settled(i)
    BY <1>1, <2>1, <2>4, SettledOwn DEF HomeKey, ApartInv
  <2>5. CASE /\ ing[i].there /\ ing'[i].there /\ ~ing'[i].del
             /\ <<ing[i].group, ing'[i].group>> \in Moves /\ Settled(i)
    <3>1. ing[i].group # ""
      BY <2>5
    <3>2. HomeKey(i)[1] # ""
      BY <3>1 DEF HomeKey, Identity
    <3>3. Own(ann[i]) = {HomeKey(i)}
      BY <2>5, SettledOwn DEF ApartInv
    <3> QED
      BY <1>1, <2>1, <2>5, <3>2, <3>3
  <2> QED
    BY <1>5, <2>2, <2>3, <2>4, <2>5, UserSteps
<1>6. CASE PersistMember /\ ~UNCHANGED ann
  <2>1. PICK m \in w.left :
           pc = "persist" /\ UNCHANGED ing /\ ing[m].there /\ ann' = [ann EXCEPT ![m] = w.a]
    BY <1>6, FreshWrites DEF PersistMember
  <2>2. pc \in AfterLB /\ pc \in Converging
    BY <2>1 DEF AfterLB, Converging
  <2>3. Own(w.a) = {w.owner} /\ w.owner \in Identities
    BY <2>2 DEF ApartInv, PassInv, TypeInv, InHand
  <2>4. m \in w.members /\ (ing[m].del => w.owner = HomeKey(m))
        /\ (w.owner[1] = "" => w.owner = HomeKey(m))
    BY <2>2 DEF ApartInv, MemberInv
  <2> QED
    BY <1>1, <1>2, <2>1, <2>3, <2>4 DEF HomeKey
<1>7. CASE StripObserved \/ RemoveFinalizer
  <2>1. ann' = [ann EXCEPT ![w.on] = NoAnnotations]
        /\ (UNCHANGED ing \/ ing' = [ing EXCEPT ![w.on] = Absent])
    BY <1>7, FreshWrites DEF StripObserved
  <2>2. CASE i = w.on
    BY <1>2, <2>1, <2>2, NothingRecorded
  <2>3. CASE i # w.on
    BY <1>1, <1>2, <2>1, <2>3 DEF HomeKey
  <2> QED
    BY <2>2, <2>3
<1> QED
  <2>1. CASE UNCHANGED ing
    BY <1>3, <1>6, <1>7, <2>1, AnnSteps
  <2> QED
    BY <1>4, <1>5, <1>7, <2>1, IngSteps

(* The LBService a pass goes on with was found, or it is new.                *)
Obtained(l) ==
    \/ l \in UsableLBs /\ lbs' = lbs /\ lbs[l].st = "ready"
    \/ /\ UsableLBs = {} /\ l \in FreeLBs
       /\ lbs'[l].st = "ready" /\ lbs'[l].name = w.owner
       /\ \A k \in LbIds \ {l} : lbs'[k] = lbs[k]

(* A pass that goes on behind the LBService came from there, or has just     *)
(* found or created the LBService.                                           *)
LEMMA WorkerFrom ==
    ASSUME FreshInv, TypeInv, Worker, pc' \in Converging
    PROVE  \/ pc = "finalizer" /\ EnsureFinalizer /\ pc' = "lb" /\ w' = w
           \/ /\ pc = "lb" /\ pc' = "vip" /\ UNCHANGED <<ing, ann, vss>>
              /\ \E l \in LbIds : w' = [w EXCEPT !.a = WithLB(w.a, l)] /\ Obtained(l)
           \/ pc \in AfterLB /\ pc' \in AfterLB
<1>1. pc' \notin {"idle", "strip", "unfinalize", "children", "clean"}
  BY DEF Converging, AfterLB, ListenerCalls
<1>2. ~Return
  BY <1>1 DEF Return, EndPass
<1>3. CASE pc \in AfterLB
  BY <1>3, PassFrame
<1>4. CASE EnsureFinalizer
  BY <1>4, FreshWrites DEF EnsureFinalizer
<1>5. CASE GetLB
  <2>1. UsableLBs \subseteq LbIds
    <3>1. w.a.lb \in LbIds \cup {NoId}
      BY WorkParts DEF Annotations
    <3> QED
      BY <3>1 DEF UsableLBs, LBVisible
  <2>2. PICK l \in UsableLBs :
           lbs[l].st = "ready" /\ Continue("vip", [w EXCEPT !.a = WithLB(@, l)])
    BY <1>2, <1>5 DEF GetLB
  <2>3. w' = [w EXCEPT !.a = WithLB(w.a, l)] /\ pc' = "vip" /\ UNCHANGED <<ing, ann>>
    BY <2>2 DEF Continue
  <2>4. pc = "lb" /\ UNCHANGED <<lbs, vss>>
    BY <1>5 DEF GetLB, cmpVars
  <2> QED
    BY <2>1, <2>2, <2>3, <2>4 DEF Obtained
<1>6. CASE CreateLB
  <2>1. PICK l \in LbIds, st \in {"ready", "pending"} :
           /\ l \in FreeLBs /\ st = "ready"
           /\ lbs' = [lbs EXCEPT ![l] = [NoLB EXCEPT !.st = st, !.name = w.owner]]
           /\ Continue("vip", [w EXCEPT !.a = WithLB(@, l)])
    BY <1>2, <1>6 DEF CreateLB, IsNext
  <2>2. w' = [w EXCEPT !.a = WithLB(w.a, l)] /\ pc' = "vip" /\ UNCHANGED <<ing, ann>>
    BY <2>1 DEF Continue
  <2>3. pc = "lb" /\ UNCHANGED vss /\ UsableLBs = {}
    BY <1>6 DEF CreateLB
  <2>4. [NoLB EXCEPT !.st = st, !.name = w.owner].st = st
        /\ [NoLB EXCEPT !.st = st, !.name = w.owner].name = w.owner
    BY DEF NoLB
  <2>5. lbs'[l].st = "ready" /\ lbs'[l].name = w.owner /\ \A k \in LbIds \ {l} : lbs'[k] = lbs[k]
    <3>1. lbs \in [LbIds -> LBRecord]
      BY DEF TypeInv, TypeOK, StateTypeOK
    <3> QED
      BY <2>1, <2>4, <3>1
  <2> QED
    BY <2>1, <2>2, <2>3, <2>5 DEF Obtained
<1>7. CASE /\ pc \notin AfterLB
           /\ \/ StripObserved \/ RemoveFinalizer \/ CleanChildren \/ CleanListener \/ CleanParents
              \/ PassFails
  BY <1>1, <1>2, <1>7 DEF StripObserved, RemoveFinalizer, EndPass, CleanChildren, CleanListener,
     CleanParents, PassFails, Continue
<1>8. CASE pc \notin AfterLB /\ (PersistMember \/ PublishMember \/ (EnsureGroup /\ ~GetLB /\ ~CreateLB))
  BY <1>8 DEF AfterLB, ListenerCalls, PersistMember, PublishMember, EnsureGroup, KeepVIP, CreateVIP,
     KeepListener, RefuseListener, CreateListener, UploadCertificate, BindCertificate,
     UnbindCertificate, DeleteCertificate, KeepPool, CreatePool, KeepRule, CreateRule, DropRules,
     DeleteObsoletePools, DeleteObsoleteListeners
<1> QED
  BY <1>3, <1>4, <1>5, <1>6, <1>7, <1>8 DEF Worker

(* The members of a pass are there, and those that have left record no more  *)
(* what they recorded in the group they left.                                *)
LEMMA MemberStep ==
    ASSUME FreshInv, TypeInv, ApartInv, [Next]_vars, \A m \in Moves : m[1] # ""
    PROVE  MemberInv'
<1> SUFFICES ASSUME pc' \in Converging
             PROVE  /\ w'.left \subseteq w'.members
                    /\ \A m \in w'.members :
                          /\ ing'[m].there
                          /\ ing'[m].del => w'.owner = Identity(ing'[m].group, m)
                          /\ \/ w'.owner = Identity(ing'[m].group, m)
                             \/ Identity(ing'[m].group, m) \notin Own(ann'[m])
                          /\ w'.owner[1] = "" => w'.owner = Identity(ing'[m].group, m)
  BY DEF MemberInv, HomeKey, Own
<1>1. /\ ann \in [Ingresses -> Annotations] /\ ing \in [Ingresses -> Object]
      /\ w \in Work /\ w.members \subseteq Ingresses
  BY WorkParts DEF TypeInv, TypeOK, StateTypeOK
<1>2. CASE pc \in Converging /\ w'.members = w.members /\ w'.owner = w.owner
           /\ w'.left \subseteq w.members
  <2> SUFFICES ASSUME NEW m \in w.members
               PROVE  /\ ing'[m].there
                      /\ ing'[m].del => w.owner = Identity(ing'[m].group, m)
                      /\ \/ w.owner = Identity(ing'[m].group, m)
                         \/ Identity(ing'[m].group, m) \notin Own(ann'[m])
                      /\ w.owner[1] = "" => w.owner = Identity(ing'[m].group, m)
    BY <1>2
  <2>1. /\ ing[m].there /\ m \in Ingresses
        /\ ing[m].del => w.owner = HomeKey(m)
        /\ w.owner = HomeKey(m) \/ HomeKey(m) \notin Own(ann[m])
        /\ w.owner[1] = "" => w.owner = HomeKey(m)
    BY <1>1, <1>2 DEF ApartInv, MemberInv
  <2>2. CASE UNCHANGED <<ing, ann>>
    BY <2>1, <2>2 DEF HomeKey
  <2>3. CASE EnsureFinalizer
    <3>1. /\ UNCHANGED ann /\ ing'[m].there = ing[m].there /\ ing'[m].del = ing[m].del
          /\ ing'[m].group = ing[m].group
      <4>1. UNCHANGED ann /\ ing' = [ing EXCEPT ![w.on].fin = TRUE]
        BY <2>3 DEF EnsureFinalizer
      <4> QED
        BY <1>1, <2>1, <4>1 DEF Object
    <3> QED
      BY <2>1, <3>1 DEF HomeKey
  <2>4. CASE User
    <3>1. UNCHANGED ann
      BY <2>4, UserSteps
    <3>2. CASE ing'[m] = ing[m]
      BY <2>1, <3>1, <3>2 DEF HomeKey
    <3>3. CASE ing'[m].there /\ ing'[m].group = ing[m].group /\ Settled(m)
      <4>1. w.owner = HomeKey(m)
        BY <2>1, <3>3, SettledOwn DEF ApartInv
      <4> QED
        BY <3>3, <4>1 DEF HomeKey
    <3>4. CASE ing'[m].there /\ ~ing'[m].del /\ <<ing[m].group, ing'[m].group>> \in Moves /\ Settled(m)
      <4>1. HomeKey(m)[1] # ""
        BY <3>4 DEF HomeKey, Identity
      <4>2. Own(ann[m]) = {HomeKey(m)}
        BY <2>1, <3>4, SettledOwn DEF ApartInv
      <4>3. w.owner[1] # ""
        BY <2>1, <4>1, <4>2
      <4> QED
        BY <2>1, <3>1, <3>4, <4>2, <4>3
    <3> QED
      BY <2>1, <2>4, <3>2, <3>3, <3>4, UserSteps
  <2>5. CASE PersistMember
    <3>1. PICK k \in w.left : ann' = [ann EXCEPT ![k] = w.a] /\ UNCHANGED ing /\ pc = "persist"
      BY <2>5, FreshWrites DEF PersistMember
    <3>2. Own(w.a) = {w.owner}
      BY <3>1 DEF ApartInv, PassInv, AfterLB
    <3> QED
      BY <1>1, <2>1, <3>1, <3>2 DEF HomeKey
  <2>6. ~StripObserved /\ ~RemoveFinalizer
    BY DEF StripObserved, RemoveFinalizer, EndPass, Converging, AfterLB, ListenerCalls
  <2> QED
    <3>1. CASE UNCHANGED ing
      BY <2>2, <2>5, <2>6, <3>1, AnnWriters
    <3> QED
      BY <2>3, <2>4, <2>6, <3>1, IngWriters
<1>3. CASE UNCHANGED <<pc, w>>
  BY <1>2, <1>3 DEF ApartInv, MemberInv
<1>4. ASSUME NEW i \in Ingresses, Take(i), ~UNCHANGED <<pc, w>>
      PROVE  /\ w'.left \subseteq w'.members
             /\ \A m \in w'.members :
                   /\ ing'[m].there
                   /\ ing'[m].del => w'.owner = Identity(ing'[m].group, m)
                   /\ \/ w'.owner = Identity(ing'[m].group, m)
                      \/ Identity(ing'[m].group, m) \notin Own(ann'[m])
                   /\ w'.owner[1] = "" => w'.owner = Identity(ing'[m].group, m)
  <2>1. /\ w'.left = w'.members
        /\ \A m \in w'.members : Live(m) /\ HomeKey(m) = w'.owner
    BY <1>4, BeginConverging DEF ApartInv
  <2>2. UNCHANGED ing
    BY <1>4 DEF Take, Ignore, BeginEnsure, BeginLeave, BeginDepart, BeginCleanup, Start
  <2> QED
    BY <2>1, <2>2 DEF Live, HomeKey
<1>5. CASE Worker
  <2>1. pc \in Converging /\ w'.members = w.members /\ w'.owner = w.owner
        /\ (w'.left = w.left \/ w'.left = w.members \/ \E m : w'.left = w.left \ {m})
    <3>1. CASE pc \in AfterLB
      BY <1>5, <3>1, PassFrame DEF Converging
    <3>2. CASE pc \in {"finalizer", "lb"}
      BY <1>1, <1>5, <3>2, WorkerFrom DEF Converging, Work, AfterLB, ListenerCalls
    <3> QED
      BY <1>5, <3>1, <3>2, WorkerFrom
  <2>2. w.left \subseteq w.members
    BY <2>1 DEF ApartInv, MemberInv
  <2> QED
    BY <1>2, <2>1, <2>2
<1> QED
  BY <1>3, <1>4, <1>5, PassWriters

(* An LBService that is recorded keeps the name under which it is.           *)
LEMMA NameStep ==
    ASSUME FreshInv, TypeInv, ApartInv, [Next]_vars
    PROVE  NameInv'
<1> SUFFICES ASSUME NEW i \in Ingresses, ann'[i].lb # NoId, lbs'[ann'[i].lb].st # "absent"
             PROVE  Own(ann'[i]) = {lbs'[ann'[i].lb].name}
  BY DEF NameInv, LBVisible, Own
<1>1. ann \in [Ingresses -> Annotations] /\ ann' \in [Ingresses -> Annotations]
  BY NextType DEF TypeInv, TypeOK, StateTypeOK
<1>2. ann'[i].lb \in LbIds
  BY <1>1 DEF Annotations
<1>3. ASSUME ann'[i] = ann[i] PROVE Own(ann'[i]) = {lbs'[ann'[i].lb].name}
  <2>1. ann[i].lb \notin FreeLBs
    BY DEF FreeLBs, Recorded
  <2>2. LBVisible(ann[i].lb) /\ lbs'[ann[i].lb].name = lbs[ann[i].lb].name
    BY <1>2, <1>3, <2>1, LBNames DEF LBVisible
  <2> QED
    BY <1>3, <2>2 DEF ApartInv, NameInv
<1>4. CASE PersistMember
  <2>1. PICK m \in w.left : ann' = [ann EXCEPT ![m] = w.a] /\ UNCHANGED lbs /\ pc = "persist"
    BY <1>4, FreshWrites DEF PersistMember
  <2>2. Own(w.a) = {w.owner} /\ (LBVisible(w.a.lb) => lbs[w.a.lb].name = w.owner)
    BY <2>1 DEF ApartInv, PassInv, AfterLB
  <2> QED
    BY <1>1, <1>3, <2>1, <2>2 DEF LBVisible
<1>5. CASE StripObserved \/ RemoveFinalizer
  <2>1. ann' = [ann EXCEPT ![w.on] = NoAnnotations]
    BY <1>5, FreshWrites DEF StripObserved
  <2>2. ann'[i] = ann[i]
    BY <1>1, <2>1, NothingRecorded
  <2> QED
    BY <1>3, <2>2
<1> QED
  BY <1>3, <1>4, <1>5, AnnWriters

(* The entry of an LBService leaves one key, and aliases.                    *)
LEMMA OwnOfWithLB ==
    ASSUME TypeInv, w.owner \in Identities, Own(w.a) \subseteq {w.owner}, NEW l \in LbIds
    PROVE  Own(WithLB(w.a, l)) = {w.owner} /\ WithLB(w.a, l).lb = l
<1>1. w.a \in Annotations /\ w.owner # Legacy
  BY WorkParts, LegacyIsNobody
<1> DEFINE S == {e \in WithLegacy(w.a) : e.key # w.owner} \cup {[key |-> w.owner, id |-> l]}
<1>2. WithLB(w.a, l) = [w.a EXCEPT !.lb = l, !.lbs = S]
  BY DEF WithLB
<1>3. {e.key : e \in S} \ {Legacy} = {w.owner}
  <2>1. ASSUME NEW e \in S PROVE e.key = Legacy \/ e.key = w.owner
    <3>1. CASE e \in WithLegacy(w.a)
      <4>1. e \in w.a.lbs \/ e.key = Legacy
        BY <3>1 DEF WithLegacy
      <4> QED
        BY <4>1 DEF Own
    <3> QED
      BY <3>1
  <2>2. [key |-> w.owner, id |-> l] \in S /\ [key |-> w.owner, id |-> l].key = w.owner
    OBVIOUS
  <2> QED
    BY <1>1, <2>1, <2>2
<1> HIDE DEF S
<1>4. [w.a EXCEPT !.lb = l, !.lbs = S].lbs = S /\ [w.a EXCEPT !.lb = l, !.lbs = S].lb = l
  BY <1>1 DEF Annotations
<1> QED
  BY <1>2, <1>3, <1>4 DEF Own

(* A pass starts from what its own group has recorded, and the LBService it  *)
(* finds there, finds by its name or creates is recorded by no other.        *)
LEMMA PassStep ==
    ASSUME FreshInv, TypeInv, ApartInv, [Next]_vars
    PROVE  PassInv'
<1>1. /\ ann \in [Ingresses -> Annotations] /\ w \in Work
      /\ w.a \in Annotations /\ lbs \in [LbIds -> LBRecord]
  BY WorkParts DEF TypeInv, TypeOK, StateTypeOK
<1>2. CASE pc' \in {"finalizer", "lb"}
  <2> SUFFICES w'.a = ann'[w'.on] /\ Own(w'.a) \subseteq {w'.owner}
    BY <1>2 DEF PassInv, AfterLB, ListenerCalls, Own
  <2>1. pc' \in Converging /\ pc' \notin AfterLB
    BY <1>2 DEF Converging, AfterLB, ListenerCalls
  <2>2. ~PersistMember /\ ~StripObserved /\ ~RemoveFinalizer
    BY <1>2 DEF PersistMember, StripObserved, RemoveFinalizer, EndPass
  <2>3. UNCHANGED ann
    BY <2>2, AnnWriters
  <2>4. CASE UNCHANGED <<pc, w>>
    BY <1>2, <2>3, <2>4 DEF ApartInv, PassInv
  <2>5. CASE Worker
    BY <2>1, <2>3, <2>5, <1>2, WorkerFrom DEF ApartInv, PassInv
  <2>6. CASE \E i \in Ingresses : Take(i)
    BY <2>1, <2>3, <2>4, <2>6, BeginConverging DEF ApartInv
  <2> QED
    BY <2>4, <2>5, <2>6, PassWriters
<1>3. CASE pc' \in AfterLB
  <2>1. SUFFICES /\ Own(w'.a) = {w'.owner}
                 /\ w'.a.lb # NoId /\ lbs'[w'.a.lb].st # "absent" => lbs'[w'.a.lb].name = w'.owner
                 /\ \A j \in Ingresses : ann'[j].lb = w'.a.lb => Own(ann'[j]) = {w'.owner}
    <3>1. pc' \notin {"finalizer", "lb"}
      BY <1>3 DEF AfterLB, ListenerCalls
    <3> QED
      BY <2>1, <3>1 DEF PassInv, Own, LBVisible
  <2>2. pc' \in Converging
    BY <1>3 DEF Converging
  <2>3. ~StripObserved /\ ~RemoveFinalizer
    BY <1>3 DEF StripObserved, RemoveFinalizer, EndPass, AfterLB, ListenerCalls
  <2>4. CASE pc \in AfterLB /\ w'.owner = w.owner /\ w'.a.lb = w.a.lb /\ Own(w'.a) = Own(w.a)
    <3>1. /\ Own(w.a) = {w.owner} /\ w.a.lb \in LbIds /\ w.a.lb # NoId
          /\ LBVisible(w.a.lb) => lbs[w.a.lb].name = w.owner
          /\ \A j \in Ingresses : ann[j].lb = w.a.lb => Own(ann[j]) = {w.owner}
      BY <2>4, NullTypes DEF ApartInv, PassInv, TypeInv, InHand
    <3>2. ASSUME lbs'[w.a.lb].st # "absent" PROVE lbs'[w.a.lb].name = w.owner
      <4>1. ~CreateLB
        BY <2>4 DEF CreateLB, AfterLB, ListenerCalls
      <4> QED
        BY <3>1, <3>2, <4>1, LBNames DEF LBVisible
    <3>3. ASSUME NEW j \in Ingresses, ann'[j].lb = w.a.lb PROVE Own(ann'[j]) = {w.owner}
      <4>1. CASE PersistMember
        <5>1. PICK m : ann' = [ann EXCEPT ![m] = w.a]
          BY <4>1, FreshWrites DEF PersistMember
        <5> QED
          BY <1>1, <3>1, <3>3, <5>1
      <4> QED
        BY <2>3, <3>1, <3>3, <4>1, AnnWriters
    <3> QED
      BY <2>4, <3>1, <3>2, <3>3
  <2>5. CASE UNCHANGED <<pc, w>>
    BY <1>3, <2>4, <2>5
  <2>6. CASE Worker /\ pc \in AfterLB
    <3>1. w'.owner = w.owner /\ w'.a.lb = w.a.lb /\ (w'.a.lbs = w.a.lbs \/ w'.a.lbs = WithoutLegacy(w.a))
      BY <2>2, <2>6, PassFrame
    <3>2. Own(w'.a) = Own(w.a)
      BY <3>1 DEF Own, WithoutLegacy
    <3> QED
      BY <2>4, <2>6, <3>1, <3>2
  <2>7. CASE Worker /\ pc \notin AfterLB
    <3>1. PICK l \in LbIds :
             /\ pc = "lb" /\ pc' = "vip" /\ UNCHANGED ann
             /\ w' = [w EXCEPT !.a = WithLB(w.a, l)] /\ Obtained(l)
      BY <1>3, <2>2, <2>7, WorkerFrom DEF AfterLB, ListenerCalls
    <3>2. /\ w.a = ann[w.on] /\ Own(w.a) \subseteq {w.owner} /\ w.owner \in Identities
          /\ w.on \in Ingresses
      BY <3>1 DEF ApartInv, PassInv, TypeInv, TypeOK, StateTypeOK, InHand, Converging
    <3>3. Own(WithLB(w.a, l)) = {w.owner} /\ WithLB(w.a, l).lb = l
      BY <3>2, OwnOfWithLB
    <3>4. w'.a = WithLB(w.a, l) /\ w'.owner = w.owner
      BY <1>1, <3>1 DEF Work
    <3>5. CASE lbs' = lbs /\ l \in UsableLBs
      <4>1. LBVisible(l)
        BY <3>5, NullTypes DEF UsableLBs, LBVisible
      <4>2. lbs[l].name = w.owner
        <5>1. CASE LBVisible(w.a.lb)
          <6>1. l = w.a.lb /\ Own(w.a) = {lbs[l].name}
            BY <3>2, <3>5, <5>1 DEF UsableLBs, ApartInv, NameInv
          <6> QED
            BY <3>2, <6>1
        <5>2. CASE ~LBVisible(w.a.lb)
          BY <3>5, <5>2 DEF UsableLBs
        <5> QED
          BY <5>1, <5>2
      <4>3. \A j \in Ingresses : ann[j].lb = l => Own(ann[j]) = {w.owner}
        BY <4>1, <4>2 DEF ApartInv, NameInv
      <4> QED
        BY <3>1, <3>3, <3>4, <3>5, <4>2, <4>3
    <3>6. CASE l \in FreeLBs /\ lbs'[l].name = w.owner
      <4>1. \A j \in Ingresses : ann[j].lb # l
        BY <3>6 DEF FreeLBs, Recorded
      <4> QED
        BY <3>1, <3>3, <3>4, <3>6, <4>1
    <3> QED
      BY <3>1, <3>5, <3>6 DEF Obtained
  <2>8. CASE (\E i \in Ingresses : Take(i)) /\ ~UNCHANGED <<pc, w>>
    <3>1. pc' \in {"finalizer", "lb"}
      BY <2>2, <2>8, BeginConverging DEF ApartInv
    <3> QED
      BY <1>3, <3>1 DEF AfterLB, ListenerCalls
  <2> QED
    BY <2>5, <2>6, <2>7, <2>8, PassWriters
<1>4. CASE pc' \notin {"finalizer", "lb"} \cup AfterLB
  BY <1>4 DEF PassInv
<1> QED
  BY <1>2, <1>3, <1>4

-----------------------------------------------------------------------------
(* Who writes the listeners.                                                 *)
LEMMA VSWriters ==
    ASSUME [Next]_vars
    PROVE  \/ UNCHANGED vss
           \/ RefuseListener \/ CreateListener \/ BindCertificate \/ UnbindCertificate
           \/ DeleteCertificate \/ CreatePool \/ CreateRule \/ DropRules
           \/ DeleteObsoletePools \/ DeleteObsoleteListeners \/ CleanChildren \/ CleanListener
           \/ \E l \in LbIds : LBGone(l)
           \/ \E v \in VsIds : VSReady(v) \/ VSGone(v) \/ ListenerLost(v)
<1>1. CASE UNCHANGED vars
  BY <1>1 DEF vars
<1>2. CASE \E i \in Ingresses : Take(i)
  BY <1>2 DEF Take, Ignore, BeginEnsure, BeginLeave, BeginDepart, BeginCleanup, Start
<1>3. CASE EnsureGroup
  BY <1>3 DEF EnsureGroup, GetLB, CreateLB, KeepVIP, CreateVIP, KeepListener, UploadCertificate,
     KeepPool, KeepRule, cmpVars
<1>4. CASE \/ EnsureFinalizer \/ PersistMember \/ PublishMember \/ StripObserved
           \/ RemoveFinalizer \/ CleanParents \/ PassFails
  BY <1>4 DEF EnsureFinalizer, PersistMember, PublishMember, StripObserved, RemoveFinalizer,
     CleanParents, PassFails, cmpVars
<1>5. CASE Provider \/ ProviderVS \/ \E i \in Ingresses : Deliver(i)
  BY <1>5 DEF Provider, ProviderVS, LBReady, Deliver
<1>6. CASE User
  BY <1>6 DEF User, DeleteIngress, EditTLS, RotateSecret, CreateIngress, MoveIngress, Change
<1> QED
  BY <1>1, <1>2, <1>3, <1>4, <1>5, <1>6 DEF Next, Worker

(* A listener keeps its LBService, its VIP and its name until it is gone,    *)
(* and is not there again, or in use again, under an id that is recorded.    *)
LEMMA VSSteps ==
    ASSUME TypeInv, [Next]_vars, NEW v \in VsIds
    PROVE  \/ CreateListener /\ v \in FreeVSs
           \/ vss'[v] = NoVS
           \/ /\ vss'[v].lb = vss[v].lb /\ vss'[v].name = vss[v].name
              /\ vss[v].st = "absent" => vss'[v].st = "absent"
              /\ vss[v].st = "deleting" => vss'[v].st = "deleting"
<1> DEFINE Same == /\ vss'[v].lb = vss[v].lb /\ vss'[v].name = vss[v].name
                   /\ vss[v].st = "absent" => vss'[v].st = "absent"
                   /\ vss[v].st = "deleting" => vss'[v].st = "deleting"
<1>1. vss \in [VsIds -> VSRecord] /\ vss[v] \in VSRecord
  BY DEF TypeInv, TypeOK, StateTypeOK
<1>2. CASE vss'[v] = vss[v]
  BY <1>2
<1>3. ASSUME NEW P, NEW R, \/ vss'[v] = [vss[v] EXCEPT !.pools = P]
                           \/ vss'[v] = [vss[v] EXCEPT !.rules = P]
                           \/ vss'[v] = [vss[v] EXCEPT !.bound = P]
                           \/ vss'[v] = [vss[v] EXCEPT !.rules = P, !.pools = R]
      PROVE  Same
  BY <1>1, <1>3 DEF VSRecord
<1>4. ASSUME vss[v].st # "absent", NEW R,
             \/ vss'[v] = [vss[v] EXCEPT !.st = "deleting"]
             \/ vss'[v] = [vss[v] EXCEPT !.st = "deleting", !.rules = R]
      PROVE  Same
  BY <1>1, <1>4 DEF VSRecord
<1>6. CASE RefuseListener
  <2>1. vss'[v] = vss[v] \/ (v \in Found /\ vss'[v] = [vss[v] EXCEPT !.st = "deleting"])
    BY <1>6 DEF RefuseListener
  <2> QED
    BY <1>2, <1>4, <2>1 DEF Found, Listed
<1>7. CASE CreateListener
  <2>1. PICK u, r : u \in FreeVSs /\ vss' = [vss EXCEPT ![u] = r]
    BY <1>7 DEF CreateListener, IsNext
  <2> QED
    BY <1>1, <1>2, <1>7, <2>1
<1>8. CASE BindCertificate \/ UnbindCertificate
  <2>1. PICK c : Bind(c)
    BY <1>8 DEF BindCertificate, UnbindCertificate
  <2>2. \/ UNCHANGED vss
        \/ \E S : vss' = [vss EXCEPT ![w.vs].bound = S]
    BY <2>1 DEF Bind
  <2>3. vss'[v] = vss[v] \/ \E S : vss'[v] = [vss[v] EXCEPT !.bound = S]
    BY <1>1, <2>2
  <2> QED
    BY <1>2, <1>3, <2>3
<1>9. CASE DeleteCertificate
  <2>1. vss'[v] = vss[v] \/ \E S : vss'[v] = [vss[v] EXCEPT !.bound = S]
    BY <1>9 DEF DeleteCertificate
  <2> QED
    BY <1>2, <1>3, <2>1
<1>10. CASE CreatePool
  <2>1. \E S : vss' = [vss EXCEPT ![w.vs].pools = S]
    BY <1>10 DEF CreatePool
  <2>2. vss'[v] = vss[v] \/ \E S : vss'[v] = [vss[v] EXCEPT !.pools = S]
    BY <1>1, <2>1
  <2> QED
    BY <1>2, <1>3, <2>2
<1>11. CASE CreateRule \/ DropRules
  <2>1. \E S : vss' = [vss EXCEPT ![w.vs].rules = S]
    BY <1>11 DEF CreateRule, DropRules
  <2>2. vss'[v] = vss[v] \/ \E S : vss'[v] = [vss[v] EXCEPT !.rules = S]
    BY <1>1, <2>1
  <2> QED
    BY <1>2, <1>3, <2>2
<1>12. CASE DeleteObsoletePools
  <2>1. \E S : vss'[v] = [vss[v] EXCEPT !.pools = S]
    BY <1>12 DEF DeleteObsoletePools
  <2> QED
    BY <1>3, <2>1
<1>13. CASE DeleteObsoleteListeners
  <2>1. vss'[v] = vss[v] \/ (Listed(v) /\ \E S : vss'[v] = [vss[v] EXCEPT !.st = "deleting", !.rules = S])
    BY <1>13 DEF DeleteObsoleteListeners
  <2> QED
    BY <1>2, <1>4, <2>1 DEF Listed
<1>14. CASE CleanChildren
  <2>1. \E P, R : vss'[v] = [vss[v] EXCEPT !.rules = P, !.pools = R]
    BY <1>14 DEF CleanChildren
  <2> QED
    BY <1>3, <2>1
<1>15. CASE CleanListener
  <2>1. PICK u \in Shown : vss' = [vss EXCEPT ![u].st = "deleting"]
    BY <1>15 DEF CleanListener
  <2>2. vss'[v] = vss[v] \/ (v \in Shown /\ vss'[v] = [vss[v] EXCEPT !.st = "deleting"])
    BY <1>1, <2>1
  <2>3. v \in Shown => vss[v].st # "absent"
    BY DEF Shown
  <2> QED
    BY <1>2, <1>4, <2>2, <2>3
<1>16. CASE \E l \in LbIds : LBGone(l)
  BY <1>2, <1>16 DEF LBGone
<1>17. CASE \E u \in VsIds : VSReady(u) \/ VSGone(u) \/ ListenerLost(u)
  BY <1>1, <1>2, <1>17 DEF VSReady, VSGone, ListenerLost, VSRecord
<1> QED
  BY <1>2, <1>6, <1>7, <1>8, <1>9, <1>10, <1>11, <1>12, <1>13, <1>14, <1>15, <1>16, <1>17, VSWriters

-----------------------------------------------------------------------------
(* What is recorded (a) and what CMP has: its LBServices (L) and listeners   *)
(* (V).                                                                      *)
Visible(l, L) == l # NoId /\ L[l].st # "absent"

(* One LBService is recorded, and for each name one listener, which is of    *)
(* that name and under the LBService; everything else recorded is gone.      *)
GraphIn(a, L, V) ==
    /\ a.lb = NoId => a.lbs = {} /\ a.vs = {}
    /\ \A e \in a.lbs : e.id = a.lb \/ ~Visible(e.id, L)
    /\ \A e \in a.vs : V[e.id].st # "absent" => V[e.id].lb = a.lb /\ V[e.id].name = e.name
    /\ \A e, f \in a.vs : e.name = f.name => e = f
    /\ IsFiniteSet(a.lbs)

(* A listener is gone before its LBService, or with it.                      *)
ListenerInv == \A v \in VsIds : vss[v].st # "absent" => Visible(vss[v].lb, lbs)

GraphInv ==
    /\ \A i \in Ingresses : GraphIn(ann[i], lbs, vss)
    /\ pc # "idle" => GraphIn(w.a, lbs, vss)
    /\ pc \in AfterLB => lbs[w.a.lb].st = "ready"

(* A new listener belongs to the LBService at hand, under the name at hand.  *)
LEMMA NewListener ==
    ASSUME TypeInv, CreateListener
    PROVE  \E v \in FreeVSs :
              /\ v \in VsIds
              /\ vss'[v].lb = w.a.lb /\ vss'[v].name = Name /\ vss'[v].pools = {}
              /\ \A u \in VsIds \ {v} : vss'[u] = vss[u]
              /\ w' = WithVS(v) \/ pc' = "idle"
              /\ UNCHANGED <<ing, ann, lbs>> /\ pc = "listener" /\ Found = {}
<1>1. PICK v \in VsIds, st \in {"ready", "pending"} :
         /\ v \in FreeVSs
         /\ vss' = [vss EXCEPT ![v] = [NoVS EXCEPT !.st = st, !.lb = w.a.lb, !.vip = w.a.vip,
                                                   !.name = Name]]
         /\ IF st = "ready" THEN Continue(AfterListener, WithVS(v))
            ELSE Return /\ Spend("late-listener")
  BY DEF CreateListener, IsNext
<1> DEFINE new == [NoVS EXCEPT !.st = st, !.lb = w.a.lb, !.vip = w.a.vip, !.name = Name]
<1>2. new.lb = w.a.lb /\ new.name = Name /\ new.pools = {}
  BY DEF NoVS
<1>3. vss' = [vss EXCEPT ![v] = new]
  BY <1>1
<1> HIDE DEF new
<1>4. vss \in [VsIds -> VSRecord]
  BY DEF TypeInv, TypeOK, StateTypeOK
<1>5. UNCHANGED <<ing, ann>> /\ (w' = WithVS(v) \/ pc' = "idle")
  BY <1>1 DEF Continue, Return, EndPass
<1>6. UNCHANGED lbs /\ pc = "listener" /\ Found = {}
  BY DEF CreateListener
<1> QED
  BY <1>1, <1>2, <1>3, <1>4, <1>5, <1>6

(* LBServices go only while they are being deleted, and then with everything *)
(* under them.                                                               *)
LEMMA LBGoes ==
    ASSUME TypeInv, [Next]_vars, NEW l \in LbIds, lbs[l].st # "absent"
    PROVE  \/ lbs'[l].st # "absent" /\ (lbs[l].st = "ready" => lbs'[l].st = "ready" \/ CleanParents)
           \/ lbs[l].st = "deleting" /\ \A v \in VsIds : vss[v].lb = l => vss'[v] = NoVS
<1>1. lbs \in [LbIds -> LBRecord] /\ lbs[l] \in LBRecord
  BY DEF TypeInv, TypeOK, StateTypeOK
<1>2. CASE lbs'[l] = lbs[l]
  BY <1>2
<1>3. CASE CreateLB
  <2>1. PICK k, r : k \in LbIds /\ k \in FreeLBs /\ lbs' = [lbs EXCEPT ![k] = r]
    BY <1>3 DEF CreateLB, IsNext
  <2>2. l # k
    BY <2>1 DEF FreeLBs
  <2> QED
    BY <1>1, <1>2, <2>1, <2>2
<1>4. CASE UploadCertificate \/ DeleteCertificate
  <2>1. PICK S : lbs' = [lbs EXCEPT ![w.a.lb].certs = S]
    BY <1>4 DEF UploadCertificate, DeleteCertificate
  <2> QED
    BY <1>1, <2>1 DEF LBRecord
<1>5. CASE CleanParents
  <2>1. lbs'[l] = lbs[l] \/ lbs'[l] = [lbs[l] EXCEPT !.st = "deleting"]
    BY <1>1, <1>5 DEF CleanParents
  <2> QED
    BY <1>1, <1>5, <2>1 DEF LBRecord
<1>6. CASE \E k \in LbIds : LBReady(k)
  BY <1>1, <1>6 DEF LBReady, LBRecord
<1>7. CASE \E k \in LbIds : LBGone(k)
  <2>1. PICK k \in LbIds : LBGone(k)
    BY <1>7
  <2>2. CASE k = l
    BY <2>1, <2>2 DEF LBGone
  <2>3. CASE k # l
    BY <1>1, <1>2, <2>1, <2>3 DEF LBGone
  <2> QED
    BY <2>2, <2>3
<1> QED
  BY <1>2, <1>3, <1>4, <1>5, <1>6, <1>7, LBWriters

(* So no listener is ever left without its LBService.                        *)
LEMMA ListenerStep ==
    ASSUME TypeInv, ListenerInv, GraphInv, [Next]_vars
    PROVE  ListenerInv'
<1> SUFFICES ASSUME NEW v \in VsIds, vss'[v].st # "absent"
             PROVE  vss'[v].lb # NoId /\ lbs'[vss'[v].lb].st # "absent"
  BY DEF ListenerInv, Visible
<1>1. /\ \A u \in VsIds : vss[u].lb \in LbIds \cup {NoId}
      /\ w.a.lb \in LbIds \cup {NoId}
  BY WorkParts DEF TypeInv, TypeOK, StateTypeOK, VSRecord, Annotations
<1>2. CASE vss'[v].lb = vss[v].lb /\ vss[v].st # "absent"
  <2>1. vss[v].lb \in LbIds /\ vss[v].lb # NoId /\ lbs[vss[v].lb].st # "absent"
    BY <1>1, <1>2 DEF ListenerInv, Visible
  <2>2. vss'[v] # NoVS
    BY DEF NoVS
  <2> QED
    BY <1>2, <2>1, <2>2, LBGoes
<1>3. CASE CreateListener
  <2>1. PICK u \in FreeVSs : /\ vss'[u].lb = w.a.lb /\ \A x \in VsIds \ {u} : vss'[x] = vss[x]
                             /\ UNCHANGED lbs /\ pc = "listener"
    BY <1>3, NewListener
  <2>2. w.a.lb \in LbIds /\ lbs[w.a.lb].st = "ready"
    BY <2>1 DEF TypeInv, InHand, GraphInv, AfterLB
  <2>3. CASE v = u
    BY <2>1, <2>2, <2>3, NullTypes
  <2>4. CASE v # u
    BY <1>2, <2>1, <2>4
  <2> QED
    BY <2>3, <2>4
<1>4. CASE vss'[v] = NoVS
  BY <1>4 DEF NoVS
<1> QED
  BY <1>2, <1>3, <1>4, VSSteps

(* What is recorded somewhere, in a copy or in hand.                         *)
LEMMA RecordedTypes ==
    ASSUME TypeInv
    PROVE  \A a \in Recorded : a \in Annotations
<1>1. /\ ann \in [Ingresses -> Annotations] /\ w.a \in Annotations
      /\ AnnRead \in [Ingresses -> Annotations]
  BY WorkParts, ReadTypes DEF TypeInv, TypeOK, StateTypeOK
<1>2. \A m \in w.left : w.base[m] \in Annotations
  BY WorkParts DEF Work
<1> QED
  BY <1>1, <1>2 DEF Recorded

(* What is recorded somewhere stays right whatever CMP and the pass do.      *)
LEMMA GraphStays ==
    ASSUME TypeInv, [Next]_vars, NEW a \in Recorded, GraphIn(a, lbs, vss)
    PROVE  GraphIn(a, lbs', vss')
<1>1. a \in Annotations
  BY RecordedTypes
<1>2. ASSUME NEW e \in a.lbs PROVE e.id = a.lb \/ ~Visible(e.id, lbs')
  <2>1. e.id \notin FreeLBs /\ (e.id = a.lb \/ ~Visible(e.id, lbs)) /\ e.id \in LbIds
    BY <1>1 DEF FreeLBs, GraphIn, Annotations
  <2> QED
    BY <2>1, LBNames DEF Visible
<1>3. ASSUME NEW e \in a.vs, vss'[e.id].st # "absent"
      PROVE  vss'[e.id].lb = a.lb /\ vss'[e.id].name = e.name
  <2>1. e.id \notin FreeVSs /\ e.id \in VsIds
        /\ (vss[e.id].st # "absent" => vss[e.id].lb = a.lb /\ vss[e.id].name = e.name)
    BY <1>1 DEF FreeVSs, GraphIn, Annotations
  <2>2. vss'[e.id] # NoVS
    BY <1>3 DEF NoVS
  <2> QED
    BY <1>3, <2>1, <2>2, VSSteps
<1> QED
  BY <1>2, <1>3 DEF GraphIn

(* Nothing is recorded right.                                                *)
LEMMA GraphOfNothing == \A L, V : GraphIn(NoAnnotations, L, V)
BY FS_EmptySet DEF GraphIn, NoAnnotations

(* With less recorded under the same LBService the rest stays right.         *)
LEMMA GraphShrinks ==
    ASSUME NEW a, NEW b, NEW L, NEW V, GraphIn(a, L, V),
           b.lb = a.lb, b.lbs \subseteq a.lbs, b.vs \subseteq a.vs
    PROVE  GraphIn(b, L, V)
<1>1. IsFiniteSet(b.lbs)
  BY FS_Subset DEF GraphIn
<1> QED
  BY <1>1 DEF GraphIn

(* The parts of what is in hand once there is an LBService.                  *)
LEMMA WithLBParts ==
    ASSUME TypeInv, NEW l
    PROVE  /\ WithLB(w.a, l).lb = l /\ WithLB(w.a, l).vs = w.a.vs
           /\ WithLB(w.a, l).lbs = {e \in WithLegacy(w.a) : e.key # w.owner}
                                      \cup {[key |-> w.owner, id |-> l]}
           /\ WithLB(w.a, l).pools = w.a.pools
<1> DEFINE S == {e \in WithLegacy(w.a) : e.key # w.owner} \cup {[key |-> w.owner, id |-> l]}
<1>1. WithLB(w.a, l) = [w.a EXCEPT !.lb = l, !.lbs = S]
  BY DEF WithLB
<1> HIDE DEF S
<1>2. [w.a EXCEPT !.lb = l, !.lbs = S].lbs = S /\ [w.a EXCEPT !.lb = l, !.lbs = S].lb = l
      /\ [w.a EXCEPT !.lb = l, !.lbs = S].vs = w.a.vs
      /\ [w.a EXCEPT !.lb = l, !.lbs = S].pools = w.a.pools
  BY WorkParts DEF Annotations
<1> QED
  BY <1>1, <1>2 DEF S

(* The LBService found or created makes what is in hand right again, whatever*)
(* had been recorded: what was under another LBService is gone with it.      *)
LEMMA GraphOfWithLB ==
    ASSUME TypeInv, ListenerInv, GraphIn(w.a, lbs, vss), NEW l \in LbIds, Obtained(l), UNCHANGED vss
    PROVE  GraphIn(WithLB(w.a, l), lbs', vss')
<1> DEFINE b == WithLB(w.a, l)
<1>1. w.a \in Annotations /\ w.a.lb \in LbIds \cup {NoId}
  BY WorkParts DEF Annotations
<1>2. /\ b.lb = l /\ b.vs = w.a.vs
      /\ b.lbs = {e \in WithLegacy(w.a) : e.key # w.owner} \cup {[key |-> w.owner, id |-> l]}
  BY WithLBParts
<1> SUFFICES GraphIn(b, lbs', vss')
  OBVIOUS
<1> HIDE DEF b
<1>3. IsFiniteSet(b.lbs)
  <2>1. IsFiniteSet(WithLegacy(w.a))
    BY FS_AddElement DEF WithLegacy, GraphIn
  <2> DEFINE S == {e \in WithLegacy(w.a) : e.key # w.owner}
  <2>2. IsFiniteSet(S)
    <3>1. S \in SUBSET WithLegacy(w.a)
      OBVIOUS
    <3> QED
      BY <2>1, <3>1, FS_Subset
  <2>3. IsFiniteSet(S \cup {[key |-> w.owner, id |-> l]})
    <3> HIDE DEF S
    <3> QED
      BY <2>2, FS_AddElement
  <2> QED
    BY <1>2, <2>3
<1>4. ASSUME NEW e \in b.lbs, e.id # l PROVE e.id \in LbIds /\ (e \in w.a.lbs \/ e.id = w.a.lb)
  BY <1>1, <1>2, <1>4 DEF WithLegacy, Annotations
<1>5. ASSUME ~LBVisible(w.a.lb), NEW e \in w.a.vs PROVE vss[e.id].st = "absent"
  <2>1. vss[e.id].st # "absent" => vss[e.id].lb = w.a.lb
    BY DEF GraphIn
  <2>2. e.id \in VsIds
    BY <1>1 DEF Annotations
  <2> QED
    BY <1>5, <2>1, <2>2 DEF ListenerInv, Visible, LBVisible
<1>6. CASE l \in UsableLBs /\ lbs' = lbs
  <2>1. CASE LBVisible(w.a.lb)
    <3>1. l = w.a.lb
      BY <1>6, <2>1 DEF UsableLBs
    <3> QED
      BY <1>2, <1>3, <1>4, <1>6, <3>1, NullTypes DEF GraphIn
  <2>2. CASE ~LBVisible(w.a.lb)
    <3>1. \A e \in b.lbs : e.id = l \/ ~Visible(e.id, lbs)
      BY <1>4, <2>2 DEF GraphIn, LBVisible, Visible
    <3> QED
      BY <1>2, <1>3, <1>5, <1>6, <2>2, <3>1, NullTypes DEF GraphIn
  <2> QED
    BY <2>1, <2>2
<1>7. CASE UsableLBs = {} /\ l \in FreeLBs /\ \A k \in LbIds \ {l} : lbs'[k] = lbs[k]
  <2>1. ~LBVisible(w.a.lb)
    BY <1>7 DEF UsableLBs
  <2>2. \A e \in b.lbs : e.id = l \/ ~Visible(e.id, lbs')
    BY <1>4, <1>7, <2>1 DEF GraphIn, LBVisible, Visible
  <2> QED
    BY <1>2, <1>3, <1>5, <2>1, <2>2, NullTypes DEF GraphIn
<1> QED
  BY <1>6, <1>7 DEF Obtained

(* What a pass has recorded of its listeners, with the one at hand.          *)
LEMMA WithVSParts ==
    ASSUME TypeInv, NEW v
    PROVE  /\ WithVS(v).a.lb = w.a.lb /\ WithVS(v).a.lbs = w.a.lbs
           /\ WithVS(v).a.vs = {e \in w.a.vs : e.name # Name} \cup {[name |-> Name, id |-> v]}
           /\ WithVS(v).a.pools = w.a.pools /\ WithVS(v).vs = v /\ WithVS(v).todo = w.todo
<1> DEFINE S == {e \in w.a.vs : e.name # Name} \cup {[name |-> Name, id |-> v]}
           P == UNION {Backends[i] : i \in w.members}
           x == [w EXCEPT !.vs = v, !.certs = w.tls, !.routes = Routes(w.members),
                          !.pools = P, !.a.vs = S]
<1>1. WithVS(v) = x
  BY DEF WithVS
<1> HIDE DEF S, P
<1>2. x.a.lb = w.a.lb /\ x.a.lbs = w.a.lbs /\ x.a.vs = S /\ x.a.pools = w.a.pools
      /\ x.vs = v /\ x.todo = w.todo
  BY WorkParts DEF Work, Annotations
<1> QED
  BY <1>1, <1>2 DEF S

(* The listener at hand is the one that is recorded, or a new one: either    *)
(* takes the place of any that was recorded under the name.                  *)
LEMMA ListenerAtHand ==
    ASSUME TypeInv, GraphIn(w.a, lbs, vss), KeepListener \/ CreateListener, pc' # "idle"
    PROVE  \E v \in VsIds :
              /\ w' = WithVS(v) /\ vss'[v].lb = w.a.lb /\ vss'[v].name = Name
              /\ \/ KeepListener /\ [name |-> Name, id |-> v] \in w.a.vs /\ vss' = vss
                 \/ /\ CreateListener /\ v \in FreeVSs /\ Found = {} /\ vss'[v].pools = {}
                    /\ \A u \in VsIds \ {v} : vss'[u] = vss[u]
<1>1. CASE KeepListener
  <2>1. PICK v \in Found \cap RecordedAs(Name) : Continue(AfterListener, WithVS(v))
    BY <1>1 DEF KeepListener
  <2>2. w' = WithVS(v) /\ vss' = vss
    BY <1>1, <2>1 DEF Continue, KeepListener, cmpVars
  <2>3. PICK e \in w.a.vs : e.name = Name /\ e.id = v
    BY <2>1 DEF RecordedAs
  <2>4. e = [name |-> Name, id |-> v] /\ v \in VsIds
    BY <2>3, WorkParts DEF Annotations
  <2>5. vss[v].lb = w.a.lb /\ vss[v].name = Name
    BY <2>1, <2>3 DEF Found, Listed, GraphIn
  <2> QED
    BY <1>1, <2>2, <2>3, <2>4, <2>5
<1>2. CASE CreateListener
  BY <1>2, NewListener
<1> QED
  BY <1>1, <1>2

(* Behind the LBService what a pass has in hand stays right.                 *)
LEMMA GraphOfPass ==
    ASSUME FreshInv, TypeInv, GraphInv, [Next]_vars, Worker, pc \in AfterLB, pc' \in AfterLB
    PROVE  GraphIn(w'.a, lbs', vss')
<1>1. pc # "idle" /\ pc' # "idle" /\ pc' \in Converging
  BY DEF AfterLB, ListenerCalls, Converging
<1>2. GraphIn(w.a, lbs, vss) /\ GraphIn(w.a, lbs', vss')
  BY <1>1, GraphStays DEF GraphInv, Recorded
<1>3. w'.a.lb = w.a.lb /\ w'.a.lbs \subseteq w.a.lbs
  BY <1>1, PassFrame DEF WithoutLegacy
<1>4. CASE w'.a.vs \subseteq w.a.vs
  BY <1>2, <1>3, <1>4, GraphShrinks
<1>5. CASE KeepListener \/ CreateListener
  <2>1. PICK v \in VsIds : w' = WithVS(v) /\ vss'[v].lb = w.a.lb /\ vss'[v].name = Name
    BY <1>1, <1>2, <1>5, ListenerAtHand
  <2>2. w'.a.lbs = w.a.lbs
        /\ w'.a.vs = {e \in w.a.vs : e.name # Name} \cup {[name |-> Name, id |-> v]}
    BY <2>1, WithVSParts
  <2>3. w.a.lb # NoId
    BY NullTypes DEF TypeInv, InHand
  <2> QED
    BY <1>2, <1>3, <2>1, <2>2, <2>3 DEF GraphIn
<1>6. CASE DeleteObsoleteListeners
  <2>1. PICK R : w' = [w EXCEPT !.left = w.members,
                                !.a = [w.a EXCEPT !.vs = {e \in w.a.vs : e.name \in StackNames}, !.rules = R]]
    BY <1>6 DEF DeleteObsoleteListeners, Continue
  <2> DEFINE S == {e \in w.a.vs : e.name \in StackNames}
  <2>2. S \subseteq w.a.vs /\ w' = [w EXCEPT !.left = w.members, !.a = [w.a EXCEPT !.vs = S, !.rules = R]]
    BY <2>1
  <2> HIDE DEF S
  <2>3. w'.a.vs = S
    BY <2>2, WorkParts DEF Work, Annotations
  <2> QED
    BY <1>4, <2>2, <2>3
<1> QED
  BY <1>1, <1>4, <1>5, <1>6, PassFrame

(* Every pass starts from what its Ingress has recorded.                     *)
LEMMA TakeWork ==
    ASSUME FreshInv, TypeInv, NEW i \in Ingresses, Take(i), ~UNCHANGED <<pc, w>>
    PROVE  /\ pc = "idle" /\ UNCHANGED <<ing, ann, lbs, vips, vss>>
           /\ w'.on = i /\ w'.a = ann[i] /\ (w'.why = "delete" => ing[i].there /\ ing[i].del)
           /\ \/ /\ pc' \in {"finalizer", "lb", "strip"}
                 /\ w'.why = "delete" => i \notin w'.members
                 /\ \A m \in Ingresses \cap w'.members : w'.base[m] = ann[m]
                 /\ w'.left = w'.members
              \/ /\ pc' = IF CleanupLBs(ann[i]) = {} THEN "unfinalize" ELSE "children"
                 /\ w'.why = "delete" /\ w'.members = {}
                 /\ w'.shared => \E j \in Ingresses : SharesLB(j, i, ann[i].lb)
<1>1. CASE Ignore(i)
  BY <1>1 DEF Ignore
<1>2. CASE BeginEnsure(i)
  <2>1. Start(i, "ensure", IF ing[i].fin THEN "lb" ELSE "finalizer",
              Identity(ing[i].group, i), GroupMembers(ing, i))
    BY <1>2, FreshReads DEF BeginEnsure
  <2> QED
    BY <2>1, StartWork
<1>3. CASE BeginLeave(i)
  <2>1. PICK g \in ObservedGroups(i) :
           Start(i, "leave", IF LiveIn(ing, g) \ {i} = {} THEN "strip" ELSE "lb",
                 Identity(g, i), LiveIn(ing, g) \ {i})
    BY <1>3, FreshReads DEF BeginLeave
  <2> QED
    BY <2>1, StartWork
<1>4. CASE BeginDepart(i)
  <2>1. Start(i, "delete", "lb", Identity(ing[i].group, i), Remaining(i)) /\ i \notin Remaining(i)
        /\ ing[i].there /\ ing[i].del
    BY <1>4, FreshReads DEF BeginDepart, Remaining
  <2> QED
    BY <2>1, StartWork
<1>5. CASE BeginCleanup(i)
  <2>1. PICK b \in BOOLEAN :
           /\ w' = [IdleWork EXCEPT !.on = i, !.why = "delete", !.a = ann[i], !.shared = b]
           /\ b => \E j \in Ingresses : SharesLB(j, i, ann[i].lb)
    <3>1. (\E j \in Ingresses : SharesLB(j, i, ann[i].lb)) \in BOOLEAN
      OBVIOUS
    <3> QED
      BY <1>5, <3>1, FreshReads, Zenon DEF BeginCleanup
  <2>2. /\ pc = "idle" /\ UNCHANGED <<ing, ann, lbs, vips, vss>>
        /\ pc' = IF CleanupLBs(ann[i]) = {} THEN "unfinalize" ELSE "children"
        /\ ing[i].there /\ ing[i].del
    BY <1>5, FreshReads DEF BeginCleanup, Dequeue
  <2>3. w'.on = i /\ w'.why = "delete" /\ w'.a = ann[i] /\ w'.shared = b /\ w'.members = {}
    BY <2>1 DEF IdleWork
  <2> QED
    BY <2>1, <2>2, <2>3
<1> QED
  BY <1>1, <1>2, <1>3, <1>4, <1>5 DEF Take

(* A pass that goes on and no longer makes a group converge keeps what it    *)
(* has in hand.                                                              *)
LEMMA LateSteps ==
    ASSUME FreshInv, TypeInv, Worker, pc' \notin Converging, pc' # "idle"
    PROVE  /\ w' = w /\ UNCHANGED ann
           /\ \/ pc = "children" /\ pc' = "clean" /\ ~Ambiguous /\ UNCHANGED lbs
              \/ /\ pc = "clean" /\ pc' = "unfinalize" /\ UNCHANGED <<lbs, vss>>
                 /\ Shown = {} /\ (w.shared \/ lbs[CleanupLB].st = "absent")
              \/ pc = "publish" /\ pc' = AfterPersist /\ w.left = {} /\ UNCHANGED <<lbs, vss>>
<1>1. ~Return /\ ~EndPass
  BY DEF Return, EndPass
<1>2. CASE EnsureGroup
  <2>1. EnsureGroup => pc' \in {"idle"} \cup Converging
    BY <1>1, <1>2 DEF EnsureGroup, GetLB, CreateLB, KeepVIP, CreateVIP, UseVIP, KeepListener,
       RefuseListener, CreateListener, AfterListener, UploadCertificate, BindCertificate,
       UnbindCertificate, DeleteCertificate, AfterCertificates, KeepPool, CreatePool, KeepRule,
       CreateRule, NextPool, NextRule, DropRules, DeleteObsoletePools, DeleteObsoleteListeners,
       Continue, Converging, AfterLB, ListenerCalls
  <2> QED
    BY <1>2, <2>1
<1>3. CASE EnsureFinalizer \/ PersistMember
  BY <1>3 DEF EnsureFinalizer, PersistMember, Converging, AfterLB
<1>4. CASE PublishMember
  BY <1>4 DEF PublishMember, Converging, AfterLB
<1>5. CASE StripObserved \/ RemoveFinalizer \/ CleanListener \/ PassFails
  BY <1>1, <1>5 DEF StripObserved, RemoveFinalizer, CleanListener, PassFails
<1>6. CASE CleanChildren
  BY <1>6 DEF CleanChildren, Continue
<1>7. CASE CleanParents
  BY <1>1, <1>7 DEF CleanParents, Continue
<1> QED
  BY <1>2, <1>3, <1>4, <1>5, <1>6, <1>7 DEF Worker

(* What is recorded, and what a pass has in hand, is right of CMP.           *)
LEMMA GraphStep ==
    ASSUME FreshInv, TypeInv, ListenerInv, GraphInv, [Next]_vars
    PROVE  GraphInv'
<1>1. /\ ann \in [Ingresses -> Annotations] /\ lbs \in [LbIds -> LBRecord] /\ w \in Work
      /\ w.a \in Annotations
  BY WorkParts DEF TypeInv, TypeOK, StateTypeOK
<1>2. \A a \in Recorded : GraphIn(a, lbs, vss) => GraphIn(a, lbs', vss')
  BY GraphStays
<1>3. \A i \in Ingresses : GraphIn(ann[i], lbs', vss')
  BY <1>2 DEF GraphInv, Recorded
<1>4. pc # "idle" => GraphIn(w.a, lbs', vss')
  BY <1>2 DEF GraphInv, Recorded
<1>5. ASSUME NEW i \in Ingresses PROVE GraphIn(ann'[i], lbs', vss')
  <2>1. CASE PersistMember
    <3>1. (\E m : ann' = [ann EXCEPT ![m] = w.a]) /\ pc = "persist"
      BY <2>1, FreshWrites DEF PersistMember
    <3> QED
      BY <1>1, <1>3, <1>4, <3>1
  <2>2. CASE StripObserved \/ RemoveFinalizer
    <3>1. ann' = [ann EXCEPT ![w.on] = NoAnnotations]
      BY <2>2, FreshWrites DEF StripObserved
    <3> QED
      BY <1>1, <1>3, <3>1, GraphOfNothing
  <2> QED
    BY <1>3, <2>1, <2>2, AnnWriters
<1>6. ASSUME pc' # "idle"
      PROVE  GraphIn(w'.a, lbs', vss') /\ (pc' \in AfterLB => lbs'[w'.a.lb].st = "ready")
  <2>1. ASSUME pc \in AfterLB PROVE lbs'[w.a.lb].st = "ready"
    <3>1. w.a.lb \in LbIds /\ lbs[w.a.lb].st = "ready" /\ ~CleanParents
      BY <2>1 DEF GraphInv, TypeInv, InHand, CleanParents, AfterLB, ListenerCalls
    <3> QED
      BY <3>1, LBGoes
  <2>2. CASE UNCHANGED <<pc, w>>
    BY <1>4, <1>6, <2>1, <2>2
  <2>3. CASE Worker
    <3>1. CASE pc' \notin Converging
      <4>1. w' = w /\ pc # "idle" /\ pc' \notin AfterLB
        BY <1>6, <2>3, <3>1, LateSteps DEF Converging
      <4> QED
        BY <1>4, <4>1
    <3>2. CASE pc = "finalizer" /\ pc' = "lb" /\ w' = w
      BY <1>4, <3>2 DEF AfterLB, ListenerCalls
    <3>3. CASE /\ pc = "lb" /\ pc' = "vip" /\ UNCHANGED <<ing, ann, vss>>
               /\ \E l \in LbIds : w' = [w EXCEPT !.a = WithLB(w.a, l)] /\ Obtained(l)
      <4>1. PICK l \in LbIds : w' = [w EXCEPT !.a = WithLB(w.a, l)] /\ Obtained(l)
        BY <3>3
      <4>2. w'.a = WithLB(w.a, l)
        BY <1>1, <4>1 DEF Work
      <4>3. GraphIn(w.a, lbs, vss)
        BY <3>3 DEF GraphInv
      <4>4. GraphIn(WithLB(w.a, l), lbs', vss')
        BY <3>3, <4>1, <4>3, GraphOfWithLB
      <4>5. lbs'[l].st = "ready" /\ WithLB(w.a, l).lb = l
        BY <4>1, WithLBParts DEF Obtained
      <4> QED
        BY <4>2, <4>4, <4>5
    <3>4. CASE pc \in AfterLB /\ pc' \in AfterLB
      <4>1. w'.a.lb = w.a.lb
        BY <2>3, <3>4, PassFrame DEF Converging
      <4> QED
        BY <2>1, <2>3, <3>4, <4>1, GraphOfPass
    <3> QED
      BY <2>3, <3>1, <3>2, <3>3, <3>4, WorkerFrom
  <2>4. CASE (\E i \in Ingresses : Take(i)) /\ ~UNCHANGED <<pc, w>>
    <3>1. \E i \in Ingresses : w'.a = ann[i] /\ pc' \notin AfterLB
      BY <2>4, TakeWork DEF AfterLB, ListenerCalls
    <3> QED
      BY <1>3, <3>1
  <2> QED
    BY <2>2, <2>3, <2>4, PassWriters
<1> QED
  BY <1>5, <1>6 DEF GraphInv, GraphIn, Visible, IsFiniteSet, AfterLB, ListenerCalls

-----------------------------------------------------------------------------
(* What a has recorded is also recorded by b, or gone, or about to go.       *)
KeptIn(a, b, L, V) ==
    /\ \A l \in CleanupLBs(a) : Visible(l, L) => l \in CleanupLBs(b)
    /\ \A e \in a.vs : V[e.id].st \in {"absent", "deleting"} \/ e \in b.vs

(* A pass begins with what is recorded, and its clean-up stays with it.      *)
StartInv == pc \in {"finalizer", "lb", "children", "clean"} => w.a = ann[w.on]

(* Nothing that was recorded on the Ingress at hand is lost on the way, and  *)
(* the members that are left to a departing Ingress are others.              *)
KeptInv ==
    pc \in Converging =>
       KeptIn(ann[w.on], w.a, lbs, vss) /\ (w.why = "delete" => w.on \notin w.members)

(* The members that have had their turn have recorded what is in hand.       *)
RecordedInv == pc \in {"persist", "publish"} => \A m \in w.members \ w.left : ann[m] = w.a

(* A clean-up that spares the LBService knows of another that records it.    *)
SharedInv ==
    pc \in {"children", "clean"} /\ w.shared =>
       \E j \in Ingresses \ {w.on} : w.a.lb \in CleanupLBs(ann[j])
ClearInv == pc = "clean" => Cardinality(CleanupLBs(w.a)) <= 1

(* Before its finalizer goes an Ingress has handed on what it had recorded.  *)
HandedOn(i) ==
    /\ \A l \in CleanupLBs(ann[i]) :
          Visible(l, lbs) => \E j \in Ingresses \ {i} : l \in CleanupLBs(ann[j])
    /\ \A e \in ann[i].vs : \/ vss[e.id].st \in {"absent", "deleting"}
                            \/ \E j \in Ingresses \ {i} : e \in ann[j].vs
HandedOnInv == pc = "unfinalize" => HandedOn(w.on)

(* What is not there has no finalizer.                                       *)
FinInv == \A i \in Ingresses : ~ing[i].there => ~ing[i].fin

ReleaseInv ==
    StartInv /\ KeptInv /\ RecordedInv /\ SharedInv /\ ClearInv /\ HandedOnInv /\ FinInv

(* What is gone of the recorded stays gone.                                  *)
LEMMA KeptStays ==
    ASSUME TypeInv, [Next]_vars, NEW a \in Recorded, NEW b, KeptIn(a, b, lbs, vss)
    PROVE  KeptIn(a, b, lbs', vss')
<1>1. a \in Annotations
  BY RecordedTypes
<1>2. ASSUME NEW l \in CleanupLBs(a), Visible(l, lbs') PROVE l \in CleanupLBs(b)
  <2>1. l \in LbIds /\ l \notin FreeLBs
    BY <1>1 DEF CleanupLBs, Annotations, FreeLBs
  <2> QED
    BY <1>2, <2>1, LBNames DEF KeptIn, Visible
<1>3. ASSUME NEW e \in a.vs PROVE vss'[e.id].st \in {"absent", "deleting"} \/ e \in b.vs
  <2>1. e.id \in VsIds /\ e.id \notin FreeVSs
        /\ (vss[e.id].st \in {"absent", "deleting"} \/ e \in b.vs)
    BY <1>1 DEF Annotations, FreeVSs, KeptIn
  <2>2. NoVS.st = "absent"
    BY DEF NoVS
  <2> QED
    BY <2>1, <2>2, VSSteps
<1> QED
  BY <1>2, <1>3 DEF KeptIn

(* Only the LBService at hand is recorded and there.                         *)
LEMMA OneVisible ==
    ASSUME NEW a, NEW L, NEW V, GraphIn(a, L, V), NEW l \in CleanupLBs(a), Visible(l, L)
    PROVE  l = a.lb
BY DEF GraphIn, CleanupLBs, Visible

(* With an LBService found or created none is lost that is there.            *)
LEMMA KeptWithLB ==
    ASSUME TypeInv, [Next]_vars, GraphIn(w.a, lbs, vss), NEW l \in LbIds, Obtained(l)
    PROVE  KeptIn(w.a, WithLB(w.a, l), lbs', vss')
<1>1. w.a.lb \notin FreeLBs /\ w.a.lb \in LbIds \cup {NoId} /\ w.a \in Recorded
  BY WorkParts DEF FreeLBs, Recorded, Annotations
<1>2. ASSUME NEW k \in CleanupLBs(w.a), Visible(k, lbs') PROVE k = l /\ k # NoId
  <2>1. k = w.a.lb /\ k # NoId /\ k \in LbIds
    BY <1>1, <1>2, GraphStays, OneVisible DEF Visible
  <2>2. LBVisible(w.a.lb)
    BY <1>1, <1>2, <2>1, LBNames DEF LBVisible, Visible
  <2>3. UsableLBs = {w.a.lb}
    BY <2>2 DEF UsableLBs
  <2> QED
    BY <2>1, <2>3 DEF Obtained
<1>3. WithLB(w.a, l).lb = l /\ WithLB(w.a, l).vs = w.a.vs
  BY WithLBParts
<1> QED
  BY <1>2, <1>3 DEF KeptIn, CleanupLBs

(* Behind the LBService a listener only leaves what is in hand when it is    *)
(* gone, or deleted in the same step.                                        *)
LEMMA KeptOfPass ==
    ASSUME FreshInv, TypeInv, GraphInv, [Next]_vars, Worker, pc \in AfterLB, pc' \in AfterLB
    PROVE  KeptIn(w.a, w'.a, lbs', vss')
<1>1. pc # "idle" /\ pc' # "idle" /\ pc' \in Converging /\ w.a \in Recorded
  BY DEF AfterLB, ListenerCalls, Converging, Recorded
<1>2. GraphIn(w.a, lbs, vss) /\ GraphIn(w.a, lbs', vss')
  BY <1>1, GraphStays DEF GraphInv
<1>3. w'.a.lb = w.a.lb
  BY <1>1, PassFrame
<1>4. \A l \in CleanupLBs(w.a) : Visible(l, lbs') => l \in CleanupLBs(w'.a)
  BY <1>2, <1>3, OneVisible DEF Visible, CleanupLBs
<1>5. \A e \in w.a.vs : /\ vss[e.id].st # "absent" => vss[e.id].lb = w.a.lb
                        /\ e.id \in VsIds
                        /\ \A f \in w.a.vs : f.name = e.name => f = e
  BY <1>2, WorkParts DEF GraphIn, Annotations
<1> SUFFICES ASSUME NEW e \in w.a.vs
             PROVE  vss'[e.id].st \in {"absent", "deleting"} \/ e \in w'.a.vs
  BY <1>4 DEF KeptIn
<1>6. CASE w'.a.vs = w.a.vs
  BY <1>6
<1>7. CASE KeepListener \/ CreateListener
  <2>1. PICK v \in VsIds :
           /\ w' = WithVS(v)
           /\ \/ KeepListener /\ [name |-> Name, id |-> v] \in w.a.vs /\ vss' = vss
              \/ CreateListener /\ v \in FreeVSs /\ Found = {} /\ \A u \in VsIds \ {v} : vss'[u] = vss[u]
    BY <1>1, <1>2, <1>7, ListenerAtHand
  <2>2. w'.a.vs = {f \in w.a.vs : f.name # Name} \cup {[name |-> Name, id |-> v]}
    BY <2>1, WithVSParts
  <2>3. CASE e.name # Name
    BY <2>2, <2>3
  <2>4. CASE e.name = Name /\ [name |-> Name, id |-> v] \in w.a.vs
    <3>1. e = [name |-> Name, id |-> v]
      BY <1>5, <2>4
    <3> QED
      BY <2>2, <3>1
  <2>5. CASE e.name = Name /\ v \in FreeVSs /\ Found = {} /\ \A u \in VsIds \ {v} : vss'[u] = vss[u]
    <3>1. e.id \in Current
      BY <2>5 DEF Current, RecordedAs
    <3>2. vss[e.id].st = "absent"
      BY <1>5, <2>5, <3>1 DEF Found, Listed
    <3>3. e.id # v
      BY <1>1, <2>5 DEF FreeVSs
    <3> QED
      BY <1>5, <2>5, <3>2, <3>3
  <2> QED
    BY <2>1, <2>3, <2>4, <2>5
<1>8. CASE DeleteObsoleteListeners
  <2>1. PICK R : w' = [w EXCEPT !.left = w.members,
                                !.a = [w.a EXCEPT !.vs = {f \in w.a.vs : f.name \in StackNames}, !.rules = R]]
    BY <1>8 DEF DeleteObsoleteListeners, Continue
  <2> DEFINE S == {f \in w.a.vs : f.name \in StackNames}
  <2>2. e \in S \/ e.name \notin StackNames
    OBVIOUS
  <2>3. w' = [w EXCEPT !.left = w.members, !.a = [w.a EXCEPT !.vs = S, !.rules = R]]
    BY <2>1
  <2> HIDE DEF S
  <2>4. w'.a.vs = S
    BY <2>3, WorkParts DEF Work, Annotations
  <2>5. ASSUME e.name \notin StackNames PROVE vss'[e.id].st \in {"absent", "deleting"}
    <3>1. e.name \in NameOf(e.id)
      BY DEF NameOf
    <3>2. PICK T : vss'[e.id] = IF Listed(e.id) /\ \E n \in NameOf(e.id) : n \notin StackNames
                                THEN [vss[e.id] EXCEPT !.st = "deleting", !.rules = T] ELSE vss[e.id]
      BY <1>5, <1>8 DEF DeleteObsoleteListeners
    <3>3. vss[e.id] \in VSRecord
      BY <1>5 DEF TypeInv, TypeOK, StateTypeOK
    <3>4. CASE Listed(e.id)
      BY <2>5, <3>1, <3>2, <3>3, <3>4 DEF VSRecord
    <3>5. CASE ~Listed(e.id)
      BY <1>5, <3>2, <3>5 DEF Listed
    <3> QED
      BY <3>4, <3>5
  <2> QED
    BY <2>2, <2>4, <2>5
<1> QED
  BY <1>1, <1>6, <1>7, <1>8, PassFrame

(* The LBServices a clean-up may have to delete are finitely many.           *)
LEMMA FiniteCleanup ==
    ASSUME NEW a, NEW L, NEW V, GraphIn(a, L, V)
    PROVE  IsFiniteSet(CleanupLBs(a))
<1>1. IsFiniteSet({e.id : e \in a.lbs})
  <2>1. IsFiniteSet(a.lbs)
    BY DEF GraphIn
  <2> DEFINE f == [e \in a.lbs |-> e.id]
  <2>2. f \in Surjection(a.lbs, {e.id : e \in a.lbs})
    BY DEF Surjection
  <2> QED
    BY <2>1, <2>2, FS_Surjection
<1>2. IsFiniteSet({a.lb} \cup {e.id : e \in a.lbs})
  BY <1>1, FS_Singleton, FS_Union
<1> QED
  BY <1>2, FS_Subset DEF CleanupLBs

(* The pass that records is the one that has deleted what is obsolete.       *)
LEMMA RecordSteps ==
    ASSUME FreshInv, TypeInv, Worker, pc' \in {"persist", "publish"}
    PROVE  \/ /\ pc = "obsolete-listeners" /\ pc' = "persist"
              /\ w'.left = w'.members /\ w'.members = w.members /\ w'.base = w.base
           \/ PersistMember /\ pc = "persist"
           \/ PublishMember /\ pc = "publish" /\ w' = w /\ UNCHANGED ann
<1>1. ~Return /\ ~EndPass
  BY DEF Return, EndPass
<1>2. CASE DeleteObsoleteListeners
  <2>1. PICK a : w' = [w EXCEPT !.left = w.members, !.a = a]
    BY <1>2 DEF DeleteObsoleteListeners, Continue
  <2>2. pc = "obsolete-listeners" /\ pc' = "persist"
    BY <1>2 DEF DeleteObsoleteListeners, Continue
  <2> QED
    BY <2>1, <2>2, WorkParts DEF Work
<1>3. CASE EnsureGroup /\ ~DeleteObsoleteListeners
  BY <1>1, <1>3 DEF EnsureGroup, GetLB, CreateLB, KeepVIP, CreateVIP, UseVIP, KeepListener,
     RefuseListener, CreateListener, AfterListener, UploadCertificate, BindCertificate,
     UnbindCertificate, DeleteCertificate, AfterCertificates, KeepPool, CreatePool, KeepRule,
     CreateRule, NextPool, NextRule, DropRules, DeleteObsoletePools, Continue
<1>4. CASE PersistMember
  BY <1>4 DEF PersistMember
<1>5. CASE PublishMember
  BY <1>5 DEF PublishMember
<1>6. CASE \/ EnsureFinalizer \/ StripObserved \/ RemoveFinalizer \/ CleanChildren \/ CleanListener
           \/ CleanParents \/ PassFails
  BY <1>1, <1>6 DEF EnsureFinalizer, StripObserved, RemoveFinalizer, CleanChildren, CleanListener,
     CleanParents, PassFails, Continue
<1> QED
  BY <1>2, <1>3, <1>4, <1>5, <1>6 DEF Worker

(* A pass that records goes on recording.                                    *)
LEMMA RecordsOn ==
    ASSUME TypeInv, Worker, pc \in {"persist", "publish"}, pc' \in Converging
    PROVE  pc' \in {"persist", "publish"}
<1>1. PersistMember \/ PublishMember \/ PassFails
  BY DEF Worker, EnsureFinalizer, EnsureGroup, GetLB, CreateLB, KeepVIP, CreateVIP, KeepListener,
     RefuseListener, CreateListener, UploadCertificate, BindCertificate, UnbindCertificate,
     DeleteCertificate, KeepPool, CreatePool, KeepRule, CreateRule, DropRules, DeleteObsoletePools,
     DeleteObsoleteListeners, StripObserved, RemoveFinalizer, CleanChildren, CleanListener,
     CleanParents
<1>2. AfterPersist \in {"idle", "strip", "unfinalize"}
  <2>1. w.why \in {"ensure", "leave", "delete"}
    BY WorkParts DEF Work, Whys
  <2> QED
    BY <2>1 DEF AfterPersist
<1>3. pc' \notin {"idle", "strip", "unfinalize"}
  BY DEF Converging, AfterLB, ListenerCalls
<1>4. CASE PersistMember
  BY <1>4 DEF PersistMember
<1>5. CASE PublishMember
  BY <1>2, <1>3, <1>5 DEF PublishMember
<1>6. CASE PassFails
  BY <1>3, <1>6 DEF PassFails, Return, EndPass
<1> QED
  BY <1>1, <1>4, <1>5, <1>6

(* Nothing is recorded while the pass stands still.                          *)
LEMMA StandsStill ==
    ASSUME TypeInv, [Next]_vars, pc' = pc \/ ~Worker
    PROVE  UNCHANGED ann \/ pc' = "idle"
<1>1. CASE PersistMember
  <2>1. pc = "persist" /\ pc' = "publish"
    BY <1>1 DEF PersistMember
  <2>2. ASSUME NEW i \in Ingresses, Take(i) PROVE FALSE
    BY <2>1, <2>2 DEF Take, Ignore, BeginEnsure, BeginLeave, BeginDepart, BeginCleanup, Start, Dequeue
  <2> QED
    BY <2>1, <2>2, PassWriters
<1>2. CASE StripObserved \/ RemoveFinalizer
  BY <1>2 DEF StripObserved, RemoveFinalizer, EndPass
<1> QED
  BY <1>1, <1>2, AnnWriters

(* Between the reads of a pass and its own writes nobody else writes.        *)
LEMMA FreshInit == Init /\ StaleReads = FALSE => FreshInv
BY DEF Init, FreshInv, Converging, AfterLB, ListenerCalls

LEMMA FreshStep ==
    ASSUME FreshInv, TypeInv, [Next]_vars
    PROVE  FreshInv'
<1>1. /\ ann \in [Ingresses -> Annotations] /\ ing \in [Ingresses -> Object]
      /\ w \in Work /\ w.members \subseteq Ingresses
      /\ w'.members \subseteq Ingresses /\ w'.left \subseteq Ingresses
  BY WorkParts, NextType DEF TypeInv, TypeOK, StateTypeOK, Work
<1>2. CASE pc' = "idle"
  BY <1>2 DEF FreshInv, Converging, AfterLB, ListenerCalls
<1>3. ASSUME pc # "idle", w.why = "delete", pc' # "idle"
      PROVE  ing'[w.on].there /\ ing'[w.on].del
  <2>1. ing[w.on].there /\ ing[w.on].del /\ w.on \in Ingresses
    BY <1>3, WorkParts DEF FreshInv
  <2> QED
    BY <1>3, <2>1, IngSteps, UserSteps
<1>4. CASE pc' # "idle" /\ UNCHANGED <<pc, w>>
  <2>1. UNCHANGED ann
    BY <1>4, StandsStill
  <2> QED
    BY <1>3, <1>4, <2>1 DEF FreshInv
<1>5. CASE pc' # "idle" /\ (\E i \in Ingresses : Take(i)) /\ ~UNCHANGED <<pc, w>>
  <2>1. PICK i \in Ingresses :
           /\ UNCHANGED <<ing, ann>>
           /\ w'.on = i /\ w'.a = ann[i] /\ (w'.why = "delete" => ing[i].there /\ ing[i].del)
           /\ \/ /\ pc' \in {"finalizer", "lb", "strip"}
                 /\ \A m \in Ingresses \cap w'.members : w'.base[m] = ann[m]
              \/ pc' \in {"unfinalize", "children"} /\ w'.why = "delete"
    BY <1>5, TakeWork
  <2>2. "strip" \notin Converging /\ "unfinalize" \notin Converging /\ "children" \notin Converging
    BY DEF Converging, AfterLB, ListenerCalls
  <2> QED
    BY <1>1, <2>1, <2>2 DEF FreshInv
<1>6. CASE Worker /\ pc' \in Converging
  <2>1. pc' \notin {"idle", "finalizer", "children", "clean", "unfinalize"} /\ pc # "idle"
    BY <1>6, WorkerFrom DEF Converging, AfterLB, ListenerCalls
  <2>2. /\ w'.why = w.why /\ w'.on = w.on /\ w'.members = w.members
        /\ w'.base = w.base \/ PersistMember
    BY <1>1, <1>6, WorkerFrom, PassFrame DEF Work
  <2>3. PersistMember \/ UNCHANGED ann
    BY <2>1, AnnSteps
  <2>4. ASSUME NEW m \in IF pc' \in {"persist", "publish"} THEN w'.left ELSE w'.members
        PROVE  w'.base[m] = ann'[m]
    <3>1. pc \in Converging
      BY <1>6, WorkerFrom DEF Converging
    <3>2. CASE pc' \in {"persist", "publish"}
      <4>1. CASE pc = "obsolete-listeners" /\ w'.left = w.members /\ w'.base = w.base
        BY <2>1, <2>3, <2>4, <3>1, <3>2, <4>1 DEF FreshInv, PersistMember
      <4>2. CASE pc = "publish" /\ w' = w /\ UNCHANGED ann
        BY <2>4, <3>1, <3>2, <4>2 DEF FreshInv
      <4>3. CASE PersistMember
        <5>1. PICK k \in w.left :
                 /\ ann' = [ann EXCEPT ![k] = w.a]
                 /\ w' = [w EXCEPT !.left = w.left \ {k}, !.at = k, !.base[k] = NoAnnotations]
          BY <4>3, FreshWrites
        <5>2. w'.left = w.left \ {k} /\ w'.base = [w.base EXCEPT ![k] = NoAnnotations]
          BY <1>1, <5>1 DEF Work
        <5>3. m \in w.left /\ m # k /\ m \in Ingresses /\ w.base[m] = ann[m]
          BY <1>1, <2>4, <3>1, <3>2, <4>3, <5>2 DEF FreshInv, PersistMember
        <5> QED
          BY <1>1, <5>1, <5>2, <5>3 DEF Work
      <4> QED
        BY <1>6, <2>2, <3>2, <4>1, <4>2, <4>3, RecordSteps
    <3>3. CASE pc' \notin {"persist", "publish"}
      <4>1. ~PersistMember /\ pc \notin {"persist", "publish"}
        BY <1>6, <2>1, <3>3, RecordsOn DEF PersistMember
      <4> QED
        BY <2>2, <2>3, <2>4, <3>1, <3>3, <4>1 DEF FreshInv
    <3> QED
      BY <3>2, <3>3
  <2> QED
    BY <1>3, <2>1, <2>2, <2>4 DEF FreshInv
<1>7. CASE Worker /\ pc' \notin Converging /\ pc' # "idle"
  <2>1. /\ w' = w /\ pc # "idle" /\ pc' # "finalizer"
        /\ \/ pc \in {"children", "clean"} /\ w.why = "delete"
           \/ pc = "publish" /\ pc' = AfterPersist
    BY <1>7, LateSteps DEF FreshInv, Converging
  <2>2. pc' \in {"children", "clean", "unfinalize"} => w.why = "delete"
    <3>1. w.why \in {"ensure", "leave", "delete"}
      BY <1>1 DEF Work, Whys
    <3> QED
      BY <2>1, <3>1 DEF AfterPersist
  <2> QED
    BY <1>3, <1>7, <2>1, <2>2 DEF FreshInv
<1> QED
  BY <1>2, <1>4, <1>5, <1>6, <1>7, PassWriters

(* Whatever the passes do and in whatever order groups are joined and left,  *)
(* two Ingresses that record one LBService are of the same group; as long as *)
(* passes read the Ingresses as they are and no Ingress without a group is   *)
(* given one (the group "" recorded on it is then not seen to have been      *)
(* left).                                                                    *)
THEOREM NoForeignLBService ==
    ASSUME StaleReads = FALSE, \A m \in Moves : m[1] # ""
    PROVE  Spec => []GroupsApart
<1> DEFINE IInv == TypeInv /\ FreshInv /\ ApartInv /\ GroupsApart
<1>1. Init => IInv
  <2> SUFFICES ASSUME Init PROVE ApartInv /\ GroupsApart
    BY InitType, FreshInit
  <2>1. \A i \in Ingresses : ann[i] = NoAnnotations /\ ~ing[i].del
    <3>1. \A i \in Ingresses : ~NewObject(i, FirstGroup).del
      BY NewObjectParts, IngressAssumption
    <3>2. ~Absent.del
      BY DEF Absent
    <3> QED
      BY <3>1, <3>2 DEF Init
  <2>2. KeyInv
    BY <2>1, NothingRecorded DEF KeyInv
  <2>3. MemberInv /\ PassInv
    BY DEF Init, MemberInv, PassInv, Converging, AfterLB, ListenerCalls
  <2>4. NameInv /\ GroupsApart
    BY <2>1, NothingRecorded DEF NameInv, GroupsApart
  <2> QED
    BY <2>2, <2>3, <2>4 DEF ApartInv
<1>2. IInv /\ [Next]_vars => IInv'
  <2> SUFFICES ASSUME TypeInv, FreshInv, ApartInv, GroupsApart, [Next]_vars PROVE GroupsApart'
    BY NextType, FreshStep, KeyStep, MemberStep, NameStep, PassStep DEF ApartInv
  <2>1. /\ ann \in [Ingresses -> Annotations]
        /\ \A i, j \in Ingresses :
              ann[i].lb # NoId /\ ann[i].lb = ann[j].lb => Own(ann[i]) = Own(ann[j])
    BY DEF TypeInv, TypeOK, StateTypeOK, GroupsApart, OwnKeys, Own
  <2> SUFFICES ASSUME NEW i \in Ingresses, NEW j \in Ingresses,
                      ann'[i].lb # NoId, ann'[i].lb = ann'[j].lb
               PROVE  Own(ann'[i]) = Own(ann'[j])
    BY DEF GroupsApart, OwnKeys, Own
  <2>2. CASE PersistMember
    <3>1. PICK m \in w.left : ann' = [ann EXCEPT ![m] = w.a] /\ pc = "persist"
      BY <2>2, FreshWrites DEF PersistMember
    <3>2. Own(w.a) = {w.owner} /\ \A k \in Ingresses : ann[k].lb = w.a.lb => Own(ann[k]) = {w.owner}
      BY <3>1 DEF ApartInv, PassInv, AfterLB
    <3> QED
      BY <2>1, <3>1, <3>2
  <2>3. CASE StripObserved \/ RemoveFinalizer
    <3>1. ann' = [ann EXCEPT ![w.on] = NoAnnotations]
      BY <2>3, FreshWrites DEF StripObserved
    <3> QED
      BY <2>1, <3>1, NothingRecorded
  <2> QED
    BY <2>1, <2>2, <2>3, AnnWriters
<1>3. IInv => GroupsApart
  OBVIOUS
<1> HIDE DEF IInv
<1> QED
  BY <1>1, <1>2, <1>3, PTL DEF Spec

-----------------------------------------------------------------------------
(* The clean-up starts from what is recorded, of one LBService, and knows    *)
(* who else records it.                                                      *)
LEMMA CleanupStep ==
    ASSUME FreshInv, TypeInv, GraphInv, ReleaseInv, [Next]_vars
    PROVE  StartInv' /\ SharedInv' /\ ClearInv'
<1>1. CASE pc' \notin {"finalizer", "lb", "children", "clean"}
  BY <1>1 DEF StartInv, SharedInv, ClearInv
<1> SUFFICES ASSUME pc' \in {"finalizer", "lb", "children", "clean"}
             PROVE  /\ w'.a = ann'[w'.on]
                    /\ pc' \in {"children", "clean"} /\ w'.shared =>
                          \E j \in Ingresses \ {w'.on} : w'.a.lb \in CleanupLBs(ann'[j])
                    /\ pc' = "clean" => Cardinality(CleanupLBs(w'.a)) <= 1
  BY <1>1 DEF StartInv, SharedInv, ClearInv, CleanupLBs
<1>2. CASE UNCHANGED <<pc, w>>
  BY <1>2, StandsStill DEF ReleaseInv, StartInv, SharedInv, ClearInv
<1>3. CASE (\E i \in Ingresses : Take(i)) /\ ~UNCHANGED <<pc, w>>
  <2>1. PICK i \in Ingresses :
           /\ UNCHANGED ann /\ w'.on = i /\ w'.a = ann[i] /\ pc' # "clean"
           /\ pc' = "children" /\ w'.shared => \E j \in Ingresses : SharesLB(j, i, ann[i].lb)
    BY <1>3, TakeWork
  <2>2. ASSUME NEW j \in Ingresses, SharesLB(j, i, ann[i].lb)
        PROVE  j # i /\ ann[i].lb \in CleanupLBs(ann[j])
    <3>1. PICK e \in ann[j].lbs : e.id = ann[i].lb /\ j # i
      BY <2>2, FreshReads DEF SharesLB
    <3>2. ann[j] \in Annotations
      BY DEF TypeInv, TypeOK, StateTypeOK
    <3>3. e.id # NoId
      BY <3>2, NullTypes DEF Annotations
    <3> QED
      BY <3>1, <3>3 DEF CleanupLBs
  <2> QED
    BY <2>1, <2>2
<1>4. CASE Worker
  <2>1. CASE pc' \in Converging
    <3>1. pc' \notin AfterLB /\ pc' # "vip" /\ pc' \notin {"children", "clean"}
      BY <2>1 DEF AfterLB, ListenerCalls, Converging
    <3>2. pc = "finalizer" /\ EnsureFinalizer /\ w' = w
      BY <1>4, <2>1, <3>1, WorkerFrom
    <3>3. UNCHANGED ann
      BY <3>2 DEF EnsureFinalizer
    <3> QED
      BY <3>1, <3>2, <3>3 DEF ReleaseInv, StartInv
  <2>2. CASE pc' \notin Converging
    <3>1. w' = w /\ UNCHANGED ann /\ pc = "children" /\ pc' = "clean" /\ ~Ambiguous
      <4>1. AfterPersist \in {"idle", "strip", "unfinalize"}
        BY WorkParts DEF AfterPersist, Work, Whys
      <4>2. pc' \in {"children", "clean"}
        BY <2>2 DEF Converging
      <4> QED
        BY <1>4, <2>2, <4>1, <4>2, LateSteps
    <3>2. Cardinality(CleanupLBs(w.a)) <= 1
      <4>1. IsFiniteSet(CleanupLBs(w.a))
        BY <3>1, FiniteCleanup DEF GraphInv
      <4>2. Cardinality(CleanupLBs(w.a)) \in Nat
        BY <4>1, FS_CardinalityType
      <4> QED
        BY <3>1, <4>2 DEF Ambiguous
    <3> QED
      BY <3>1, <3>2 DEF ReleaseInv, StartInv, SharedInv
  <2> QED
    BY <2>1, <2>2
<1> QED
  BY <1>2, <1>3, <1>4, PassWriters

(* What the Ingress at hand has recorded stays in hand.                      *)
LEMMA KeptStep ==
    ASSUME FreshInv, TypeInv, GraphInv, ReleaseInv, [Next]_vars
    PROVE  KeptInv'
<1> SUFFICES ASSUME pc' \in Converging
             PROVE  /\ KeptIn(ann'[w'.on], w'.a, lbs', vss')
                    /\ w'.why = "delete" => w'.on \notin w'.members
  BY DEF KeptInv, KeptIn, CleanupLBs, Visible, Converging, AfterLB, ListenerCalls
<1>1. \A a, L, V : KeptIn(a, a, L, V)
  BY DEF KeptIn
<1>2. \A a, b, c, L, V : KeptIn(a, b, L, V) /\ KeptIn(b, c, L, V) => KeptIn(a, c, L, V)
  BY DEF KeptIn
<1>3. /\ ann \in [Ingresses -> Annotations] /\ w \in Work
      /\ pc # "idle" => w.on \in Ingresses
  BY WorkParts DEF TypeInv, TypeOK, StateTypeOK
<1>4. pc' # "idle"
  BY DEF Converging, AfterLB, ListenerCalls
<1>5. ASSUME pc \in Converging
      PROVE  /\ KeptIn(ann[w.on], w.a, lbs', vss')
             /\ w.why = "delete" => w.on \notin w.members
  <2>1. pc # "idle" /\ ann[w.on] \in Recorded
    BY <1>3, <1>5 DEF Converging, AfterLB, ListenerCalls, Recorded
  <2> QED
    BY <1>5, <2>1, KeptStays DEF ReleaseInv, KeptInv
<1>6. CASE UNCHANGED <<pc, w>>
  <2>1. UNCHANGED ann
    BY <1>4, <1>6, StandsStill
  <2> QED
    BY <1>5, <1>6, <2>1
<1>7. CASE (\E i \in Ingresses : Take(i)) /\ ~UNCHANGED <<pc, w>>
  <2>1. PICK i \in Ingresses :
           /\ UNCHANGED ann /\ w'.on = i /\ w'.a = ann[i]
           /\ w'.why = "delete" => i \notin w'.members
    BY <1>7, TakeWork DEF Converging, AfterLB, ListenerCalls
  <2> QED
    BY <1>1, <2>1
<1>8. CASE Worker
  <2>1. CASE pc = "finalizer" /\ EnsureFinalizer /\ w' = w
    BY <1>5, <2>1 DEF EnsureFinalizer, Converging
  <2>2. CASE /\ pc = "lb" /\ pc' = "vip" /\ UNCHANGED <<ing, ann, vss>>
             /\ \E l \in LbIds : w' = [w EXCEPT !.a = WithLB(w.a, l)] /\ Obtained(l)
    <3>1. PICK l \in LbIds : w' = [w EXCEPT !.a = WithLB(w.a, l)] /\ Obtained(l)
      BY <2>2
    <3>2. w'.a = WithLB(w.a, l) /\ w'.on = w.on /\ w'.why = w.why /\ w'.members = w.members
      BY <1>3, <3>1 DEF Work
    <3>3. GraphIn(w.a, lbs, vss) /\ w.a = ann[w.on]
      BY <2>2 DEF GraphInv, ReleaseInv, StartInv
    <3>4. KeptIn(w.a, WithLB(w.a, l), lbs', vss')
      BY <3>1, <3>3, KeptWithLB
    <3> QED
      BY <1>5, <2>2, <3>2, <3>3, <3>4 DEF Converging
  <2>3. CASE pc \in AfterLB /\ pc' \in AfterLB
    <3>1. w'.on = w.on /\ w'.why = w.why /\ w'.members = w.members
      BY <1>8, <2>3, PassFrame
    <3>2. KeptIn(w.a, w'.a, lbs', vss')
      BY <1>8, <2>3, KeptOfPass
    <3>3. KeptIn(ann[w.on], w.a, lbs', vss') /\ (w.why = "delete" => w.on \notin w.members)
      BY <1>5, <2>3 DEF Converging
    <3>4. w.on \in Ingresses
      BY <1>3, <2>3 DEF AfterLB, ListenerCalls
    <3>5. ann'[w.on] = ann[w.on] \/ ann'[w.on] = w.a
      <4>1. CASE PersistMember
        <5>1. \E m : ann' = [ann EXCEPT ![m] = w.a]
          BY <4>1, FreshWrites DEF PersistMember
        <5> QED
          BY <1>3, <3>4, <5>1
      <4>2. ~StripObserved /\ ~RemoveFinalizer
        BY <2>3 DEF StripObserved, RemoveFinalizer, AfterLB, ListenerCalls
      <4> QED
        BY <4>1, <4>2, AnnWriters
    <3> QED
      BY <1>2, <3>1, <3>2, <3>3, <3>5
  <2> QED
    BY <1>8, <2>1, <2>2, <2>3, WorkerFrom
<1> QED
  BY <1>6, <1>7, <1>8, PassWriters

(* The members are given what is in hand, one after another.                 *)
LEMMA RecordedStep ==
    ASSUME FreshInv, TypeInv, ReleaseInv, [Next]_vars
    PROVE  RecordedInv'
<1> SUFFICES ASSUME pc' \in {"persist", "publish"}, NEW m \in w'.members \ w'.left
             PROVE  ann'[m] = w'.a
  BY DEF RecordedInv
<1>1. /\ ann \in [Ingresses -> Annotations] /\ w \in Work /\ w.members \subseteq Ingresses
  BY WorkParts DEF TypeInv, TypeOK, StateTypeOK
<1>2. CASE UNCHANGED <<pc, w>>
  BY <1>2, StandsStill DEF ReleaseInv, RecordedInv
<1>3. CASE (\E i \in Ingresses : Take(i)) /\ ~UNCHANGED <<pc, w>>
  BY <1>3, TakeWork
<1>4. CASE Worker
  <2>1. CASE w'.left = w'.members
    BY <2>1
  <2>2. CASE PersistMember /\ pc = "persist"
    <3>1. PICK k \in w.left : /\ ann' = [ann EXCEPT ![k] = w.a]
                        /\ w' = [w EXCEPT !.left = w.left \ {k}, !.at = k, !.base[k] = NoAnnotations]
      BY <2>2, FreshWrites
    <3>2. w'.members = w.members /\ w'.left = w.left \ {k} /\ w'.a = w.a
      BY <1>1, <3>1 DEF Work
    <3>3. CASE m = k
      BY <1>1, <3>1, <3>2, <3>3
    <3>4. CASE m # k
      <4>1. ann[m] = w.a
        BY <2>2, <3>2, <3>4 DEF ReleaseInv, RecordedInv
      <4> QED
        BY <1>1, <3>1, <3>2, <3>4, <4>1
    <3> QED
      BY <3>3, <3>4
  <2>3. CASE pc = "publish" /\ w' = w /\ UNCHANGED ann
    BY <2>3 DEF ReleaseInv, RecordedInv
  <2> QED
    BY <1>4, <2>1, <2>2, <2>3, RecordSteps
<1> QED
  BY <1>2, <1>3, <1>4, PassWriters

(* What has been handed on stays handed on while the finalizer is there.     *)
LEMMA HandedOnStays ==
    ASSUME FreshInv, TypeInv, [Next]_vars, NEW i \in Ingresses, UNCHANGED ann,
           \A l \in CleanupLBs(ann[i]) :
              Visible(l, lbs) => \E j \in Ingresses \ {i} : l \in CleanupLBs(ann[j]),
           \A e \in ann[i].vs : \/ vss[e.id].st \in {"absent", "deleting"}
                                \/ \E j \in Ingresses \ {i} : e \in ann[j].vs
    PROVE  /\ \A l \in CleanupLBs(ann[i]) :
                 Visible(l, lbs') => \E j \in Ingresses \ {i} : l \in CleanupLBs(ann[j])
           /\ \A e \in ann[i].vs : \/ vss'[e.id].st \in {"absent", "deleting"}
                                   \/ \E j \in Ingresses \ {i} : e \in ann[j].vs
<1>1. ann[i] \in Annotations /\ ann[i] \in Recorded
  BY DEF TypeInv, TypeOK, StateTypeOK, Recorded
<1>2. ASSUME NEW l \in CleanupLBs(ann[i]), Visible(l, lbs') PROVE Visible(l, lbs)
  <2>1. l \in LbIds /\ l \notin FreeLBs
    BY <1>1 DEF CleanupLBs, Annotations, FreeLBs
  <2> QED
    BY <1>2, <2>1, LBNames DEF Visible
<1>3. ASSUME NEW e \in ann[i].vs, vss[e.id].st \in {"absent", "deleting"}
      PROVE  vss'[e.id].st \in {"absent", "deleting"}
  <2>1. e.id \in VsIds /\ e.id \notin FreeVSs
    BY <1>1 DEF Annotations, FreeVSs
  <2>2. NoVS.st = "absent"
    BY DEF NoVS
  <2> QED
    BY <1>3, <2>1, <2>2, VSSteps
<1> QED
  BY <1>2, <1>3

(* A pass comes to the finalizer only when what was recorded is gone or      *)
(* recorded on another: on the members that remain, or, for the last one,    *)
(* on one that keeps the LBService from being deleted.                       *)
LEMMA HandedOnStep ==
    ASSUME FreshInv, TypeInv, GraphInv, ReleaseInv, [Next]_vars
    PROVE  HandedOnInv'
<1> SUFFICES ASSUME pc' = "unfinalize"
             PROVE  /\ \A l \in CleanupLBs(ann'[w'.on]) : Visible(l, lbs') =>
                          \E j \in Ingresses \ {w'.on} : l \in CleanupLBs(ann'[j])
                    /\ \A e \in ann'[w'.on].vs :
                          \/ vss'[e.id].st \in {"absent", "deleting"}
                          \/ \E j \in Ingresses \ {w'.on} : e \in ann'[j].vs
  BY DEF HandedOnInv, HandedOn, CleanupLBs, Visible
<1>1. /\ ann \in [Ingresses -> Annotations]
      /\ pc # "idle" => w.on \in Ingresses
      /\ w.members \subseteq Ingresses
  BY WorkParts DEF TypeInv, TypeOK, StateTypeOK
<1>2. CASE UNCHANGED <<pc, w>>
  <2>1. UNCHANGED ann
    BY <1>2, StandsStill
  <2>2. HandedOn(w.on) /\ w.on \in Ingresses
    BY <1>1, <1>2 DEF ReleaseInv, HandedOnInv
  <2> QED
    BY <1>2, <2>1, <2>2, HandedOnStays DEF HandedOn
<1>3. CASE (\E i \in Ingresses : Take(i)) /\ ~UNCHANGED <<pc, w>>
  <2>1. PICK i \in Ingresses :
           /\ UNCHANGED <<ann, lbs, vss>> /\ w'.on = i /\ CleanupLBs(ann[i]) = {}
    BY <1>3, TakeWork
  <2>2. ann[i].lb \in LbIds \cup {NoId}
    BY <1>1 DEF Annotations
  <2>3. ann[i].lb = NoId
    BY <2>1, <2>2 DEF CleanupLBs
  <2>4. ann[i].vs = {}
    BY <2>3 DEF GraphInv, GraphIn
  <2> QED
    BY <2>1, <2>4
<1>4. CASE Worker
  <2>1. pc' \notin Converging
    BY DEF Converging, AfterLB, ListenerCalls
  <2>2. w' = w /\ UNCHANGED <<ann, lbs, vss>> /\ w.on \in Ingresses
        /\ \/ /\ pc = "clean"
              /\ Shown = {} /\ (w.shared \/ lbs[CleanupLB].st = "absent")
           \/ pc = "publish" /\ pc' = AfterPersist /\ w.left = {}
    BY <1>1, <1>4, <2>1, LateSteps
  <2>3. CASE pc = "clean" /\ Shown = {} /\ (w.shared \/ lbs[CleanupLB].st = "absent")
    <3>1. w.a = ann[w.on] /\ GraphIn(w.a, lbs, vss)
          /\ (w.shared => \E j \in Ingresses \ {w.on} : w.a.lb \in CleanupLBs(ann[j]))
      BY <2>3 DEF ReleaseInv, StartInv, SharedInv, GraphInv
    <3>2. CleanupLBs(w.a) = {CleanupLB}
      <4>1. CleanupLBs(w.a) # {}
        BY <2>3 DEF TypeInv, InHand
      <4>2. CleanupLB \in CleanupLBs(w.a)
        BY <4>1 DEF CleanupLB
      <4>3. IsFiniteSet(CleanupLBs(w.a)) /\ Cardinality(CleanupLBs(w.a)) <= 1
        BY <2>3, <3>1, FiniteCleanup DEF ReleaseInv, ClearInv
      <4>4. Cardinality(CleanupLBs(w.a)) \in Nat /\ Cardinality(CleanupLBs(w.a)) # 0
        BY <4>1, <4>3, FS_CardinalityType, FS_EmptySet
      <4>5. Cardinality(CleanupLBs(w.a)) = 1
        BY <4>3, <4>4
      <4>6. PICK x : CleanupLBs(w.a) = {x}
        BY <4>3, <4>5, FS_Singleton
      <4> QED
        BY <4>2, <4>6
    <3>3. w.a.lb = NoId \/ w.a.lb = CleanupLB
      BY <3>2 DEF CleanupLBs
    <3>4. ASSUME NEW l \in CleanupLBs(w.a), Visible(l, lbs)
          PROVE  \E j \in Ingresses \ {w.on} : l \in CleanupLBs(ann[j])
      <4>1. l = CleanupLB /\ w.shared
        BY <2>3, <3>2, <3>4 DEF Visible
      <4>2. PICK j \in Ingresses \ {w.on} : w.a.lb \in CleanupLBs(ann[j])
        BY <3>1, <4>1
      <4>3. w.a.lb # NoId
        BY <4>2 DEF CleanupLBs
      <4> QED
        BY <3>3, <4>1, <4>2, <4>3
    <3>5. ASSUME NEW e \in w.a.vs PROVE vss[e.id].st = "absent"
      <4>1. w.a.lb = CleanupLB
        BY <3>1, <3>3, <3>5 DEF GraphIn
      <4>2. vss[e.id].st # "absent" => vss[e.id].lb = w.a.lb
        BY <3>1 DEF GraphIn
      <4> QED
        BY <2>3, <4>1, <4>2 DEF Shown
    <3> QED
      BY <2>2, <3>1, <3>4, <3>5
  <2>4. CASE pc = "publish" /\ pc' = AfterPersist /\ w.left = {}
    <3>1. w.why = "delete"
      BY <2>4, WorkParts DEF AfterPersist, Work, Whys
    <3>2. /\ KeptIn(ann[w.on], w.a, lbs, vss) /\ w.on \notin w.members
          /\ w.members # {}
      BY <2>4, <3>1 DEF ReleaseInv, KeptInv, TypeInv, InHand, Converging, AfterLB
    <3>3. PICK m \in Ingresses \ {w.on} : m \in w.members
      BY <1>1, <3>2
    <3>4. ann[m] = w.a
      BY <2>4, <3>3 DEF ReleaseInv, RecordedInv
    <3> QED
      BY <2>2, <3>2, <3>3, <3>4 DEF KeptIn
  <2> QED
    BY <2>2, <2>3, <2>4
<1> QED
  BY <1>2, <1>3, <1>4, PassWriters

(* Only what is there has a finalizer.                                       *)
LEMMA FinStep ==
    ASSUME FreshInv, TypeInv, FinInv, [Next]_vars
    PROVE  FinInv'
<1> SUFFICES ASSUME NEW i \in Ingresses, ~ing'[i].there PROVE ~ing'[i].fin
  BY DEF FinInv
<1>1. ing \in [Ingresses -> Object]
  BY DEF TypeInv, TypeOK, StateTypeOK
<1>2. CASE ing'[i] = ing[i]
  BY <1>2 DEF FinInv
<1>3. CASE EnsureFinalizer
  <2>1. ing' = [ing EXCEPT ![w.on].fin = TRUE] /\ ing[w.on].there
    BY <1>3 DEF EnsureFinalizer
  <2>2. CASE i = w.on
    BY <1>1, <2>1, <2>2 DEF Object
  <2> QED
    BY <1>1, <1>2, <2>1, <2>2
<1>4. CASE RemoveFinalizer
  <2>1. ing' = [ing EXCEPT ![w.on] = Absent]
    BY <1>4, FreshWrites
  <2>2. ~Absent.fin
    BY DEF Absent
  <2> QED
    BY <1>1, <1>2, <2>1, <2>2
<1>5. CASE User
  BY <1>2, <1>5, UserSteps
<1> QED
  BY <1>2, <1>3, <1>4, <1>5, IngWriters

(* If passes read the Ingresses as they are, an Ingress is let go only when  *)
(* everything it had recorded is gone, or recorded on another: in whatever   *)
(* order members join, move and leave, and wherever a pass has failed, the   *)
(* last one cleans up and only the last one.  isLBServiceShared reads from   *)
(* a cache and does not keep that assumption: of two members deleted         *)
(* together the last may keep VIP and LBService for the first, already gone. *)
THEOREM LastOneCleansUp ==
    ASSUME StaleReads = FALSE
    PROVE  Spec => LastCleansUp
<1> DEFINE IInv == TypeInv /\ FreshInv /\ ListenerInv /\ GraphInv /\ ReleaseInv
<1>1. Init => IInv
  <2> SUFFICES ASSUME Init PROVE ListenerInv /\ GraphInv /\ ReleaseInv
    BY InitType, FreshInit
  <2>1. \A i \in Ingresses : ann[i] = NoAnnotations /\ (~ing[i].there => ~ing[i].fin)
    <3>1. \A i \in Ingresses : ~NewObject(i, FirstGroup).fin
      BY NewObjectParts, IngressAssumption
    <3>2. ~Absent.fin
      BY DEF Absent
    <3> QED
      BY <3>1, <3>2 DEF Init
  <2>2. ListenerInv
    BY DEF Init, ListenerInv, NoVS
  <2>3. GraphInv
    BY <2>1, GraphOfNothing DEF Init, GraphInv, AfterLB, ListenerCalls
  <2>4. ReleaseInv
    BY <2>1 DEF Init, ReleaseInv, StartInv, KeptInv, RecordedInv, SharedInv, ClearInv, HandedOnInv,
       FinInv, Converging, AfterLB, ListenerCalls
  <2> QED
    BY <2>2, <2>3, <2>4
<1>2. IInv /\ [Next]_vars => IInv'
  BY NextType, FreshStep, ListenerStep, GraphStep, KeptStep, RecordedStep, CleanupStep, HandedOnStep, FinStep
     DEF ReleaseInv
<1>3. IInv /\ [Next]_vars =>
         [\A i \in Ingresses : ing[i].fin /\ ~ing'[i].there =>
            /\ \A l \in CleanupLBs(ann[i]) :
                  lbs[l].st = "absent" \/ \E j \in Ingresses \ {i} : l \in CleanupLBs(ann[j])
            /\ \A e \in ann[i].vs :
                  \/ vss[e.id].st \in {"absent", "deleting"}
                  \/ \E j \in Ingresses \ {i} : e \in ann[j].vs]_vars
  <2> SUFFICES ASSUME IInv, [Next]_vars, NEW i \in Ingresses, ing[i].fin, ~ing'[i].there
               PROVE  HandedOn(i)
    BY DEF HandedOn, Visible, CleanupLBs
  <2>1. ing \in [Ingresses -> Object] /\ ing[i].there
    BY DEF TypeInv, TypeOK, StateTypeOK, ReleaseInv, FinInv
  <2>2. ~EnsureFinalizer
    <3>1. EnsureFinalizer => ing'[i].there
      BY <2>1 DEF EnsureFinalizer, Object
    <3> QED
      BY <3>1
  <2>3. ~User
    BY <2>1, UserSteps
  <2>4. RemoveFinalizer
    BY <2>1, <2>2, <2>3, IngWriters
  <2>5. pc = "unfinalize" /\ i = w.on
    BY <2>1, <2>4 DEF RemoveFinalizer
  <2> QED
    BY <2>5 DEF ReleaseInv, HandedOnInv
<1> HIDE DEF IInv
<1> QED
  BY <1>1, <1>2, <1>3, PTL DEF Spec, LastCleansUp

-----------------------------------------------------------------------------
(* What is recorded of the pools (a) is so of the listeners CMP has (V): a   *)
(* pool that has the id of an entry is the pool of the entry's backend.      *)
PoolsIn(a, V) ==
    \A e \in a.pools : \A f \in a.vs : \A p \in V[f.id].pools :
       f.name = e.vs /\ p.id = e.id => p.name = e.pool

PoolInv ==
    /\ \A i \in Ingresses : PoolsIn(ann[i], vss)
    /\ pc # "idle" => PoolsIn(w.a, vss)

(* A rule selects the pool of a backend of its own host.                     *)
SelectInv ==
    \A v \in VsIds : \A p \in vss[v].pools : \A r \in vss[v].rules :
       r.pool = p.id => p.name \in Backends[r.host]

(* The listener at hand is recorded under the name at hand.                  *)
HandInv == pc \in ListenerCalls => [name |-> Name, id |-> w.vs] \in w.a.vs

(* A clean-up works for nobody.                                              *)
AloneInv == pc = "children" => w.members = {}

(* Who creates pools and rules, and who deletes pools.                       *)
LEMMA VSChildren ==
    ASSUME TypeInv, [Next]_vars, NEW v \in VsIds
    PROVE  /\ vss'[v].pools \subseteq vss[v].pools \/ (CreatePool /\ v = w.vs)
           /\ vss'[v].rules \subseteq vss[v].rules \/ (CreateRule /\ v = w.vs)
           /\ \/ vss[v].pools \subseteq vss'[v].pools \/ DeleteObsoletePools \/ CleanChildren
              \/ vss'[v].st = "absent" \/ vss[v].st = "absent"
<1>1. vss \in [VsIds -> VSRecord] /\ vss[v] \in VSRecord
  BY DEF TypeInv, TypeOK, StateTypeOK
<1>2. CASE vss'[v].pools = vss[v].pools /\ vss'[v].rules = vss[v].rules
  BY <1>2
<1>3. CASE vss'[v] = NoVS
  <2>1. NoVS.pools = {} /\ NoVS.rules = {} /\ NoVS.st = "absent"
    BY DEF NoVS
  <2> QED
    BY <1>3, <2>1
<1>4. CASE RefuseListener
  <2>1. vss'[v] = vss[v] \/ vss'[v] = [vss[v] EXCEPT !.st = "deleting"]
    BY <1>4 DEF RefuseListener
  <2> QED
    BY <1>1, <1>2, <2>1 DEF VSRecord
<1>5. CASE CreateListener
  <2>1. PICK u \in VsIds, st \in {"ready", "pending"} :
           /\ u \in FreeVSs
           /\ vss' = [vss EXCEPT ![u] = [NoVS EXCEPT !.st = st, !.lb = w.a.lb, !.vip = w.a.vip,
                                                     !.name = Name]]
    BY <1>5 DEF CreateListener, IsNext
  <2> DEFINE new == [NoVS EXCEPT !.st = st, !.lb = w.a.lb, !.vip = w.a.vip, !.name = Name]
  <2>2. new.pools = {} /\ new.rules = {}
    BY DEF NoVS
  <2>3. vss' = [vss EXCEPT ![u] = new]
    BY <2>1
  <2> HIDE DEF new
  <2>4. vss[u].st = "absent"
    BY <2>1 DEF FreeVSs
  <2> QED
    BY <1>1, <1>2, <2>2, <2>3, <2>4
<1>6. CASE BindCertificate \/ UnbindCertificate \/ DeleteCertificate
  <2>1. vss'[v] = vss[v] \/ \E S : vss'[v] = [vss[v] EXCEPT !.bound = S]
    <3>1. CASE DeleteCertificate
      BY <3>1 DEF DeleteCertificate
    <3>2. CASE BindCertificate \/ UnbindCertificate
      <4>1. PICK c : Bind(c)
        BY <3>2 DEF BindCertificate, UnbindCertificate
      <4>2. UNCHANGED vss \/ \E S : vss' = [vss EXCEPT ![w.vs].bound = S]
        BY <4>1 DEF Bind
      <4> QED
        BY <1>1, <4>2
    <3> QED
      BY <1>6, <3>1, <3>2
  <2> QED
    BY <1>1, <1>2, <2>1 DEF VSRecord
<1>7. CASE CreatePool
  <2>1. PICK x : vss' = [vss EXCEPT ![w.vs].pools = @ \cup {x}]
    BY <1>7 DEF CreatePool
  <2>2. CASE v # w.vs
    BY <1>1, <1>2, <2>1, <2>2
  <2>3. CASE v = w.vs
    <3>1. vss'[v] = [vss[v] EXCEPT !.pools = vss[v].pools \cup {x}]
      BY <1>1, <2>1, <2>3
    <3> QED
      BY <1>1, <1>7, <2>3, <3>1 DEF VSRecord
  <2> QED
    BY <2>2, <2>3
<1>8. CASE CreateRule
  <2>1. PICK S : vss' = [vss EXCEPT ![w.vs].rules = S]
    BY <1>8 DEF CreateRule
  <2>2. CASE v # w.vs
    BY <1>1, <1>2, <2>1, <2>2
  <2>3. CASE v = w.vs
    <3>1. vss'[v] = [vss[v] EXCEPT !.rules = S]
      BY <1>1, <2>1, <2>3
    <3> QED
      BY <1>1, <1>8, <2>3, <3>1 DEF VSRecord
  <2> QED
    BY <2>2, <2>3
<1>9. CASE DropRules
  <2> DEFINE S == {r \in vss[w.vs].rules : r.id \in OurRules => Wanted(r)}
  <2>1. vss' = [vss EXCEPT ![w.vs].rules = S]
    BY <1>9 DEF DropRules
  <2>2. S \subseteq vss[w.vs].rules
    OBVIOUS
  <2> HIDE DEF S
  <2>3. vss'[v] = vss[v] \/ (v = w.vs /\ vss'[v] = [vss[v] EXCEPT !.rules = S])
    BY <1>1, <2>1
  <2> QED
    BY <1>1, <1>2, <2>2, <2>3 DEF VSRecord
<1>10. CASE DeleteObsoletePools
  <2>1. PICK S \in SUBSET vss[v].pools : vss'[v] = [vss[v] EXCEPT !.pools = S]
    BY <1>10 DEF DeleteObsoletePools
  <2> QED
    BY <1>1, <1>10, <2>1 DEF VSRecord
<1>11. CASE DeleteObsoleteListeners
  <2>1. vss'[v] = vss[v] \/ \E S \in SUBSET vss[v].rules : vss'[v] = [vss[v] EXCEPT !.st = "deleting", !.rules = S]
    BY <1>11 DEF DeleteObsoleteListeners
  <2> QED
    BY <1>1, <1>2, <2>1 DEF VSRecord
<1>12. CASE CleanChildren
  <2>1. PICK R \in SUBSET vss[v].rules, P \in SUBSET vss[v].pools :
           vss'[v] = [vss[v] EXCEPT !.rules = R, !.pools = P]
    BY <1>12 DEF CleanChildren
  <2> QED
    BY <1>1, <1>12, <2>1 DEF VSRecord
<1>13. CASE CleanListener
  <2>1. PICK u : vss' = [vss EXCEPT ![u].st = "deleting"]
    BY <1>13 DEF CleanListener
  <2>2. vss'[v] = vss[v] \/ vss'[v] = [vss[v] EXCEPT !.st = "deleting"]
    BY <1>1, <2>1
  <2> QED
    BY <1>1, <1>2, <2>2 DEF VSRecord
<1>14. CASE \E l \in LbIds : LBGone(l)
  BY <1>2, <1>3, <1>14 DEF LBGone
<1>15. CASE \E u \in VsIds : VSReady(u) \/ VSGone(u) \/ ListenerLost(u)
  <2>1. \/ vss'[v] = vss[v] \/ vss'[v] = NoVS
        \/ \E st : vss'[v] = [vss[v] EXCEPT !.st = st]
    BY <1>1, <1>15 DEF VSReady, VSGone, ListenerLost
  <2> QED
    BY <1>1, <1>2, <1>3, <2>1 DEF VSRecord
<1>16. CASE UNCHANGED vss
  BY <1>2, <1>16
<1> QED
  BY <1>4, <1>5, <1>6, <1>7, <1>8, <1>9, <1>10, <1>11, <1>12, <1>13, <1>14, <1>15, <1>16, VSWriters

(* The listener at hand is the one that was found or created under the name. *)
LEMMA HandStep ==
    ASSUME FreshInv, TypeInv, GraphInv, HandInv, [Next]_vars
    PROVE  HandInv'
<1> SUFFICES ASSUME pc' \in ListenerCalls
             PROVE  [name |-> <<w'.owner, IF "http" \in w'.todo THEN "http" ELSE "https">>,
                     id |-> w'.vs] \in w'.a.vs
  BY DEF HandInv, Name, Proto, ListenerCalls
<1>1. pc' \in AfterLB /\ pc' \in Converging /\ pc' # "idle" /\ pc' \notin {"lb", "vip"}
  BY DEF AfterLB, Converging, ListenerCalls
<1>2. CASE UNCHANGED <<pc, w>>
  BY <1>2 DEF HandInv, Name, Proto
<1>3. CASE (\E i \in Ingresses : Take(i)) /\ ~UNCHANGED <<pc, w>>
  BY <1>3, TakeWork DEF ListenerCalls
<1>4. CASE Worker
  <2>1. pc \in AfterLB
    BY <1>1, <1>4, WorkerFrom
  <2>2. w'.owner = w.owner
    BY <1>1, <1>4, <2>1, PassFrame
  <2>3. CASE KeepListener \/ CreateListener
    <3>1. pc # "idle"
      BY <2>1 DEF AfterLB, ListenerCalls
    <3>2. PICK v \in VsIds : w' = WithVS(v)
      BY <1>1, <2>3, <3>1, ListenerAtHand DEF GraphInv
    <3>3. [name |-> Name, id |-> v] \in w'.a.vs /\ w'.vs = v /\ w'.todo = w.todo
      BY <3>2, WithVSParts
    <3> QED
      BY <2>2, <3>3 DEF Name, Proto
  <2>4. CASE pc \in ListenerCalls /\ w'.vs = w.vs /\ w'.todo = w.todo /\ ~KeepListener /\ ~CreateListener
    <3>1. ~DeleteObsoleteListeners
      BY <2>4 DEF DeleteObsoleteListeners, ListenerCalls
    <3>2. w'.a.vs = w.a.vs
      BY <1>1, <1>4, <2>1, <2>4, <3>1, PassFrame
    <3> QED
      BY <2>2, <2>4, <3>2 DEF HandInv, Name, Proto
  <2> QED
    BY <1>1, <1>4, <2>1, <2>3, <2>4, PassFrame
<1> QED
  BY <1>2, <1>3, <1>4, PassWriters

(* A pool is new under its id, and the pool of the backend at hand.          *)
LEMMA NewPool ==
    ASSUME TypeInv, GraphInv, HandInv, CreatePool
    PROVE  \E c \in FreeChildren :
              /\ vss'[w.vs].pools = vss[w.vs].pools \cup {[name |-> PoolNow, id |-> c]}
              /\ w'.a.pools \subseteq w.a.pools \cup {[vs |-> Name, pool |-> PoolNow, id |-> c]}
              /\ w'.a.vs = w.a.vs /\ w'.a.lbs = w.a.lbs
              /\ w.vs \in VsIds /\ vss[w.vs].st # "absent" /\ vss[w.vs].name = Name
              /\ [name |-> Name, id |-> w.vs] \in w.a.vs
<1>1. PICK c \in ChildIds :
         /\ c \in FreeChildren
         /\ vss' = [vss EXCEPT ![w.vs].pools = @ \cup {[name |-> PoolNow, id |-> c]}]
         /\ NextPool([w.a EXCEPT !.pools = {e \in @ : e.vs # Name \/ e.pool # PoolNow}
                                              \cup {[vs |-> Name, pool |-> PoolNow, id |-> c]}])
  BY DEF CreatePool, IsNext
<1>2. pc = "pool" /\ Listed(w.vs)
  BY DEF CreatePool
<1>3. w.vs \in VsIds /\ [name |-> Name, id |-> w.vs] \in w.a.vs /\ vss[w.vs].st # "absent"
  BY <1>2 DEF HandInv, ListenerCalls, Listed, TypeInv, InHand
<1>4. vss[w.vs].name = Name
  BY <1>2, <1>3 DEF GraphInv, GraphIn
<1> DEFINE old == {e \in w.a.pools : e.vs # Name \/ e.pool # PoolNow}
           S == old \cup {[vs |-> Name, pool |-> PoolNow, id |-> c]}
           a == [w.a EXCEPT !.pools = S]
<1>5. S \subseteq w.a.pools \cup {[vs |-> Name, pool |-> PoolNow, id |-> c]}
  OBVIOUS
<1>6. NextPool(a)
  BY <1>1
<1> HIDE DEF S
<1>7. a.pools = S /\ a.vs = w.a.vs /\ a.lbs = w.a.lbs
  BY WorkParts DEF Annotations
<1> HIDE DEF a
<1>8. w' = [w EXCEPT !.pools = @ \ {PoolNow}, !.a = a]
  BY <1>6 DEF NextPool, Continue
<1>9. w'.a = a
  BY <1>8, WorkParts DEF Work
<1>10. vss'[w.vs].pools = vss[w.vs].pools \cup {[name |-> PoolNow, id |-> c]}
  <2>1. vss \in [VsIds -> VSRecord]
    BY DEF TypeInv, TypeOK, StateTypeOK
  <2> QED
    BY <1>1, <1>3, <2>1 DEF VSRecord
<1> QED
  BY <1>1, <1>3, <1>4, <1>5, <1>7, <1>9, <1>10

(* What is recorded of pools stays right: a pool that is new has an id that  *)
(* is recorded nowhere under the name of its listener.                       *)
LEMMA PoolsStay ==
    ASSUME TypeInv, GraphInv, HandInv, [Next]_vars,
           NEW a \in Recorded, GraphIn(a, lbs, vss), PoolsIn(a, vss)
    PROVE  PoolsIn(a, vss')
<1> SUFFICES ASSUME NEW e \in a.pools, NEW f \in a.vs, NEW p \in vss'[f.id].pools,
                    f.name = e.vs, p.id = e.id
             PROVE  p.name = e.pool
  BY DEF PoolsIn
<1>1. f.id \in VsIds
  BY RecordedTypes DEF Annotations
<1>2. CASE p \in vss[f.id].pools
  BY <1>2 DEF PoolsIn
<1>3. CASE p \notin vss[f.id].pools
  <2>1. CreatePool /\ f.id = w.vs
    BY <1>1, <1>3, VSChildren
  <2>2. PICK c \in FreeChildren :
           /\ vss'[w.vs].pools = vss[w.vs].pools \cup {[name |-> PoolNow, id |-> c]}
           /\ vss[w.vs].st # "absent" /\ vss[w.vs].name = Name
    BY <2>1, NewPool
  <2>3. f.name = Name
    BY <2>1, <2>2 DEF GraphIn
  <2>4. e.id # c
    BY <2>2, <2>3 DEF FreeChildren
  <2>5. p.id = c
    BY <1>3, <2>1, <2>2
  <2> QED
    BY <2>4, <2>5
<1> QED
  BY <1>2, <1>3

(* What is deleted as obsolete is no longer in hand either.                  *)
LEMMA ObsoleteShrinks ==
    ASSUME TypeInv, DeleteObsoletePools \/ DeleteObsoleteListeners
    PROVE  w'.a.vs \subseteq w.a.vs /\ w'.a.pools \subseteq w.a.pools
<1>1. CASE DeleteObsoletePools
  <2> DEFINE S == w.a.pools \ {e \in w.a.pools : ~InStack(e)}
  <2>1. S \subseteq w.a.pools
    OBVIOUS
  <2>2. w' = [w EXCEPT !.a = [w.a EXCEPT !.lbs = WithoutLegacy(w.a), !.pools = S]]
    BY <1>1 DEF DeleteObsoletePools, Continue
  <2> HIDE DEF S
  <2>3. w'.a.vs = w.a.vs /\ w'.a.pools = S
    BY <2>2, WorkParts DEF Work, Annotations
  <2> QED
    BY <2>1, <2>3
<1>2. CASE DeleteObsoleteListeners
  <2> DEFINE S == {e \in w.a.vs : e.name \in StackNames}
  <2>1. S \subseteq w.a.vs
    OBVIOUS
  <2>2. PICK R : w' = [w EXCEPT !.left = w.members, !.a = [w.a EXCEPT !.vs = S, !.rules = R]]
    BY <1>2 DEF DeleteObsoleteListeners, Continue
  <2> HIDE DEF S
  <2>3. w'.a.vs = S /\ w'.a.pools = w.a.pools
    BY <2>2, WorkParts DEF Work, Annotations
  <2> QED
    BY <2>1, <2>3
<1> QED
  BY <1>1, <1>2

(* So what is recorded, and what is in hand, names the right pools.          *)
LEMMA PoolStep ==
    ASSUME FreshInv, TypeInv, ListenerInv, GraphInv, HandInv, PoolInv, [Next]_vars
    PROVE  PoolInv'
<1> SUFFICES /\ \A i \in Ingresses : PoolsIn(ann'[i], vss')
             /\ pc' # "idle" => PoolsIn(w'.a, vss')
  BY DEF PoolInv, PoolsIn
<1>1. /\ ann \in [Ingresses -> Annotations] /\ w \in Work /\ w.a \in Annotations
  BY WorkParts DEF TypeInv, TypeOK, StateTypeOK
<1>2. \A i \in Ingresses : PoolsIn(ann[i], vss')
  BY PoolsStay DEF GraphInv, PoolInv, Recorded
<1>3. pc # "idle" => PoolsIn(w.a, vss')
  BY PoolsStay DEF GraphInv, PoolInv, Recorded
<1>4. \A a, b : PoolsIn(a, vss') /\ b.pools \subseteq a.pools /\ b.vs \subseteq a.vs => PoolsIn(b, vss')
  BY DEF PoolsIn
<1>5. ASSUME NEW i \in Ingresses PROVE PoolsIn(ann'[i], vss')
  <2>1. CASE PersistMember
    <3>1. (\E m : ann' = [ann EXCEPT ![m] = w.a]) /\ pc = "persist"
      BY <2>1, FreshWrites DEF PersistMember
    <3> QED
      BY <1>1, <1>2, <1>3, <3>1
  <2>2. CASE StripObserved \/ RemoveFinalizer
    <3>1. ann' = [ann EXCEPT ![w.on] = NoAnnotations]
      BY <2>2, FreshWrites DEF StripObserved
    <3>2. PoolsIn(NoAnnotations, vss')
      BY DEF PoolsIn, NoAnnotations
    <3> QED
      BY <1>1, <1>2, <3>1, <3>2
  <2> QED
    BY <1>2, <2>1, <2>2, AnnWriters
<1>6. ASSUME pc' # "idle" PROVE PoolsIn(w'.a, vss')
  <2>1. CASE UNCHANGED <<pc, w>>
    BY <1>3, <1>6, <2>1
  <2>2. CASE (\E i \in Ingresses : Take(i)) /\ ~UNCHANGED <<pc, w>>
    BY <1>2, <2>2, TakeWork
  <2>3. CASE Worker /\ pc' \notin Converging
    <3>1. w' = w /\ pc # "idle"
      BY <1>6, <2>3, LateSteps
    <3> QED
      BY <1>3, <3>1
  <2>4. CASE Worker /\ pc = "finalizer" /\ w' = w
    BY <1>3, <2>4
  <2>5. CASE Worker /\ pc = "lb" /\ \E l \in LbIds : w' = [w EXCEPT !.a = WithLB(w.a, l)]
    <3>1. PICK l \in LbIds : w' = [w EXCEPT !.a = WithLB(w.a, l)]
      BY <2>5
    <3>2. w'.a = WithLB(w.a, l)
      BY <1>1, <3>1 DEF Work
    <3>3. w'.a.pools = w.a.pools /\ w'.a.vs = w.a.vs
      BY <3>2, WithLBParts
    <3> QED
      BY <1>3, <1>4, <2>5, <3>3
  <2>6. CASE Worker /\ pc \in AfterLB /\ pc' \in AfterLB
    <3>1. pc # "idle" /\ pc' \in Converging
      BY <2>6 DEF AfterLB, ListenerCalls, Converging
    <3>2. PoolsIn(w.a, vss') /\ GraphIn(w.a, lbs, vss)
      BY <1>3, <3>1 DEF GraphInv
    <3>3. CASE CreatePool
      <4>1. PICK c \in FreeChildren :
               /\ vss'[w.vs].pools = vss[w.vs].pools \cup {[name |-> PoolNow, id |-> c]}
               /\ w'.a.pools \subseteq w.a.pools \cup {[vs |-> Name, pool |-> PoolNow, id |-> c]}
               /\ w'.a.vs = w.a.vs /\ [name |-> Name, id |-> w.vs] \in w.a.vs
        BY <3>3, NewPool
      <4> SUFFICES ASSUME NEW e \in w'.a.pools, NEW f \in w'.a.vs, NEW p \in vss'[f.id].pools,
                          f.name = e.vs, p.id = e.id
                   PROVE  p.name = e.pool
        BY DEF PoolsIn
      <4>2. CASE e \in w.a.pools
        BY <3>2, <4>1, <4>2 DEF PoolsIn
      <4>3. CASE e = [vs |-> Name, pool |-> PoolNow, id |-> c]
        <5>1. f = [name |-> Name, id |-> w.vs]
          BY <3>2, <4>1, <4>3 DEF GraphIn
        <5>2. \A x \in vss[w.vs].pools : x.id # c
          BY <4>1 DEF FreeChildren
        <5>3. p = [name |-> PoolNow, id |-> c]
          BY <4>1, <4>3, <5>1, <5>2
        <5> QED
          BY <4>3, <5>3
      <4> QED
        BY <4>1, <4>2, <4>3
    <3>4. CASE w'.a.pools \subseteq w.a.pools /\ w'.a.vs \subseteq w.a.vs
      BY <1>4, <3>2, <3>4
    <3>5. CASE KeepListener \/ CreateListener
      <4>1. PICK v \in VsIds :
               /\ w' = WithVS(v)
               /\ \/ [name |-> Name, id |-> v] \in w.a.vs
                  \/ vss'[v].pools = {}
        BY <1>6, <3>2, <3>5, ListenerAtHand
      <4>2. /\ w'.a.vs = {f \in w.a.vs : f.name # Name} \cup {[name |-> Name, id |-> v]}
            /\ w'.a.pools = w.a.pools
        BY <4>1, WithVSParts
      <4>3. CASE [name |-> Name, id |-> v] \in w.a.vs
        BY <3>4, <4>2, <4>3
      <4>4. CASE vss'[v].pools = {}
        BY <3>2, <4>2, <4>4 DEF PoolsIn
      <4> QED
        BY <4>1, <4>3, <4>4
    <3>6. CASE DeleteObsoleteListeners
      <4>1. w'.a.vs \subseteq w.a.vs /\ w'.a.pools \subseteq w.a.pools
        BY <3>6, ObsoleteShrinks
      <4> QED
        BY <3>4, <4>1
    <3>7. CASE DeleteObsoletePools
      <4>1. w'.a.vs \subseteq w.a.vs /\ w'.a.pools \subseteq w.a.pools
        BY <3>7, ObsoleteShrinks
      <4> QED
        BY <3>4, <4>1
    <3>8. CASE w'.a.pools = w.a.pools /\ w'.a.vs = w.a.vs
      BY <3>4, <3>8
    <3> QED
      BY <2>6, <3>1, <3>3, <3>5, <3>6, <3>7, <3>8, PassFrame
  <2> QED
    BY <2>1, <2>2, <2>3, <2>4, <2>5, <2>6, PassWriters, WorkerFrom
<1> QED
  BY <1>5, <1>6

(* A rule is new with the pool that is recorded for a backend of its host,   *)
(* and a pool with an id that no rule selects.                               *)
LEMMA SelectStep ==
    ASSUME TypeInv, GraphInv, HandInv, PoolInv, SelectInv, [Next]_vars
    PROVE  SelectInv'
<1> SUFFICES ASSUME NEW v \in VsIds, NEW p \in vss'[v].pools, NEW r \in vss'[v].rules, r.pool = p.id
             PROVE  p.name \in Backends[r.host]
  BY DEF SelectInv
<1>1. ~(CreatePool /\ CreateRule)
  BY DEF CreatePool, CreateRule
<1>2. CASE p \in vss[v].pools /\ r \in vss[v].rules
  BY <1>2 DEF SelectInv
<1>3. CASE p \notin vss[v].pools
  <2>1. CreatePool /\ v = w.vs
    BY <1>3, VSChildren
  <2>2. r \in vss[v].rules
    BY <1>1, <2>1, VSChildren
  <2>3. PICK c \in FreeChildren : vss'[w.vs].pools = vss[w.vs].pools \cup {[name |-> PoolNow, id |-> c]}
    BY <2>1, NewPool
  <2>4. p.id = c
    BY <1>3, <2>1, <2>3
  <2>5. \A x \in vss[w.vs].rules : x.pool # c
    BY DEF FreeChildren
  <2> QED
    BY <2>1, <2>2, <2>4, <2>5
<1>4. CASE r \notin vss[v].rules
  <2>1. CreateRule /\ v = w.vs
    BY <1>4, VSChildren
  <2>2. p \in vss[v].pools
    BY <1>1, <2>1, VSChildren
  <2>3. pc = "rule" /\ vss \in [VsIds -> VSRecord]
    BY <2>1 DEF CreateRule, TypeInv, TypeOK, StateTypeOK
  <2>4. PICK c \in ChildIds :
           vss' = [vss EXCEPT ![w.vs].rules =
                      @ \cup {[host |-> RouteNow[1], pool |-> PoolOf(RouteNow[2]), id |-> c]}]
    BY <2>1 DEF CreateRule
  <2>5. r = [host |-> RouteNow[1], pool |-> PoolOf(RouteNow[2]), id |-> c]
    BY <1>4, <2>1, <2>3, <2>4 DEF VSRecord
  <2>6. RouteNow \in Routes(w.members) /\ \A b \in Needed : OurPools(b) # {}
    <3>1. w.routes # {} /\ w.routes \subseteq Routes(w.members) /\ \A b \in Needed : OurPools(b) # {}
      BY <2>3 DEF TypeInv, PoolsFirst
    <3>2. RouteNow \in w.routes
      BY <3>1 DEF RouteNow
    <3> QED
      BY <3>1, <3>2
  <2>7. RouteNow[2] \in Backends[RouteNow[1]] /\ RouteNow[2] \in Needed
    BY <2>6 DEF Routes, Needed
  <2>8. PoolOf(RouteNow[2]) \in OurPools(RouteNow[2])
    BY <2>6, <2>7 DEF PoolOf
  <2>9. PICK e \in w.a.pools : e.vs = Name /\ e.pool = RouteNow[2] /\ e.id = PoolOf(RouteNow[2])
    BY <2>8 DEF OurPools
  <2>10. [name |-> Name, id |-> w.vs] \in w.a.vs /\ PoolsIn(w.a, vss)
    BY <2>3 DEF HandInv, PoolInv, ListenerCalls
  <2>11. p.id = e.id /\ p \in vss[w.vs].pools
    BY <2>1, <2>2, <2>5, <2>9
  <2>12. p.name = e.pool
    BY <2>9, <2>10, <2>11 DEF PoolsIn
  <2> QED
    BY <2>5, <2>7, <2>9, <2>12
<1> QED
  BY <1>2, <1>3, <1>4

(* A clean-up has begun with no members, and no other pass comes to one.     *)
LEMMA AloneStep ==
    ASSUME FreshInv, TypeInv, AloneInv, [Next]_vars
    PROVE  AloneInv'
<1> SUFFICES ASSUME pc' = "children" PROVE w'.members = {}
  BY DEF AloneInv
<1>1. CASE UNCHANGED <<pc, w>>
  BY <1>1 DEF AloneInv
<1>2. CASE (\E i \in Ingresses : Take(i)) /\ ~UNCHANGED <<pc, w>>
  BY <1>2, TakeWork
<1>3. ~Worker
  <2> SUFFICES ASSUME Worker PROVE FALSE
    OBVIOUS
  <2>1. "children" \notin Converging
    BY DEF Converging, AfterLB, ListenerCalls
  <2>2. AfterPersist # "children"
    <3>1. w.why \in {"ensure", "leave", "delete"}
      BY WorkParts DEF Work, Whys
    <3> QED
      BY <3>1 DEF AfterPersist
  <2> QED
    BY <2>1, <2>2, LateSteps
<1> QED
  BY <1>1, <1>2, <1>3, PassWriters

(* A pool that is deleted as obsolete is one that no rule selects for which  *)
(* the pass has a member: what is recorded tells the right backend, and the  *)
(* stack does not have it.                                                   *)
LEMMA ObsoleteUnselected ==
    ASSUME TypeInv, GraphInv, PoolInv, SelectInv, DeleteObsoletePools,
           NEW v \in VsIds, vss[v].st # "absent",
           NEW p \in vss[v].pools, p \notin vss'[v].pools,
           NEW r \in vss[v].rules, r.pool = p.id
    PROVE  r.host \notin w.members \/ vss[v].name \notin StackNames
<1> DEFINE gone == {e \in w.a.pools : ~InStack(e)}
           P == {x \in vss[v].pools : \A e \in gone : e.vs \in NameOf(v) => e.id # x.id}
<1>1. vss'[v] = [vss[v] EXCEPT !.pools = P]
  BY DEF DeleteObsoletePools
<1>2. vss[v] \in VSRecord /\ pc = "obsolete-pools"
  BY DEF TypeInv, TypeOK, StateTypeOK, DeleteObsoletePools
<1>3. vss'[v].pools = P
  <2> HIDE DEF P
  <2> QED
    BY <1>1, <1>2 DEF VSRecord
<1>4. PICK e \in gone : e.vs \in NameOf(v) /\ e.id = p.id
  BY <1>3
<1>5. PICK f \in w.a.vs : f.id = v /\ f.name = e.vs
  BY <1>4 DEF NameOf
<1>6. GraphIn(w.a, lbs, vss) /\ PoolsIn(w.a, vss)
  BY <1>2 DEF GraphInv, PoolInv
<1>7. vss[v].name = e.vs
  BY <1>5, <1>6 DEF GraphIn
<1>8. p.name = e.pool
  BY <1>4, <1>5, <1>6 DEF PoolsIn
<1>9. e.pool \in Backends[r.host]
  BY <1>8 DEF SelectInv
<1>10. r.host \in w.members => \E t \in Routes(w.members) : t[2] = e.pool
  <2>1. r.host \in w.members => <<r.host, e.pool>> \in Routes(w.members)
    BY <1>9 DEF Routes
  <2> QED
    BY <2>1
<1>11. ~InStack(e)
  BY <1>4
<1> QED
  BY <1>7, <1>10, <1>11 DEF InStack

(* No pool goes that a rule selects which the pass itself wants, for any     *)
(* number of groups, members, backends and faults, if passes read the        *)
(* Ingresses as they are (of copies StaleIngress shows it): what             *)
(* DeleteObsoletePools takes are pools of backends the stack no longer has,  *)
(* and the clean-up of a last member wants no rule.                          *)
THEOREM PoolsGoLast ==
    ASSUME StaleReads = FALSE
    PROVE  Spec => PoolsOutlastRules
<1> DEFINE IInv == /\ TypeInv /\ FreshInv /\ ListenerInv /\ GraphInv
                   /\ HandInv /\ PoolInv /\ SelectInv /\ AloneInv
<1>1. Init => IInv
  <2> SUFFICES ASSUME Init
               PROVE  ListenerInv /\ GraphInv /\ HandInv /\ PoolInv /\ SelectInv /\ AloneInv
    BY InitType, FreshInit
  <2>1. /\ \A i \in Ingresses : ann[i] = NoAnnotations
        /\ pc = "idle" /\ \A v \in VsIds : vss[v] = NoVS
    BY DEF Init
  <2>2. NoVS.pools = {} /\ NoVS.st = "absent" /\ NoAnnotations.pools = {}
    BY DEF NoVS, NoAnnotations
  <2>3. ListenerInv /\ SelectInv
    BY <2>1, <2>2 DEF ListenerInv, SelectInv
  <2>4. GraphInv
    BY <2>1, GraphOfNothing DEF GraphInv, AfterLB, ListenerCalls
  <2>5. HandInv /\ PoolInv /\ AloneInv
    BY <2>1, <2>2 DEF HandInv, PoolInv, PoolsIn, AloneInv, ListenerCalls
  <2> QED
    BY <2>3, <2>4, <2>5
<1>2. IInv /\ [Next]_vars => IInv'
  BY NextType, FreshStep, ListenerStep, GraphStep, HandStep, PoolStep, SelectStep, AloneStep
<1>3. IInv /\ [Next]_vars =>
         [\A v \in VsIds : vss[v].st # "absent" /\ vss'[v].st # "absent" =>
             \A p \in vss[v].pools \ vss'[v].pools : \A r \in vss'[v].rules :
                r.pool = p.id => r.host \notin w.members \/ vss[v].name \notin StackNames]_vars
  <2> SUFFICES ASSUME IInv, [Next]_vars,
                      NEW v \in VsIds, vss[v].st # "absent", vss'[v].st # "absent",
                      NEW p \in vss[v].pools \ vss'[v].pools, NEW r \in vss'[v].rules, r.pool = p.id
               PROVE  r.host \notin w.members \/ vss[v].name \notin StackNames
    OBVIOUS
  <2>1. DeleteObsoletePools \/ CleanChildren
    BY VSChildren
  <2>2. CASE CleanChildren
    BY <2>2 DEF CleanChildren, AloneInv
  <2>3. CASE DeleteObsoletePools
    <3>1. ~CreateRule
      BY <2>3 DEF DeleteObsoletePools, CreateRule
    <3>2. r \in vss[v].rules
      BY <3>1, VSChildren
    <3> QED
      BY <2>3, <3>2, ObsoleteUnselected
  <2> QED
    BY <2>1, <2>2, <2>3
<1> HIDE DEF IInv
<1> QED
  BY <1>1, <1>2, <1>3, PTL DEF Spec, PoolsOutlastRules
=============================================================================
