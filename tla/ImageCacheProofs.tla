-------------------------- MODULE ImageCacheProofs --------------------------
(***************************************************************************)
(* Theorems about ImageCache, for every number of concurrent calls.        *)
(***************************************************************************)
EXTENDS ImageCache, TLAPS

InDo == Pulling \cup {"forget", "doDone"}

BeforeOnce == {"start", "inspect", "once"}

(* A Once that is still in use is the one in the map until its owner       *)
(* deletes it, and has one owner.                                          *)
OnceInv ==
    /\ \A c \in Calls : pc[c] \in InDo \cup {"do"} => mine[c] \in Calls
    /\ \A c \in Calls : pc[c] \in InDo => once[mine[c]] = "running"
    /\ \A c \in Calls : pc[c] \in Pulling \cup {"forget"} => entry = mine[c]
    /\ \A c \in Calls : pc[c] = "do" /\ once[mine[c]] = "new" => entry = mine[c]
    /\ \A c, d \in Calls :
          pc[c] \in InDo /\ pc[d] \in InDo /\ mine[c] = mine[d] => c = d

(* A Once that has not been allocated is nobody's.                         *)
FreshInv ==
    \A c \in Calls : pc[c] \in BeforeOnce =>
        once[c] = "new" /\ entry # c /\ \A d \in Calls : mine[d] # c

LandedInv ==
    \A c \in Calls : pc[c] = "doDone" /\ entry = mine[c] => mine[c] \in landed \cup silent

(* Nobody stores imageReady without having seen the image.                 *)
SeenInv == \A c \in Calls : pc[c] = "cache" => present \/ pruned

ImageInv == TypeOK /\ OnceInv

LEMMA ImageInvStep ==
    ASSUME ImageInv, [Next]_vars
    PROVE  ImageInv'
<1> USE ImageAssumption DEF ImageInv, TypeOK, OnceInv, InDo, Pulling, CallPcs, Finished, Goto, history
<1>1. ASSUME NEW c \in Calls, CallStep(c)
      PROVE  ImageInv'
  <2>1. CASE LoadReady(c)
    BY <2>1 DEF LoadReady
  <2>2. CASE InspectImage(c)
    BY <2>2 DEF InspectImage
  <2>3. CASE StoreReady(c)
    BY <2>3 DEF StoreReady
  <2>4. CASE LoadOrStore(c)
    BY <2>4 DEF LoadOrStore
  <2>5. CASE OnceDo(c)
    BY <2>5 DEF OnceDo
  <2>6. CASE ImagePull(c)
    <3>1. pc[c] = "pull" /\ pc' \in {[pc EXCEPT ![c] = "drain"], [pc EXCEPT ![c] = "forget"]}
      BY <2>6 DEF ImagePull
    <3>2. pullErr' \in [Calls -> BOOLEAN]
      BY <2>6 DEF ImagePull
    <3>3. UNCHANGED <<present, ready, entry, once, history, mine, live>>
      BY <2>6 DEF ImagePull
    <3> QED
      BY <3>1, <3>2, <3>3
  <2>7. CASE DrainStream(c)
    <3>1. pc[c] = "drain" /\ pc' \in {[pc EXCEPT ![c] = "doDone"], [pc EXCEPT ![c] = "forget"]}
      BY <2>7 DEF DrainStream
    <3>2. pullErr' \in [Calls -> BOOLEAN]
      BY <2>7 DEF DrainStream
    <3>3. present' \in BOOLEAN
      BY <2>7 DEF DrainStream
    <3>4. landed' \subseteq Calls
      <4>1. mine[c] \in Calls /\ (landed' = landed \/ landed' = landed \cup {mine[c]})
        BY <2>7 DEF DrainStream
      <4> QED
        BY <4>1
    <3>5. UNCHANGED <<ready, entry, once, pruned, mine, live>>
      BY <2>7 DEF DrainStream
    <3>6. silent' \subseteq Calls
      <4>1. mine[c] \in Calls /\ (silent' = silent \/ silent' = silent \cup {mine[c]})
        BY <2>7 DEF DrainStream
      <4> QED
        BY <4>1
    <3> QED
      BY <3>1, <3>2, <3>3, <3>4, <3>5, <3>6
  <2>8. CASE ForgetOnce(c)
    BY <2>8 DEF ForgetOnce
  <2>9. CASE DoReturns(c)
    BY <2>9 DEF DoReturns
  <2>10. CASE ConfirmImage(c)
    BY <2>10 DEF ConfirmImage
  <2> QED
    BY <1>1, <2>1, <2>2, <2>3, <2>4, <2>5, <2>6, <2>7, <2>8, <2>9, <2>10 DEF CallStep
<1>2. ASSUME NEW c \in Calls, CancelCall(c)
      PROVE  ImageInv'
  BY <1>2 DEF CancelCall
<1>3. CASE PruneImage
  BY <1>3 DEF PruneImage
<1>4. CASE UNCHANGED vars
  BY <1>4 DEF vars
<1> QED
  BY <1>1, <1>2, <1>3, <1>4 DEF Next

LEMMA ImageInvariant == Spec => []ImageInv
<1>1. Init => ImageInv
  BY ImageAssumption DEF Init, ImageInv, TypeOK, OnceInv, InDo, Pulling, CallPcs
<1> QED
  BY <1>1, ImageInvStep, PTL DEF Spec

(* However many jobs of a language start together, one pulls at a time,    *)
(* whatever is cancelled and whatever the daemon refuses (executor.go:375). *)
THEOREM PullsAreShared == Spec => []OnePullAtATime
<1>1. ImageInv => OnePullAtATime
  BY DEF ImageInv, OnceInv, OnePullAtATime, InDo, Pulling
<1> QED
  BY <1>1, ImageInvariant, PTL

(* A failed pull deletes its own Once and no newer one (executor.go:399).  *)
THEOREM ForgetsNothingNewer == Spec => []ForgetsItsOwn
<1>1. ImageInv => ForgetsItsOwn
  BY DEF ImageInv, OnceInv, ForgetsItsOwn, Pulling
<1> QED
  BY <1>1, ImageInvariant, PTL

-----------------------------------------------------------------------------
SuccessInv == ImageInv /\ FreshInv /\ LandedInv /\ ErrorsAreForgotten

LEMMA SuccessInvStep ==
    ASSUME SuccessInv, [Next]_vars
    PROVE  SuccessInv'
<1> USE ImageAssumption DEF SuccessInv, ImageInv, TypeOK, OnceInv, FreshInv, LandedInv,
        ErrorsAreForgotten, InDo, BeforeOnce, Pulling, Finished, Goto, history
<1>0. ImageInv'
  BY ImageInvStep
<1>1. ASSUME NEW c \in Calls, CallStep(c)
      PROVE  FreshInv' /\ LandedInv' /\ ErrorsAreForgotten'
  <2>1. CASE LoadReady(c)
    BY <2>1 DEF LoadReady
  <2>2. CASE InspectImage(c)
    BY <2>2 DEF InspectImage
  <2>3. CASE StoreReady(c)
    BY <2>3 DEF StoreReady
  <2>4. CASE LoadOrStore(c)
    BY <2>4 DEF LoadOrStore
  <2>5. CASE OnceDo(c)
    BY <2>5 DEF OnceDo
  <2>6. CASE ImagePull(c)
    BY <2>6 DEF ImagePull
  <2>7. CASE DrainStream(c)
    <3>1. /\ pc[c] = "drain"
          /\ \/ /\ pc' = [pc EXCEPT ![c] = "doDone"]
                /\ landed' \cup silent' = landed \cup silent \cup {mine[c]}
             \/ /\ pc' = [pc EXCEPT ![c] = "forget"]
                /\ landed' \cup silent' = landed \cup silent
      BY <2>7 DEF DrainStream
    <3>2. UNCHANGED <<entry, once, mine>>
      BY <2>7 DEF DrainStream
    <3> QED
      BY <3>1, <3>2
  <2>8. CASE ForgetOnce(c)
    BY <2>8 DEF ForgetOnce
  <2>9. CASE DoReturns(c)
    BY <2>9 DEF DoReturns
  <2>10. CASE ConfirmImage(c)
    BY <2>10 DEF ConfirmImage
  <2> QED
    BY <1>1, <2>1, <2>2, <2>3, <2>4, <2>5, <2>6, <2>7, <2>8, <2>9, <2>10 DEF CallStep
<1>2. ASSUME NEW c \in Calls, CancelCall(c)
      PROVE  FreshInv' /\ LandedInv' /\ ErrorsAreForgotten'
  BY <1>2 DEF CancelCall
<1>3. CASE PruneImage
  BY <1>0, <1>3 DEF PruneImage
<1>4. CASE UNCHANGED vars
  BY <1>0, <1>4 DEF vars
<1> QED
  BY <1>0, <1>1, <1>2, <1>3, <1>4 DEF Next

(* A pull that failed with an error is never cached as done, whatever the  *)
(* daemon does and whoever is cancelled (executor.go:397).                 *)
THEOREM FailedPullsAreForgotten == Spec => []ErrorsAreForgotten
<1>1. Init => SuccessInv
  BY ImageAssumption
  DEF Init, SuccessInv, ImageInv, TypeOK, OnceInv, FreshInv, LandedInv, ErrorsAreForgotten,
      InDo, Pulling, CallPcs
<1>2. SuccessInv /\ [Next]_vars => SuccessInv'
  BY SuccessInvStep
<1> QED
  BY <1>1, <1>2, PTL DEF Spec, SuccessInv

(* As long as the daemon reports failed pulls as errors, a Once that later *)
(* calls skip is one whose pull brought the image (executor.go:397).       *)
THEOREM FailedPullsAreRetried ==
    ASSUME "streamErr" \notin Faults
    PROVE  Spec => []NoStaleSuccess
<1>1. Init => silent = {}
  BY DEF Init
<1>2. silent = {} /\ [Next]_vars => (silent = {})'
  BY DEF Next, vars, history, CallStep, LoadReady, InspectImage, StoreReady, LoadOrStore,
         OnceDo, ImagePull, DrainStream, ForgetOnce, DoReturns, ConfirmImage, CancelCall,
         PruneImage
<1>3. silent = {} /\ ErrorsAreForgotten => NoStaleSuccess
  BY DEF ErrorsAreForgotten, NoStaleSuccess
<1> QED
  BY <1>1, <1>2, <1>3, FailedPullsAreForgotten, PTL DEF Spec

-----------------------------------------------------------------------------
ReadyInv == TypeOK /\ SeenInv /\ ReadyIsPresent

LEMMA ReadyInvStep ==
    ASSUME ImageInv, ReadyInv, [Next]_vars
    PROVE  ReadyInv'
<1> USE DEF ReadyInv, SeenInv, ReadyIsPresent, Goto, history
<1>0. TypeOK'
  BY ImageInvStep DEF ImageInv
<1>1. ASSUME NEW c \in Calls, CallStep(c)
      PROVE  SeenInv' /\ ReadyIsPresent'
  <2> USE DEF TypeOK
  <2>1. CASE LoadReady(c)
    BY <2>1 DEF LoadReady
  <2>2. CASE InspectImage(c)
    BY <2>2 DEF InspectImage
  <2>3. CASE StoreReady(c)
    BY <2>3 DEF StoreReady
  <2>4. CASE LoadOrStore(c)
    BY <2>4 DEF LoadOrStore
  <2>5. CASE OnceDo(c)
    BY <2>5 DEF OnceDo
  <2>6. CASE ImagePull(c)
    BY <2>6 DEF ImagePull
  <2>7. CASE DrainStream(c)
    <3>1. (present => present') /\ UNCHANGED <<ready, pruned>>
      BY <2>7 DEF DrainStream
    <3>2. pc' \in {[pc EXCEPT ![c] = "doDone"], [pc EXCEPT ![c] = "forget"]}
      BY <2>7 DEF DrainStream
    <3> QED
      BY <3>1, <3>2
  <2>8. CASE ForgetOnce(c)
    BY <2>8 DEF ForgetOnce
  <2>9. CASE DoReturns(c)
    BY <2>9 DEF DoReturns
  <2>10. CASE ConfirmImage(c)
    BY <2>10 DEF ConfirmImage
  <2> QED
    BY <1>1, <2>1, <2>2, <2>3, <2>4, <2>5, <2>6, <2>7, <2>8, <2>9, <2>10 DEF CallStep
<1>2. ASSUME NEW c \in Calls, CancelCall(c)
      PROVE  SeenInv' /\ ReadyIsPresent'
  BY <1>2 DEF CancelCall
<1>3. CASE PruneImage
  BY <1>0, <1>3 DEF PruneImage
<1>4. CASE UNCHANGED vars
  BY <1>0, <1>4 DEF vars
<1> QED
  BY <1>0, <1>1, <1>2, <1>3, <1>4 DEF Next

(* imageReady never remembers an image nobody has seen on the host, so the *)
(* only way to a missing image is that it was removed later                *)
(* (executor.go:59).                                                       *)
THEOREM ReadyImagesExist == Spec => []ReadyIsPresent
<1>1. Init /\ ImageInv => ReadyInv
  BY DEF Init, ReadyInv, ImageInv, SeenInv, ReadyIsPresent
<1>2. ImageInv /\ ReadyInv /\ [Next]_vars => ReadyInv'
  BY ReadyInvStep
<1> QED
  BY <1>1, <1>2, ImageInvariant, PTL DEF Spec, ReadyInv
=============================================================================
