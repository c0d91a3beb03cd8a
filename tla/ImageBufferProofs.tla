------------------------- MODULE ImageBufferProofs -------------------------
(***************************************************************************)
(* Proofs about ImageBuffer, for rings of any size and any number of       *)
(* frames.                                                                 *)
(***************************************************************************)
EXTENDS ImageBuffer, FiniteSetTheorems, TLAPS

(***************************************************************************)
(* The ring: how far images are ahead of each other.                       *)
(***************************************************************************)
LEMMA AfterIs == \A i \in Images : After(i) = IF i = Size - 1 THEN 0 ELSE i + 1
BY ImageBufferAssumption DEF Images, After

LEMMA AfterIsAnImage == \A i \in Images : After(i) \in Images
BY AfterIs, ImageBufferAssumption DEF Images

LEMMA AheadIs ==
  ASSUME NEW i \in Images, NEW j \in Images
  PROVE  Ahead(i, j) \in 1 .. Size /\ (Ahead(i, j) = Size <=> i = j)
BY ImageBufferAssumption DEF Images, Ahead

LEMMA AheadIsUnique ==
  ASSUME NEW c \in Images, NEW i \in Images, NEW j \in Images, Ahead(c, i) = Ahead(c, j)
  PROVE  i = j
BY ImageBufferAssumption DEF Images, Ahead

LEMMA OneAhead ==
  ASSUME NEW c \in Images, NEW i \in Images
  PROVE  Ahead(c, After(i)) = IF i = c THEN 1 ELSE Ahead(c, i) + 1
BY AfterIs, ImageBufferAssumption DEF Images, Ahead

\* Round the ring from v: up to c, then up to v again.
LEMMA RoundTheRing ==
  ASSUME NEW v \in Images, NEW c \in Images, NEW i \in Images, i # v
  PROVE  Ahead(v, i) <= Ahead(v, c) \/ Ahead(c, i) < Ahead(c, v)
BY ImageBufferAssumption DEF Images, Ahead

\* What is behind c but not behind g, seen from v, is between the two.
LEMMA BetweenTheTwo ==
  ASSUME NEW v \in Images, NEW c \in Images, NEW g \in Images, NEW i \in Images,
         Ahead(v, c) < Ahead(v, i), Ahead(v, i) <= Ahead(v, g)
  PROVE  Ahead(c, i) <= Ahead(c, g)
BY ImageBufferAssumption DEF Images, Ahead

LEMMA InitInvariant == Init => IInv
<1> SUFFICES ASSUME Init PROVE IInv
  OBVIOUS
<1>1. 0 \in Images /\ 0 \in Frames
  BY ImageBufferAssumption DEF Images, Frames
<1>2. TypeOK /\ Numbered /\ Recent /\ Guarded
  BY <1>1, ImageBufferAssumption
  DEF Init, TypeOK, Numbered, Recent, Guarded, Loaded, Choosing, Looking, Writing, Clearing,
      Taking, Reading
<1>3. Spare /\ Rounds
  BY <1>1 DEF Init, Spare, Skipped, Rounds, Writing, Taking, Reading
<1> QED
  BY <1>2, <1>3 DEF IInv

(***************************************************************************)
(* The grabber's steps.                                                    *)
(***************************************************************************)
LEMMA GrabKeepsTypes == TypeOK /\ Recent /\ Grab => TypeOK'
<1> SUFFICES ASSUME TypeOK, Recent, Grab PROVE TypeOK'
  OBVIOUS
<1> USE AfterIsAnImage, ImageBufferAssumption
<1>1. CASE FirstRun
  BY <1>1 DEF FirstRun, TypeOK, Choosing
<1>2. CASE GetCaptureBuffer
  <2>1. After(curImg) \in Images /\ 0 \in 0 .. MaxTries /\ "search" \in Choosing
    BY DEF TypeOK, Choosing
  <2> QED
    BY <1>2, <2>1 DEF GetCaptureBuffer, TypeOK
<1>3. CASE Probe
  BY <1>3 DEF Probe, TypeOK, Choosing, Writing, Dead
<1>4. CASE LoadToSet
  BY <1>4 DEF LoadToSet, TypeOK, Writing
<1>5. CASE SetCapture
  BY <1>5 DEF SetCapture, TypeOK, Writing, ImgLock
<1>6. CASE FetchImage
  <2>1. frame + 1 \in Frames
    BY <1>6 DEF FetchImage, TypeOK, Recent, Frames
  <2> QED
    BY <1>6, <2>1 DEF FetchImage, TypeOK, Writing
<1>7. CASE SetPose
  BY <1>7 DEF SetPose, TypeOK, Writing
<1>8. CASE ResetCameras
  <2>1. grabber.failures + 1 \in 0 .. MaxTries
    BY <1>8 DEF ResetCameras, TypeOK, Recent
  <2> QED
    BY <1>8, <2>1 DEF ResetCameras, TypeOK, Writing, Dead
<1>9. CASE Publish
  BY <1>9 DEF Publish, TypeOK, Writing, Clearing, Dead
<1>10. CASE LoadToClear
  BY <1>10 DEF LoadToClear, TypeOK, Clearing
<1>11. CASE ClearCapture
  BY <1>11 DEF ClearCapture, TypeOK, Clearing, Choosing, ImgLock
<1> QED
  BY <1>1, <1>2, <1>3, <1>4, <1>5, <1>6, <1>7, <1>8, <1>9, <1>10, <1>11 DEF Grab

LEMMA GrabKeepsNumbered == TypeOK /\ Numbered /\ Grab => Numbered'
<1> SUFFICES ASSUME TypeOK, Numbered, Grab PROVE Numbered'
  OBVIOUS
<1>1. CASE FetchImage
  <2>1. /\ grabber.img \in Images /\ frame \in Nat /\ frame' = frame + 1
        /\ content' = [content EXCEPT ![grabber.img] = frame + 1]
    BY <1>1 DEF FetchImage, TypeOK, Frames
  <2>2. \A i \in Images : /\ content[i] \in Nat /\ content[i] <= frame
                           /\ content'[i] = IF i = grabber.img THEN frame + 1 ELSE content[i]
    BY <2>1 DEF TypeOK, Numbered, Frames
  <2>3. \A i \in Images : content'[i] <= frame'
    BY <2>1, <2>2
  <2>4. ASSUME NEW i \in Images, NEW j \in Images, content'[i] = content'[j]
        PROVE  i = j \/ content'[i] = 0
    BY <2>1, <2>2, <2>4 DEF Numbered
  <2> QED
    BY <2>3, <2>4 DEF Numbered
<1>2. CASE ~FetchImage
  <2>1. UNCHANGED <<content, frame>>
    BY <1>2 DEF Grab, FirstRun, GetCaptureBuffer, Probe, LoadToSet, SetCapture, SetPose,
                ResetCameras, Publish, LoadToClear, ClearCapture
  <2> QED
    BY <2>1 DEF Numbered
<1> QED
  BY <1>1, <1>2

LEMMA GrabKeepsRecent == TypeOK /\ Numbered /\ Recent /\ Grab => Recent'
<1> SUFFICES ASSUME TypeOK, Numbered, Recent, Grab PROVE Recent'
  OBVIOUS
<1> USE ImageBufferAssumption DEF Recent, Writing, Clearing
<1>1. CASE FirstRun
  BY <1>1 DEF FirstRun, TypeOK
<1>2. CASE GetCaptureBuffer
  BY <1>2 DEF GetCaptureBuffer, TypeOK
<1>3. CASE Probe
  BY <1>3 DEF Probe, TypeOK
<1>4. CASE LoadToSet
  BY <1>4 DEF LoadToSet, TypeOK
<1>5. CASE SetCapture
  BY <1>5 DEF SetCapture, TypeOK
<1>6. CASE FetchImage
  <2>1. /\ frame' = frame + 1 /\ UNCHANGED <<curImg, vision>>
        /\ content' = [content EXCEPT ![grabber.img] = frame + 1]
        /\ grabber' = [grabber EXCEPT !.at = "filling"] /\ grabber.at = "grab"
    BY <1>6 DEF FetchImage
  <2>2. /\ frame \in Nat /\ grabber.img \in Images /\ curImg \in Images /\ vision.img \in Images
        /\ vision.asked \in Nat /\ vision.frame \in Nat
    BY DEF TypeOK, Frames
  <2>3. /\ content[curImg] \in Nat /\ content[curImg] <= frame
        /\ content[vision.img] \in Nat /\ content[vision.img] <= frame
    BY <2>2 DEF TypeOK, Numbered, Frames
  <2>4. /\ content'[grabber.img] = frame + 1 /\ content'[curImg] = content[curImg]
        /\ content'[vision.img] \in {content[vision.img], frame + 1}
        /\ grabber'.at = "filling" /\ grabber'.img = grabber.img
    BY <2>1, <2>2 DEF TypeOK
  <2> QED
    BY <2>1, <2>2, <2>3, <2>4
<1>7. CASE SetPose
  BY <1>7 DEF SetPose, TypeOK
<1>8. CASE ResetCameras
  <2>1. grabber.failures + 1 # MaxTries => grabber.failures + 1 < MaxTries
    BY <1>8 DEF ResetCameras, TypeOK
  <2> QED
    BY <1>8, <2>1 DEF ResetCameras, TypeOK
<1>9. CASE Publish
  <2>1. /\ content[curImg] \in Nat /\ vision.asked \in Nat /\ frame \in Nat
        /\ content[grabber.img] = frame
    BY <1>9 DEF Publish, TypeOK, Frames
  <2> QED
    BY <1>9, <2>1 DEF Publish, TypeOK
<1>10. CASE LoadToClear
  BY <1>10 DEF LoadToClear, TypeOK
<1>11. CASE ClearCapture
  BY <1>11 DEF ClearCapture, TypeOK
<1> QED
  BY <1>1, <1>2, <1>3, <1>4, <1>5, <1>6, <1>7, <1>8, <1>9, <1>10, <1>11 DEF Grab

LEMMA GrabKeepsGuarded == TypeOK /\ Guarded /\ Grab => Guarded'
<1> SUFFICES ASSUME TypeOK, Guarded, Grab PROVE Guarded'
  OBVIOUS
<1> USE DEF TypeOK, Guarded, Loaded, Overtaken, Writing, Clearing
<1>1. CASE FirstRun
  BY <1>1 DEF FirstRun
<1>2. CASE GetCaptureBuffer
  BY <1>2 DEF GetCaptureBuffer
<1>3. CASE Probe
  BY <1>3 DEF Probe
<1>4. CASE LoadToSet
  BY <1>4 DEF LoadToSet
<1>5. CASE SetCapture
  BY <1>5 DEF SetCapture
<1>6. CASE FetchImage
  BY <1>6 DEF FetchImage
<1>7. CASE SetPose
  BY <1>7 DEF SetPose
<1>8. CASE ResetCameras
  BY <1>8 DEF ResetCameras
<1>9. CASE Publish
  BY <1>9 DEF Publish
<1>10. CASE LoadToClear
  BY <1>10 DEF LoadToClear
<1>11. CASE ClearCapture
  BY <1>11 DEF ClearCapture
<1> QED
  BY <1>1, <1>2, <1>3, <1>4, <1>5, <1>6, <1>7, <1>8, <1>9, <1>10, <1>11 DEF Grab

(***************************************************************************)
(* Vision's steps.                                                         *)
(***************************************************************************)
LEMMA SeeKeepsTypes == TypeOK /\ See => TypeOK'
<1> SUFFICES ASSUME TypeOK, See PROVE TypeOK'
  OBVIOUS
<1>1. CASE NewImage
  BY <1>1 DEF NewImage, TypeOK, Looking
<1>2. CASE GiveUp
  BY <1>2 DEF GiveUp, TypeOK, Looking
<1>3. CASE NoteLast
  <2>1. lastImg' \in Nat
    BY <1>3 DEF NoteLast, TypeOK, Images
  <2> QED
    BY <1>3, <2>1 DEF NoteLast, TypeOK, Looking
<1>4. CASE TakeCurrent
  BY <1>4 DEF TakeCurrent, TypeOK, Taking
<1>5. CASE CopyHeader
  BY <1>5 DEF CopyHeader, TypeOK, Taking
<1>6. CASE LoadToSetVision
  BY <1>6 DEF LoadToSetVision, TypeOK, Taking
<1>7. CASE SetVision
  BY <1>7 DEF SetVision, TypeOK, Reading, ImgLock, Overtaken
<1>8. CASE LoadToClearVision
  BY <1>8 DEF LoadToClearVision, TypeOK, Reading
<1>9. CASE ClearVision
  BY <1>9 DEF ClearVision, TypeOK, Looking, ImgLock
<1> QED
  BY <1>1, <1>2, <1>3, <1>4, <1>5, <1>6, <1>7, <1>8, <1>9 DEF See

LEMMA SeeKeepsNumbered == Numbered /\ See => Numbered'
BY DEF Numbered, See, NewImage, GiveUp, NoteLast, TakeCurrent, CopyHeader, LoadToSetVision,
       SetVision, LoadToClearVision, ClearVision

LEMMA SeeKeepsRecent == TypeOK /\ Recent /\ See => Recent'
<1> SUFFICES ASSUME TypeOK, Recent, See PROVE Recent'
  OBVIOUS
<1> USE DEF Recent, Taking, Reading
<1>1. CASE NewImage
  BY <1>1 DEF NewImage, TypeOK
<1>2. CASE GiveUp
  BY <1>2 DEF GiveUp, TypeOK
<1>3. CASE NoteLast
  BY <1>3 DEF NoteLast, TypeOK
<1>4. CASE TakeCurrent
  <2>1. content[curImg] \in Nat
    BY DEF TypeOK, Frames
  <2> QED
    BY <1>4, <2>1 DEF TakeCurrent, TypeOK
<1>5. CASE CopyHeader
  <2>1. content[vision.img] \in Nat
    BY DEF TypeOK, Frames
  <2> QED
    BY <1>5, <2>1 DEF CopyHeader, TypeOK
<1>6. CASE LoadToSetVision
  BY <1>6 DEF LoadToSetVision, TypeOK
<1>7. CASE SetVision
  BY <1>7 DEF SetVision, TypeOK
<1>8. CASE LoadToClearVision
  BY <1>8 DEF LoadToClearVision, TypeOK
<1>9. CASE ClearVision
  BY <1>9 DEF ClearVision, TypeOK
<1> QED
  BY <1>1, <1>2, <1>3, <1>4, <1>5, <1>6, <1>7, <1>8, <1>9 DEF See

LEMMA SeeKeepsGuarded == TypeOK /\ Guarded /\ See => Guarded'
<1> SUFFICES ASSUME TypeOK, Guarded, See PROVE Guarded'
  OBVIOUS
<1> USE DEF Guarded, Overtaken, Loaded, Reading
<1>1. CASE NewImage
  BY <1>1 DEF NewImage, TypeOK
<1>2. CASE GiveUp
  BY <1>2 DEF GiveUp, TypeOK
<1>3. CASE NoteLast
  BY <1>3 DEF NoteLast, TypeOK
<1>4. CASE TakeCurrent
  BY <1>4 DEF TakeCurrent, TypeOK
<1>5. CASE CopyHeader
  BY <1>5 DEF CopyHeader, TypeOK
<1>6. CASE LoadToSetVision
  BY <1>6 DEF LoadToSetVision, TypeOK
<1>7. CASE SetVision
  BY <1>7 DEF SetVision, TypeOK
<1>8. CASE LoadToClearVision
  BY <1>8 DEF LoadToClearVision, TypeOK
<1>9. CASE ClearVision
  BY <1>9 DEF ClearVision, TypeOK
<1> QED
  BY <1>1, <1>2, <1>3, <1>4, <1>5, <1>6, <1>7, <1>8, <1>9 DEF See

(***************************************************************************)
(* What has leaked stays so, as long as Vision stays at its image.         *)
(***************************************************************************)
LEMMA SeeLeavesGrabber == See => UNCHANGED <<content, curImg, frame, grabber>>
BY DEF See, NewImage, GiveUp, NoteLast, TakeCurrent, CopyHeader, LoadToSetVision,
       SetVision, LoadToClearVision, ClearVision

LEMMA GrabLeavesVision == Grab => UNCHANGED <<lastImg, vision>>
BY DEF Grab, FirstRun, GetCaptureBuffer, Probe, LoadToSet, SetCapture, FetchImage,
       SetPose, ResetCameras, Publish, LoadToClear, ClearCapture

\* An image with a flag, but for Vision's, has leaked while the grabber searches.
LEMMA TakenHasLeaked ==
  ASSUME TypeOK, grabber.at = "search", NEW i \in Images, flags[i] # {}, i # vision.img
  PROVE  i \in Stuck
<1>1. "CAPTURE" \in flags[i] \/ "VISION" \in flags[i]
  BY DEF TypeOK, ImgLock
<1> QED
  BY <1>1 DEF Stuck, Leaked, Held, Writing, Clearing

LEMMA GrabKeepsStuck ==
  ASSUME TypeOK, Grab, NEW i \in Stuck, ~(ClearCapture /\ i = grabber.img)
  PROVE  i \in Stuck'
<1>1. vision' = vision /\ i \in Images /\ i # vision.img
  BY GrabLeavesVision DEF Stuck, Leaked
<1> USE DEF TypeOK, Stuck, Leaked, Held, Writing, Clearing
<1>2. CASE FirstRun
  BY <1>1, <1>2 DEF FirstRun
<1>3. CASE GetCaptureBuffer
  BY <1>1, <1>3 DEF GetCaptureBuffer
<1>4. CASE Probe
  BY <1>1, <1>4 DEF Probe
<1>5. CASE LoadToSet
  BY <1>1, <1>5 DEF LoadToSet
<1>6. CASE SetCapture
  BY <1>1, <1>6 DEF SetCapture
<1>7. CASE FetchImage
  BY <1>1, <1>7 DEF FetchImage
<1>8. CASE SetPose
  BY <1>1, <1>8 DEF SetPose
<1>9. CASE ResetCameras
  BY <1>1, <1>9 DEF ResetCameras
<1>10. CASE Publish
  BY <1>1, <1>10 DEF Publish
<1>11. CASE LoadToClear
  BY <1>1, <1>11 DEF LoadToClear
<1>12. CASE ClearCapture
  BY <1>1, <1>12 DEF ClearCapture
<1> QED
  BY <1>2, <1>3, <1>4, <1>5, <1>6, <1>7, <1>8, <1>9, <1>10, <1>11, <1>12 DEF Grab

\* Vision sets and clears flags only of its own image.
LEMMA SeeKeepsStuck ==
  ASSUME TypeOK, See, ~TakeCurrent
  PROVE  Stuck' = Stuck /\ vision'.img = vision.img /\ vision'.asked = vision.asked
<1>1. grabber' = grabber
  BY SeeLeavesGrabber
<1>2. vision'.img = vision.img /\ vision'.asked = vision.asked
  BY DEF See, NewImage, GiveUp, NoteLast, CopyHeader, LoadToSetVision,
         SetVision, LoadToClearVision, ClearVision, TypeOK
<1>3. \A i \in Images \ {vision.img} : flags'[i] = flags[i]
  BY DEF See, NewImage, GiveUp, NoteLast, CopyHeader, LoadToSetVision,
         SetVision, LoadToClearVision, ClearVision, TypeOK
<1> QED
  BY <1>1, <1>2, <1>3 DEF Stuck, Leaked, Held

(***************************************************************************)
(* What the grabber has skipped.                                           *)
(***************************************************************************)
LEMMA CurrentIsNotSkipped == TypeOK => curImg \notin Skipped
<1> SUFFICES ASSUME TypeOK PROVE curImg \notin Skipped
  OBVIOUS
<1>1. /\ Ahead(curImg, curImg) = Size /\ Ahead(curImg, grabber.img) \in 1 .. Size
      /\ curImg \in Images
  BY AheadIs DEF TypeOK
<1> QED
  BY <1>1, ImageBufferAssumption DEF Skipped

\* One more image is skipped when the search goes on, none when it starts.
LEMMA SkipOne ==
  ASSUME TypeOK, Probe, grabber.img # curImg, flags[grabber.img] # {}
  PROVE  Skipped' = Skipped \cup {grabber.img}
<1>1. /\ curImg \in Images /\ grabber.img \in Images /\ curImg' = curImg
      /\ grabber.at = "search" /\ grabber'.at = "search" /\ grabber'.img = After(grabber.img)
  BY DEF TypeOK, Probe
<1>2. Ahead(curImg, grabber'.img) = Ahead(curImg, grabber.img) + 1
  BY <1>1, OneAhead
<1>3. ASSUME NEW i \in Images
      PROVE  Ahead(curImg, i) < Ahead(curImg, grabber'.img)
               <=> Ahead(curImg, i) < Ahead(curImg, grabber.img) \/ i = grabber.img
  <2>1. Ahead(curImg, i) \in 1 .. Size /\ Ahead(curImg, grabber.img) \in 1 .. Size
    BY <1>1, AheadIs
  <2>2. Ahead(curImg, i) = Ahead(curImg, grabber.img) => i = grabber.img
    BY <1>1, AheadIsUnique
  <2> QED
    BY <1>2, <2>1, <2>2, ImageBufferAssumption
<1>4. /\ Skipped = {i \in Images : Ahead(curImg, i) < Ahead(curImg, grabber.img)}
      /\ Skipped' = {i \in Images : Ahead(curImg, i) < Ahead(curImg, grabber'.img)}
  BY <1>1 DEF Skipped, Ahead
<1> QED
  BY <1>1, <1>3, <1>4

LEMMA NoneSkipped ==
  ASSUME TypeOK, Grab, ~Probe,
         ~(LoadToSet \/ SetCapture \/ FetchImage \/ SetPose \/ ResetCameras)
  PROVE  Skipped' = {}
<1>1. CASE GetCaptureBuffer
  <2>1. /\ curImg \in Images /\ curImg' = curImg
        /\ grabber'.at = "search" /\ grabber'.img = After(curImg)
    BY <1>1 DEF TypeOK, GetCaptureBuffer
  <2>2. Ahead(curImg, grabber'.img) = 1
    BY <2>1, OneAhead
  <2>3. \A i \in Images : ~(Ahead(curImg, i) < 1)
    BY <2>1, AheadIs, ImageBufferAssumption
  <2>4. Skipped' = {i \in Images : Ahead(curImg, i) < Ahead(curImg, grabber'.img)}
    BY <2>1 DEF Skipped, Ahead
  <2> QED
    BY <2>2, <2>3, <2>4
<1>2. CASE FirstRun \/ Publish \/ LoadToClear \/ ClearCapture
  <2>1. grabber'.at \notin {"search", "full"} \cup Writing
    BY <1>2 DEF FirstRun, Publish, LoadToClear, ClearCapture, TypeOK, Writing
  <2> QED
    BY <2>1 DEF Skipped
<1> QED
  BY <1>1, <1>2 DEF Grab

LEMMA SkippedStays ==
  ASSUME TypeOK, Grab,
         LoadToSet \/ SetCapture \/ FetchImage \/ SetPose \/ ResetCameras
           \/ (Probe /\ (grabber.img = curImg \/ flags[grabber.img] = {}))
  PROVE  Skipped' \subseteq Skipped
<1>1. /\ curImg' = curImg /\ grabber'.img = grabber.img
      /\ grabber.at \in {"search", "full"} \cup Writing
  BY DEF LoadToSet, SetCapture, FetchImage, SetPose, ResetCameras, Probe, TypeOK, Writing
<1> QED
  BY <1>1 DEF Skipped, Ahead

LEMMA GrabKeepsSpare ==
  ASSUME TypeOK, Recent, Spare, Grab
  PROVE  Spare'
<1>1. /\ vision' = vision /\ vision.img \in Images /\ grabber.img \in Images
      /\ curImg \in Images
  BY GrabLeavesVision DEF TypeOK
<1>2. PICK x \in Images : /\ vision.img # curImg => x = vision.img
                          /\ Skipped \subseteq Stuck \cup {x}
  BY DEF Spare
<1>3. CASE Skipped' = {}
  <2>1. PICK y \in Images : vision'.img # curImg' => y = vision'.img
    BY <1>1
  <2> QED
    BY <1>3, <2>1 DEF Spare
<1>4. CASE LoadToSet \/ SetCapture \/ FetchImage \/ SetPose \/ ResetCameras
             \/ (Probe /\ (grabber.img = curImg \/ flags[grabber.img] = {}))
  <2>1. Skipped' \subseteq Skipped
    BY <1>4, SkippedStays
  <2>2. ~ClearCapture /\ curImg' = curImg
    BY <1>4 DEF LoadToSet, SetCapture, FetchImage, SetPose, ResetCameras, Probe, ClearCapture
  <2>3. Stuck \subseteq Stuck'
    BY <2>2, GrabKeepsStuck
  <2> QED
    BY <1>1, <1>2, <2>1, <2>2, <2>3 DEF Spare
<1>5. CASE Probe /\ grabber.img # curImg /\ flags[grabber.img] # {}
  <2>1. Skipped' = Skipped \cup {grabber.img}
    BY <1>5, SkipOne
  <2>2. ~ClearCapture /\ curImg' = curImg /\ grabber.at = "search"
    BY <1>5 DEF Probe, ClearCapture
  <2>3. Stuck \subseteq Stuck'
    BY <2>2, GrabKeepsStuck
  <2>4. grabber.img \in Stuck \/ grabber.img = vision.img
    BY <1>1, <1>5, <2>2, TakenHasLeaked
  <2>5. grabber.img \in Stuck \cup {x}
    BY <1>2, <1>5, <2>4
  <2> QED
    BY <1>1, <1>2, <2>1, <2>2, <2>3, <2>5 DEF Spare
<1>6. CASE ~Probe /\ ~(LoadToSet \/ SetCapture \/ FetchImage \/ SetPose \/ ResetCameras)
  BY <1>3, <1>6, NoneSkipped
<1> QED
  BY <1>4, <1>5, <1>6

LEMMA SeeKeepsSpare ==
  ASSUME TypeOK, Spare, See
  PROVE  Spare'
<1>1. curImg' = curImg /\ grabber' = grabber /\ Skipped' = Skipped
  BY SeeLeavesGrabber DEF Skipped, Ahead
<1>2. PICK x \in Images : /\ vision.img # curImg => x = vision.img
                          /\ Skipped \subseteq Stuck \cup {x}
  BY DEF Spare
<1>3. CASE TakeCurrent
  <2>1. /\ vision'.img = curImg /\ flags' = flags
        /\ vision.at \notin Reading /\ vision'.at \notin Reading
    BY <1>3 DEF TakeCurrent, TypeOK, Reading
  <2>2. Leaked' = Leaked
    BY <1>1, <2>1 DEF Leaked, Held
  <2>3. \A i \in Stuck \ {curImg} : i \in Stuck'
    BY <1>1, <2>1, <2>2 DEF Stuck
  <2>4. Skipped' \subseteq Stuck' \cup {x}
    BY <1>1, <1>2, <2>3, CurrentIsNotSkipped
  <2> QED
    BY <1>1, <2>1, <2>4 DEF Spare
<1>4. CASE ~TakeCurrent
  <2>1. Stuck' = Stuck /\ vision'.img = vision.img
    BY <1>4, SeeKeepsStuck
  <2> QED
    BY <1>1, <1>2, <2>1 DEF Spare
<1> QED
  BY <1>3, <1>4

(***************************************************************************)
(* What it has come past since Vision asked.                               *)
(***************************************************************************)
\* Nothing new is passed but where the search goes on or ends, or in Publish.
LEMMA PassedStays ==
  ASSUME TypeOK, Recent, Grab, ~Publish \/ "CAPTURE" \notin flags[grabber.img],
         Probe => grabber.img = curImg
  PROVE  Passed' \subseteq Passed
<1>1. vision' = vision
  BY GrabLeavesVision
<1>2. curImg' = curImg
  BY DEF Grab, FirstRun, GetCaptureBuffer, Probe, LoadToSet, SetCapture, FetchImage,
         SetPose, ResetCameras, Publish, LoadToClear, ClearCapture
<1>3. Skipped' \subseteq Skipped
  <2>1. CASE ~Probe /\ ~(LoadToSet \/ SetCapture \/ FetchImage \/ SetPose \/ ResetCameras)
    BY <2>1, NoneSkipped
  <2>2. CASE Probe \/ LoadToSet \/ SetCapture \/ FetchImage \/ SetPose \/ ResetCameras
    <3>1. LoadToSet \/ SetCapture \/ FetchImage \/ SetPose \/ ResetCameras
             \/ (Probe /\ (grabber.img = curImg \/ flags[grabber.img] = {}))
      BY <2>2
    <3> QED
      BY <3>1, SkippedStays
  <2> QED
    BY <2>1, <2>2
<1>4. Reached' => Reached
  <2>1. CASE FetchImage
    BY <1>1, <2>1 DEF FetchImage, TypeOK, Reached, Writing
  <2>2. CASE ~FetchImage
    <3>1. content' = content
      BY <2>2 DEF Grab, FirstRun, GetCaptureBuffer, Probe, LoadToSet, SetCapture,
         SetPose, ResetCameras, Publish, LoadToClear, ClearCapture
    <3>2. grabber'.at \in Writing => grabber.at \in Writing /\ grabber'.img = grabber.img
      BY <2>2 DEF Grab, FirstRun, GetCaptureBuffer, Probe, LoadToSet, SetCapture,
         SetPose, ResetCameras, Publish, LoadToClear, ClearCapture, TypeOK, Writing
    <3> QED
      BY <1>1, <3>1, <3>2 DEF Reached
  <2> QED
    BY <2>1, <2>2
<1> QED
  BY <1>1, <1>2, <1>3, <1>4 DEF Passed, Ahead

\* What the grabber leaves behind for Vision stays so.
LEMMA GrabKeepsBehind ==
  ASSUME TypeOK, Numbered, Recent, Grab, vision.at \in Taking \cup Reading,
         NEW i \in Images, i # vision.img, i \in Stuck \/ vision.asked < content[i]
  PROVE  i \in Stuck' \/ vision'.asked < content'[i]
<1>1. vision' = vision
  BY GrabLeavesVision
<1>2. /\ vision.asked \in Nat /\ frame \in Nat /\ content[i] \in Nat /\ content[curImg] \in Nat
      /\ vision.asked <= content[curImg] /\ content[curImg] <= frame
  BY DEF TypeOK, Frames, Recent, Numbered
<1>3. CASE i \in Stuck /\ ~(ClearCapture /\ i = grabber.img)
  BY <1>3, GrabKeepsStuck
<1>4. CASE ClearCapture /\ i = grabber.img
  <2>1. i = curImg /\ content' = content
    BY <1>4 DEF ClearCapture, Recent, Clearing
  <2> QED
    BY <1>1, <2>1 DEF Recent
<1>5. CASE vision.asked < content[i]
  <2>1. content'[i] = content[i] \/ content'[i] = frame + 1
    BY DEF Grab, FirstRun, GetCaptureBuffer, Probe, LoadToSet, SetCapture, FetchImage,
       SetPose, ResetCameras, Publish, LoadToClear, ClearCapture, TypeOK
  <2> QED
    BY <1>1, <1>2, <1>5, <2>1
<1> QED
  BY <1>3, <1>4, <1>5

\* The one image that may be neither leaked nor fresh stays the same.
LEMMA GrabKeepsRounds ==
  ASSUME TypeOK, Numbered, Recent, Spare, Rounds, Grab
  PROVE  Rounds'
<1>1. /\ vision' = vision /\ vision.img \in Images /\ grabber.img \in Images
      /\ curImg \in Images
  BY GrabLeavesVision DEF TypeOK
<1> SUFFICES ASSUME vision.at \in Taking \cup Reading PROVE Rounds'
  BY <1>1 DEF Rounds
<1>2. PICK x \in Images :
        \A i \in Passed \ {x, vision.img} : i \in Stuck \/ vision.asked < content[i]
  BY DEF Rounds
<1>3. \A i \in Passed \ {x, vision.img} : i \in Stuck' \/ vision'.asked < content'[i]
  <2> SUFFICES ASSUME NEW i \in Passed \ {x, vision.img}
               PROVE  i \in Stuck' \/ vision'.asked < content'[i]
    OBVIOUS
  <2>1. i \in Images /\ i # vision.img /\ (i \in Stuck \/ vision.asked < content[i])
    BY <1>2 DEF Passed
  <2> QED
    BY <2>1, GrabKeepsBehind
<1>4. SUFFICES ASSUME NEW i \in Passed', i \notin Passed, i # vision.img
               PROVE  i \in Stuck' \/ vision'.asked < content'[i]
  BY <1>1, <1>2, <1>3 DEF Rounds
<1>5. i \in Images /\ ~Reached /\ i \notin Skipped
  BY <1>4 DEF Passed
<1>6. CASE Publish /\ "CAPTURE" \in flags[grabber.img]
  <2>1. /\ grabber.at = "publish" /\ grabber'.at = "clearing" /\ curImg' = grabber.img
        /\ content' = content
    BY <1>6 DEF Publish, TypeOK
  <2>2. vision.img # grabber.img /\ ~Reached'
    BY <1>1, <1>5, <2>1 DEF Reached, Writing
  <2>3. Ahead(vision.img, i) <= Ahead(vision.img, grabber.img)
    BY <1>1, <1>4, <2>1, <2>2 DEF Passed, Skipped, Writing, Ahead
  <2>4. Ahead(curImg, i) <= Ahead(curImg, grabber.img)
    <3>1. CASE vision.img = curImg
      BY <2>3, <3>1
    <3>2. CASE vision.img # curImg
      <4>1. ~(Ahead(vision.img, i) <= Ahead(vision.img, curImg))
        BY <1>4, <1>5, <3>2 DEF Passed
      <4>2. Ahead(vision.img, i) \in 1 .. Size /\ Ahead(vision.img, curImg) \in 1 .. Size
        BY <1>1, <1>5, AheadIs
      <4>3. Ahead(vision.img, curImg) < Ahead(vision.img, i)
        BY <4>1, <4>2, ImageBufferAssumption
      <4> QED
        BY <1>1, <1>5, <2>3, <4>3, BetweenTheTwo
    <3> QED
      BY <3>1, <3>2
  <2>5. ~(Ahead(curImg, i) < Ahead(curImg, grabber.img))
    BY <1>5, <2>1 DEF Skipped, Writing
  <2>6. Ahead(curImg, i) \in 1 .. Size /\ Ahead(curImg, grabber.img) \in 1 .. Size
    BY <1>1, <1>5, AheadIs
  <2>7. Ahead(curImg, i) = Ahead(curImg, grabber.img)
    BY <2>4, <2>5, <2>6, ImageBufferAssumption
  <2>8. i = grabber.img
    BY <1>1, <1>5, <2>7, AheadIsUnique
  <2>9. /\ content[curImg] \in Nat /\ vision.asked \in Nat /\ frame \in Nat
        /\ content[i] = frame /\ content[curImg] < frame /\ vision.asked <= content[curImg]
    BY <1>1, <2>1, <2>8 DEF TypeOK, Recent, Frames
  <2> QED
    BY <1>1, <2>1, <2>9
<1>7. CASE Probe /\ grabber.img # curImg /\ flags[grabber.img] = {}
  <2>1. /\ grabber.at = "search" /\ grabber'.at = "setting" /\ grabber'.img = grabber.img
        /\ curImg' = curImg /\ content' = content
    BY <1>7 DEF Probe, TypeOK
  <2>2. Skipped' = Skipped
    BY <2>1 DEF Skipped, Writing, Ahead
  <2>3. Reached' /\ vision.img = grabber.img
    BY <1>1, <1>4, <1>5, <2>1, <2>2 DEF Passed, Reached, Ahead
  <2>4. ~(Ahead(vision.img, i) <= Ahead(vision.img, curImg))
    BY <1>4, <1>5, <1>7, <2>3 DEF Passed
  <2>5. Ahead(curImg, i) < Ahead(curImg, grabber.img)
    BY <1>1, <1>4, <1>5, <2>3, <2>4, RoundTheRing
  <2> QED
    BY <1>5, <2>1, <2>5 DEF Skipped
<1>8. CASE Probe /\ grabber.img # curImg /\ flags[grabber.img] # {}
  <2>1. /\ grabber.at = "search" /\ grabber'.at = "search"
        /\ curImg' = curImg /\ content' = content
    BY <1>8 DEF Probe, TypeOK
  <2>2. Skipped' = Skipped \cup {grabber.img}
    BY <1>8, SkipOne
  <2>3. ~Reached'
    BY <1>1, <1>5, <2>1 DEF Reached, Writing
  <2>4. i = grabber.img
    BY <1>1, <1>4, <1>5, <2>1, <2>2, <2>3 DEF Passed, Ahead
  <2>5. i \in Stuck
    BY <1>1, <1>4, <1>8, <2>1, <2>4, TakenHasLeaked
  <2>6. ~ClearCapture
    BY <2>1 DEF ClearCapture
  <2> QED
    BY <2>5, <2>6, GrabKeepsStuck
<1>9. CASE ~Publish \/ "CAPTURE" \notin flags[grabber.img]
  <2>1. CASE Probe => grabber.img = curImg
    BY <1>4, <1>9, <2>1, PassedStays
  <2> QED
    BY <1>7, <1>8, <2>1
<1> QED
  BY <1>6, <1>9

LEMMA SeeKeepsRounds ==
  ASSUME TypeOK, Recent, Spare, Rounds, See
  PROVE  Rounds'
<1>1. /\ curImg' = curImg /\ grabber' = grabber /\ content' = content /\ Skipped' = Skipped
  BY SeeLeavesGrabber DEF Skipped, Ahead
<1>2. CASE TakeCurrent
  <2>1. /\ vision'.img = curImg /\ vision'.asked = content[curImg] /\ flags' = flags
        /\ vision.at \notin Reading /\ vision'.at \notin Reading /\ curImg \in Images
    BY <1>2 DEF TakeCurrent, TypeOK, Reading
  <2>2. PICK x \in Images : Skipped \subseteq Stuck \cup {x}
    BY DEF Spare
  <2>3. Leaked' = Leaked
    BY <1>1, <2>1 DEF Leaked, Held
  <2>4. \A i \in Stuck \ {curImg} : i \in Stuck'
    BY <1>1, <2>1, <2>3 DEF Stuck
  <2>5. ~Reached'
    <3>1. content[curImg] \in Nat
      BY <2>1 DEF TypeOK, Frames
    <3> QED
      BY <1>1, <2>1, <3>1 DEF Reached, Recent
  <2>6. Passed' = Skipped
    BY <1>1, <2>1, <2>5 DEF Passed, Skipped
  <2>7. \A i \in Passed' \ {x, vision'.img} : i \in Stuck'
    BY <2>1, <2>2, <2>4, <2>6
  <2> QED
    BY <2>7 DEF Rounds
<1>3. CASE ~TakeCurrent
  <2>1. Stuck' = Stuck /\ vision'.img = vision.img /\ vision'.asked = vision.asked
    BY <1>3, SeeKeepsStuck
  <2>2. Passed' = Passed
    BY <1>1, <2>1 DEF Passed, Reached, Ahead
  <2>3. vision'.at \in Taking \cup Reading => vision.at \in Taking \cup Reading
    BY <1>3 DEF See, NewImage, GiveUp, NoteLast, CopyHeader, LoadToSetVision,
                SetVision, LoadToClearVision, ClearVision, TypeOK, Taking, Reading
  <2> QED
    BY <1>1, <2>1, <2>2, <2>3 DEF Rounds
<1> QED
  BY <1>2, <1>3

-----------------------------------------------------------------------------
(* The invariant.                                                          *)
THEOREM Inductive == Spec => []IInv
<1>1. Init => IInv
  BY InitInvariant
<1>2. IInv /\ [Next]_vars => IInv'
  <2> SUFFICES ASSUME IInv, [Next]_vars PROVE IInv'
    OBVIOUS
  <2>1. CASE Grab
    <3>1. TypeOK' /\ Numbered' /\ Recent' /\ Guarded'
      BY <2>1, GrabKeepsTypes, GrabKeepsNumbered, GrabKeepsRecent, GrabKeepsGuarded DEF IInv
    <3>2. Spare' /\ Rounds'
      BY <2>1, GrabKeepsSpare, GrabKeepsRounds DEF IInv
    <3> QED
      BY <3>1, <3>2 DEF IInv
  <2>2. CASE See
    <3>1. TypeOK' /\ Numbered' /\ Recent' /\ Guarded'
      BY <2>2, SeeKeepsTypes, SeeKeepsNumbered, SeeKeepsRecent, SeeKeepsGuarded DEF IInv
    <3>2. Spare' /\ Rounds'
      BY <2>2, SeeKeepsSpare, SeeKeepsRounds DEF IInv
    <3> QED
      BY <3>1, <3>2 DEF IInv
  <2>3. CASE UNCHANGED vars
    BY <2>3 DEF vars, IInv, TypeOK, Numbered, Recent, Guarded, Loaded, Overtaken, Spare, Rounds,
                Skipped, Stuck, Leaked, Held, Passed, Reached, Ahead
  <2> QED
    BY <2>1, <2>2, <2>3 DEF Next
<1> QED
  BY <1>1, <1>2, PTL DEF Spec

(* The ring's indices, flags and frames keep their types, for any size.    *)
THEOREM TypeCorrect == Spec => []TypeOK
<1>1. IInv => TypeOK
  BY DEF IInv
<1> QED
  BY <1>1, Inductive, PTL

(***************************************************************************)
(* Counting the images.                                                    *)
(***************************************************************************)
Fresh == {i \in Images : vision.asked < content[i]}

LEMMA CountImages == IsFiniteSet(Images) /\ Cardinality(Images) = Size
<1>1. 0 \in Int /\ Size - 1 \in Int /\ (Size - 1) - 0 + 1 = Size /\ ~(0 > Size - 1)
  BY ImageBufferAssumption
<1>2. IsFiniteSet(0 .. Size - 1) /\ Cardinality(0 .. Size - 1) = (Size - 1) - 0 + 1
  BY <1>1, FS_Interval
<1> QED
  BY <1>1, <1>2 DEF Images

\* A set that has all images but two has at least Size - 2 of them.
LEMMA AllButTwo ==
  ASSUME NEW S, S \subseteq Images, NEW x \in Images, NEW y \in Images,
         Images \subseteq S \cup {x, y}
  PROVE  /\ IsFiniteSet(S) /\ Cardinality(S) \in Nat
         /\ Size <= Cardinality(S) + 2
<1>1. IsFiniteSet(S) /\ Cardinality(S) \in Nat
  BY CountImages, FS_Subset, FS_CardinalityType
<1>2. /\ IsFiniteSet(S \cup {x})
      /\ Cardinality(S \cup {x}) \in {Cardinality(S), Cardinality(S) + 1}
  BY <1>1, FS_AddElement
<1>3. /\ IsFiniteSet((S \cup {x}) \cup {y})
      /\ Cardinality((S \cup {x}) \cup {y})
           \in {Cardinality(S \cup {x}), Cardinality(S \cup {x}) + 1}
  BY <1>2, FS_AddElement
<1>4. Images = (S \cup {x}) \cup {y}
  OBVIOUS
<1> QED
  BY <1>1, <1>2, <1>3, <1>4, CountImages

\* The images that came after Vision's hold different frames.
LEMMA CountFresh ==
  ASSUME TypeOK, Numbered, Recent
  PROVE  /\ IsFiniteSet(Fresh) /\ Cardinality(Fresh) \in Nat
         /\ Cardinality(Fresh) <= frame - vision.asked
<1> DEFINE Later == vision.asked + 1 .. frame
           came == [i \in Fresh |-> content[i]]
<1>1. /\ vision.asked \in Nat /\ frame \in Nat /\ content[curImg] \in Nat
      /\ vision.asked <= content[curImg] /\ content[curImg] <= frame
  BY DEF TypeOK, Numbered, Recent, Frames
<1>2. IsFiniteSet(Later) /\ Cardinality(Later) = frame - vision.asked
  <2>1. vision.asked + 1 \in Int /\ frame \in Int
    BY <1>1
  <2>2. /\ IsFiniteSet(Later)
        /\ Cardinality(Later) = IF vision.asked + 1 > frame THEN 0 ELSE frame - (vision.asked + 1) + 1
    BY <2>1, FS_Interval
  <2> QED
    BY <1>1, <2>2
<1>3. came \in Injection(Fresh, Later)
  <2>1. \A i \in Fresh : content[i] \in Later /\ content[i] # 0
    BY <1>1 DEF Fresh, TypeOK, Numbered, Frames
  <2>2. \A i, j \in Fresh : came[i] = came[j] => i = j
    BY <2>1 DEF Fresh, Numbered
  <2> QED
    BY <2>1, <2>2 DEF Injection, IsInjective
<1>4. IsFiniteSet(Fresh) /\ Cardinality(Fresh) <= Cardinality(Later)
  BY <1>2, <1>3, FS_Injection
<1> QED
  BY <1>2, <1>4, FS_CardinalityType

(* Vision's pixels are those of the frame it has noted, but if the grabber  *)
(* has gone round a whole ring of images that are not leaked; and then      *)
(* Vision's flag came late or is lost, however the loads and stores of the  *)
(* flags interleave.                                                        *)
THEOREM NoTearingCorrect == Spec => []NoTearing
<1>1. IInv => NoTearing
  <2> SUFFICES ASSUME IInv PROVE NoTearing
    OBVIOUS
  <2>1. FlagProtects
    BY DEF IInv, Guarded, FlagProtects, Torn
  <2>2. ASSUME Torn PROVE Lapped
    <3>1. /\ vision.at \in Reading /\ Overtaken /\ vision.img \in Images
          /\ vision.asked \in Nat /\ frame \in Nat
      BY <2>2 DEF IInv, Torn, TypeOK, Frames
    <3>2. Reached
      <4>1. /\ vision.frame \in Nat /\ content[vision.img] \in Nat
            /\ vision.asked <= vision.frame /\ vision.frame <= content[vision.img]
        BY <3>1 DEF IInv, Recent, TypeOK, Frames
      <4> QED
        BY <3>1, <4>1 DEF Reached, Overtaken
    <3>3. Passed = Images
      BY <3>2 DEF Passed
    <3>4. PICK x \in Images :
            \A i \in Images \ {x, vision.img} : i \in Stuck \/ vision.asked < content[i]
      BY <3>1, <3>3 DEF IInv, Rounds
    <3>5. Images \subseteq (Leaked \cup Fresh) \cup {x, vision.img}
      BY <3>4 DEF Stuck, Fresh
    <3>6. Leaked \cup Fresh \subseteq Images
      BY DEF Leaked, Fresh
    <3>7. Size <= Cardinality(Leaked \cup Fresh) + 2 /\ Cardinality(Leaked \cup Fresh) \in Nat
      BY <3>1, <3>5, <3>6, AllButTwo
    <3>8. IsFiniteSet(Leaked) /\ Cardinality(Leaked) \in Nat
      BY <3>6, CountImages, FS_Subset, FS_CardinalityType
    <3>9. /\ IsFiniteSet(Fresh) /\ Cardinality(Fresh) \in Nat
          /\ Cardinality(Fresh) <= frame - vision.asked
      BY CountFresh DEF IInv
    <3>10. /\ Cardinality(Leaked \cup Fresh)
                = Cardinality(Leaked) + Cardinality(Fresh) - Cardinality(Leaked \cap Fresh)
           /\ Cardinality(Leaked \cap Fresh) \in Nat
      BY <3>8, <3>9, FS_Union, FS_Intersection, FS_CardinalityType
    <3> QED
      BY <3>1, <3>7, <3>8, <3>9, <3>10, ImageBufferAssumption DEF Lapped
  <2> QED
    BY <2>1, <2>2 DEF NoTearing
<1> QED
  BY <1>1, Inductive, PTL

(* getCaptureBuffer() throws for want of an image only when all images of   *)
(* the ring but two have leaked.                                            *)
THEOREM FullOnlyByLeaksCorrect == Spec => []FullOnlyByLeaks
<1>1. IInv => FullOnlyByLeaks
  <2> SUFFICES ASSUME IInv, grabber.at = "full" PROVE Cardinality(Leaked) + 2 >= Size
    BY DEF FullOnlyByLeaks
  <2>1. grabber.img = curImg /\ curImg \in Images
    BY DEF IInv, Recent, TypeOK
  <2>2. ASSUME NEW i \in Images, i # curImg PROVE i \in Skipped
    <3>1. Ahead(curImg, i) \in 1 .. Size /\ Ahead(curImg, i) # Size /\ Ahead(curImg, curImg) = Size
      BY <2>1, <2>2, AheadIs
    <3> QED
      BY <2>1, <3>1, ImageBufferAssumption DEF Skipped
  <2>3. PICK x \in Images : Skipped \subseteq Stuck \cup {x}
    BY DEF IInv, Spare
  <2>4. Leaked \subseteq Images /\ Images \subseteq Leaked \cup {x, curImg}
    BY <2>2, <2>3 DEF Leaked, Stuck
  <2> QED
    BY <2>1, <2>4, AllButTwo, ImageBufferAssumption
<1> QED
  BY <1>1, Inductive, PTL

(* Vision never goes back to an older image, for any ring and any frames.  *)
THEOREM NeverOlderCorrect == Spec => NeverOlder
<1> DEFINE A == /\ vision'.asked >= vision.asked
                /\ vision'.frame # vision.frame => vision'.frame >= vision'.asked
<1>1. IInv /\ [Next]_vars => [A]_vars
  <2> SUFFICES ASSUME IInv, Next PROVE A
    OBVIOUS
  <2> USE DEF IInv, TypeOK, Recent, Frames
  <2>1. vision.asked \in Nat /\ content[curImg] \in Nat /\ content[vision.img] \in Nat
    OBVIOUS
  <2>2. CASE Grab
    <3>1. vision' = vision
      BY <2>2 DEF Grab, FirstRun, GetCaptureBuffer, Probe, LoadToSet, SetCapture,
                  FetchImage, SetPose, ResetCameras, Publish, LoadToClear, ClearCapture
    <3> QED
      BY <2>1, <3>1
  <2>3. CASE NewImage \/ GiveUp \/ NoteLast
    BY <2>1, <2>3 DEF NewImage, GiveUp, NoteLast
  <2>4. CASE TakeCurrent
    <3>1. vision'.asked = content[curImg] /\ vision'.frame = vision.frame
      BY <2>4 DEF TakeCurrent
    <3> QED
      BY <2>1, <3>1
  <2>5. CASE CopyHeader
    <3>1. /\ vision'.asked = vision.asked /\ vision'.frame = content[vision.img]
          /\ vision.at = "copy"
      BY <2>5 DEF CopyHeader
    <3> QED
      BY <2>1, <3>1
  <2>6. CASE LoadToSetVision \/ SetVision \/ LoadToClearVision \/ ClearVision
    <3>1. vision'.asked = vision.asked /\ vision'.frame = vision.frame
      BY <2>6 DEF LoadToSetVision, SetVision, LoadToClearVision, ClearVision
    <3> QED
      BY <2>1, <3>1
  <2> QED
    BY <2>2, <2>3, <2>4, <2>5, <2>6 DEF Next, See
<1> QED
  BY <1>1, Inductive, PTL DEF Spec, NeverOlder

===============================================================================
