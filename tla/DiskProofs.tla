------------------------------ MODULE DiskProofs ------------------------------
(***************************************************************************)
(* Proofs about what the launcher keeps on the disk: the settings that     *)
(* Captions stores, and with them what Captions does with a toggle, for    *)
(* any languages and any number of videos, edits and mishaps; and the      *)
(* profile and the CDM that Boot installs, for any number of launchers and *)
(* launches, any legacy profiles and any places they are looked for.       *)
(***************************************************************************)
EXTENDS Captions, Boot, WellFoundedInduction, TLAPS

-----------------------------------------------------------------------------
(* A write of the contents c over the file f.                               *)

\* How far a write has got: the file is as it was before the rename and holds c
\* after it, and the part holds the synced bytes when it takes the file's place.
Reaches(x, f, c, D) ==
    /\ x = <<x[1], x[2]>> /\ x[1] \in Files(D) /\ x[2] \in Calls \cup Ends
    /\ x[1].kept = TRUE
    /\ x[2] = "saved" => x[1].main = c /\ x[1].before = f.main
    /\ x[2] # "saved" => x[1].main = f.main /\ x[1].before = f.before
    /\ x[2] \in {"sync", "rename"} => x[1].part = c
    /\ x[2] = "rename" => x[1].synced = TRUE

LEMMA OneCall ==
    ASSUME NEW D, NEW f, NEW c \in D, NEW x, Reaches(x, f, c, D), x[2] \in Calls,
           NEW o \in Outcomes(x[1], x[2], c)
    PROVE  Reaches(o, f, c, D)
<1> DEFINE g == x[1]
<1>1. CASE x[2] = "open"
  <2>1. CASE o = <<Opened(g), "write">>
    BY <1>1, <2>1 DEF Reaches, Files, Opened, Calls, Ends
  <2>2. CASE o = <<g, "failed">>
    BY <1>1, <2>2 DEF Reaches, Calls, Ends
  <2> QED
    BY <1>1, <2>1, <2>2 DEF Outcomes
<1>2. CASE x[2] = "write"
  <2>1. CASE o = <<Written(g, c), "sync">>
    BY <1>2, <2>1 DEF Reaches, Files, Written, Calls, Ends
  <2>2. CASE o = <<g, "remove">>
    BY <1>2, <2>2 DEF Reaches, Calls, Ends
  <2> QED
    BY <1>2, <2>1, <2>2 DEF Outcomes
<1>3. CASE x[2] = "sync"
  <2>1. CASE o = <<Synced(g), "rename">>
    BY <1>3, <2>1 DEF Reaches, Files, Synced, Calls, Ends
  <2>2. CASE o = <<g, "remove">>
    BY <1>3, <2>2 DEF Reaches, Calls, Ends
  <2> QED
    BY <1>3, <2>1, <2>2 DEF Outcomes
<1>4. CASE x[2] = "rename"
  <2>1. CASE o = <<Renamed(g), "saved">>
    BY <1>4, <2>1 DEF Reaches, Files, Renamed, Calls, Ends
  <2>2. CASE o = <<g, "remove">>
    BY <1>4, <2>2 DEF Reaches, Calls, Ends
  <2> QED
    BY <1>4, <2>1, <2>2 DEF Outcomes
<1>5. CASE x[2] = "remove"
  <2>1. CASE o = <<Removed(g), "failed">>
    BY <1>5, <2>1 DEF Reaches, Files, Removed, Calls, Ends
  <2>2. CASE o = <<g, "failed">>
    BY <1>5, <2>2 DEF Reaches, Calls, Ends
  <2> QED
    BY <1>5, <2>1, <2>2 DEF Outcomes
<1> QED
  BY <1>1, <1>2, <1>3, <1>4, <1>5 DEF Calls

LEMMA OnwardReaches ==
    ASSUME NEW D, NEW f, NEW c \in D, NEW S, \A x \in S : Reaches(x, f, c, D)
    PROVE  \A y \in Onward(S, c) : Reaches(y, f, c, D)
<1> SUFFICES ASSUME NEW y \in Onward(S, c) PROVE Reaches(y, f, c, D)
  OBVIOUS
<1>1. PICK x \in S : y \in IF x[2] \in Ends THEN {x} ELSE Outcomes(x[1], x[2], c)
  BY DEF Onward
<1>2. CASE x[2] \in Ends
  BY <1>1, <1>2
<1>3. CASE x[2] \notin Ends
  <2>1. x[2] \in Calls
    BY <1>3 DEF Reaches
  <2> QED
    BY <1>1, <1>3, <2>1, OneCall
<1> QED
  BY <1>2, <1>3

LEMMA WritingReaches ==
    ASSUME NEW D, NEW f \in Files(D), f.kept = TRUE, NEW c \in D
    PROVE  \A x \in Writing(f, c) : Reaches(x, f, c, D)
<1> DEFINE All(S) == \A x \in S : Reaches(x, f, c, D)
           s0 == {<<f, "open">>}
           s1 == Onward(s0, c)
           s2 == Onward(s1, c)
           s3 == Onward(s2, c)
           s4 == Onward(s3, c)
           s5 == Onward(s4, c)
<1>1. All(s0)
  BY DEF Reaches, Calls
<1> HIDE DEF s0
<1>2. All(s1)
  BY <1>1, OnwardReaches
<1> HIDE DEF s1
<1>3. All(s2)
  BY <1>2, OnwardReaches
<1> HIDE DEF s2
<1>4. All(s3)
  BY <1>3, OnwardReaches
<1> HIDE DEF s3
<1>5. All(s4)
  BY <1>4, OnwardReaches
<1> HIDE DEF s4
<1>6. All(s5)
  BY <1>5, OnwardReaches
<1>7. Writing(f, c) = s1 \cup s2 \cup s3 \cup s4 \cup s5
  BY DEF Writing, s0, s1, s2, s3, s4
<1> HIDE DEF s5
<1> QED
  BY <1>2, <1>3, <1>4, <1>5, <1>6, <1>7

\* The file a write may leave, whether it ends or is abandoned: the one that was
\* there, or the contents over what was there.
LeftBy(g, f, c, D) ==
    /\ g \in Files(D) /\ g.kept = TRUE
    /\ \/ g.main = c /\ g.before = f.main
       \/ g.main = f.main /\ g.before = f.before

LEMMA SweptLeaves ==
    ASSUME NEW D, NEW f, NEW c, NEW x, Reaches(x, f, c, D)
    PROVE  LeftBy(Swept(x[1]), f, c, D)
BY DEF Reaches, LeftBy, Swept, Files

LEMMA CompletedLeaves ==
    ASSUME NEW D, NEW f \in Files(D), f.kept = TRUE, NEW c \in D,
           NEW w \in Completed(f, c)
    PROVE  LeftBy(w[1], f, c, D)
<1>1. PICK x \in Writing(f, c) : w = <<Swept(x[1]), x[2]>>
  BY DEF Completed
<1> QED
  BY <1>1, WritingReaches, SweptLeaves

\* The answer of a write that ends tells what became of the file: saved, it holds the
\* contents over what it held; failed, it is as it was.
THEOREM SaveIsTold ==
    ASSUME NEW D, NEW f \in Files(D), f.kept = TRUE, NEW c \in D,
           NEW w \in Completed(f, c)
    PROVE  /\ w[2] = "saved" => w[1].main = c /\ w[1].before = f.main
           /\ w[2] = "failed" => w[1].main = f.main /\ w[1].before = f.before
<1>1. PICK x \in Writing(f, c) : w = <<Swept(x[1]), x[2]>>
  BY DEF Completed
<1>2. Reaches(x, f, c, D)
  BY WritingReaches
<1>3. Swept(x[1]).main = x[1].main /\ Swept(x[1]).before = x[1].before
  BY <1>2 DEF Reaches, Files, Swept
<1> QED
  BY <1>1, <1>2, <1>3 DEF Reaches

LEMMA AbandonedLeaves ==
    ASSUME NEW D, NEW f \in Files(D), f.kept = TRUE, NEW c \in D,
           NEW g \in Abandoned(f, c)
    PROVE  LeftBy(g, f, c, D)
<1>1. PICK x \in Writing(f, c) : g = Swept(x[1])
  BY DEF Abandoned
<1> QED
  BY <1>1, WritingReaches, SweptLeaves

\* A power cut leaves one of the two contents, since the bytes of both were synced.
LEMMA PowerCutLeaves ==
    ASSUME NEW D, NEW f \in Files(D), f.kept = TRUE, NEW g \in AfterPowerCut(f)
    PROVE  /\ g \in Files(D) /\ g.kept = TRUE
           /\ g.main \in {f.main, f.before} /\ g.before = g.main
<1>1. f.main \in D \cup {Absent, Torn} /\ f.before \in D \cup {Absent, Torn}
  BY DEF Files
<1>2. PICK c \in {f.before, f.main} : g = File(c)
  BY Zenon DEF AfterPowerCut
<1> QED
  BY <1>1, <1>2 DEF Files, File

-----------------------------------------------------------------------------
(* The settings.                                                            *)

Values(k) ==
    IF k = "caption_languages" THEN Lists
    ELSE IF k = "caption_control" THEN {"local", "youtube"} ELSE {"on", "off"}

Documents == {"document"} \X Overlays
SettingsOf ==
    [caption_control : {"local", "youtube"}, caption_remember : {"on", "off"},
     caption_on : {"on", "off"}, caption_languages : Lists]

LEMMA OverlayWith ==
    ASSUME NEW o \in Overlays, NEW k \in Keys, NEW v \in Values(k)
    PROVE  /\ [o EXCEPT ![k] = v] \in Overlays
           /\ \A j \in Keys \ {k} : [o EXCEPT ![k] = v][j] = o[j]
<1>1. CASE k = "caption_control"
  BY <1>1 DEF Overlays, Values, Keys
<1>2. CASE k = "caption_remember"
  BY <1>2 DEF Overlays, Values, Keys
<1>3. CASE k = "caption_on"
  BY <1>3 DEF Overlays, Values, Keys
<1>4. CASE k = "caption_languages"
  BY <1>4 DEF Overlays, Values, Keys
<1> QED
  BY <1>1, <1>2, <1>3, <1>4 DEF Keys

LEMMA SettingWith ==
    ASSUME NEW s \in SettingsOf, NEW k \in Keys, NEW v \in Values(k)
    PROVE  [s EXCEPT ![k] = v] \in SettingsOf
<1>1. CASE k = "caption_control"
  BY <1>1 DEF SettingsOf, Values, Keys
<1>2. CASE k = "caption_remember"
  BY <1>2 DEF SettingsOf, Values, Keys
<1>3. CASE k = "caption_on"
  BY <1>3 DEF SettingsOf, Values, Keys
<1>4. CASE k = "caption_languages"
  BY <1>4 DEF SettingsOf, Values, Keys
<1> QED
  BY <1>1, <1>2, <1>3, <1>4 DEF Keys

LEMMA SystemList == <<SystemLang>> \in Lists
BY CaptionsAssumption DEF Lists

\* A session has a value for every key, whatever is overridden.
LEMMA AppliedIsWhole == ASSUME NEW o \in Overlays PROVE Applied(Shipped, o) \in SettingsOf
<1> DEFINE a == Applied(Shipped, o)
<1>1. a = [caption_control |-> a.caption_control, caption_remember |-> a.caption_remember,
           caption_on |-> a.caption_on, caption_languages |-> a.caption_languages]
  BY DEF Applied, Keys
<1>2. a.caption_control \in {"local", "youtube"}
  BY DEF Applied, Keys, Overlays, IsSet, Unset, Shipped
<1>3. a.caption_remember \in {"on", "off"}
  BY DEF Applied, Keys, Overlays, IsSet, Unset, Shipped
<1>4. a.caption_on \in {"on", "off"}
  BY DEF Applied, Keys, Overlays, IsSet, Unset, Shipped
<1>5. a.caption_languages \in Lists
  BY SystemList DEF Applied, Keys, Overlays, IsSet, Unset, Shipped
<1>6. a \in SettingsOf
  <2> HIDE DEF a
  <2> QED
    BY <1>1, <1>2, <1>3, <1>4, <1>5 DEF SettingsOf
<1> QED
  BY <1>6

LEMMA LoadedIsOverlay ==
    ASSUME NEW c \in Documents \cup {Absent, Torn} PROVE Loaded(c) \in Overlays
BY DEF Documents, Absent, Torn, Loaded, Overlays, Nothing, Unset

LEMMA LoadedDocument == ASSUME NEW o PROVE Loaded(Document(o)) = o
BY DEF Loaded, Document

LEMMA DocumentsAre == ASSUME NEW o \in Overlays PROVE Document(o) \in Documents
BY DEF Document, Documents

-----------------------------------------------------------------------------
(* The store.                                                               *)

\* The bytes in the file and the ones before them were synced, and are whole
\* documents or nothing.
StoreInv == overlay \in Overlays /\ file \in Files(Documents) /\ file.kept = TRUE

LEMMA StoreIsOverlays ==
    ASSUME StoreInv
    PROVE  Loaded(file.main) \in Overlays /\ Loaded(file.before) \in Overlays
BY LoadedIsOverlay DEF StoreInv, Files

\* What a put of a value does is a change of the promise, and the file a write that
\* is killed leaves is one from before or after it.
LEMMA PutKeeps ==
    ASSUME StoreInv, NEW k \in Keys, NEW v \in Values(k), Put(k, v)
    PROVE  StoreInv' /\ Promise!Change
<1> DEFINE o == [overlay EXCEPT ![k] = v]
<1>1. o \in Overlays /\ \A j \in Keys \ {k} : o[j] = overlay[j]
  BY OverlayWith DEF StoreInv
<1>2. overlay' = o
  BY DEF Put
<1> HIDE DEF o
<1>3. PICK w \in Completed(file, Document(o)) : file' = w[1]
  BY <1>2 DEF Put
<1>4. LeftBy(file', file, Document(o), Documents)
  BY <1>1, <1>3, DocumentsAre, CompletedLeaves DEF StoreInv
<1>5. StoreInv'
  BY <1>1, <1>2, <1>4 DEF StoreInv, LeftBy
<1>6. Promise!Set
  BY <1>1, <1>2 DEF Promise!Set
<1>7. \/ Loaded(file.main)' = overlay' /\ Loaded(file.before)' = Loaded(file.main)
      \/ UNCHANGED <<Loaded(file.main), Loaded(file.before)>>
  BY <1>2, <1>4, LoadedDocument DEF LeftBy
<1> QED
  BY <1>5, <1>6, <1>7 DEF Promise!Change

LEMMA InterruptedKeeps ==
    ASSUME StoreInv, NEW k \in Keys, NEW v \in Values(k), PutInterrupted(k, v)
    PROVE  StoreInv' /\ (Promise!Interrupted \/ Promise!NewSession)
<1> DEFINE o == [overlay EXCEPT ![k] = v]
<1>1. o \in Overlays /\ \A j \in Keys \ {k} : o[j] = overlay[j]
  BY OverlayWith DEF StoreInv
<1>2. file' \in Abandoned(file, Document(o)) /\ overlay' = Loaded(file'.main)
  BY DEF PutInterrupted
<1> HIDE DEF o
<1>3. LeftBy(file', file, Document(o), Documents)
  BY <1>1, <1>2, DocumentsAre, AbandonedLeaves DEF StoreInv
<1>4. StoreInv'
  <2>1. file' \in Files(Documents) /\ file'.kept = TRUE
    BY <1>3 DEF LeftBy
  <2>2. Loaded(file'.main) \in Overlays
    BY <2>1, LoadedIsOverlay DEF Files
  <2> QED
    BY <1>2, <2>1, <2>2 DEF StoreInv
<1>5. CASE file'.main = Document(o) /\ file'.before = file.main
  <2>1. overlay' = o /\ Loaded(file'.main) = o
    BY <1>2, <1>5, LoadedDocument
  <2>2. Promise!Set
    BY <1>1, <2>1 DEF Promise!Set
  <2> QED
    BY <1>4, <1>5, <2>1, <2>2 DEF Promise!Interrupted
<1>6. CASE file'.main = file.main /\ file'.before = file.before
  BY <1>2, <1>4, <1>6 DEF Promise!NewSession
<1> QED
  BY <1>3, <1>5, <1>6 DEF LeftBy

LEMMA ReloadKeeps == ASSUME StoreInv, Reload PROVE StoreInv' /\ Promise!NewSession
BY StoreIsOverlays DEF StoreInv, Reload, Promise!NewSession

LEMMA PowerCutKeeps ==
    ASSUME StoreInv, ReloadAfterPowerCut PROVE StoreInv' /\ Promise!PowerCut
<1>1. /\ file' \in Files(Documents) /\ file'.kept = TRUE
      /\ file'.main \in {file.main, file.before} /\ file'.before = file'.main
  BY PowerCutLeaves DEF StoreInv, ReloadAfterPowerCut
<1>2. Loaded(file'.main) \in Overlays
  BY <1>1, LoadedIsOverlay DEF Files
<1> QED
  BY <1>1, <1>2 DEF StoreInv, ReloadAfterPowerCut, Promise!PowerCut

-----------------------------------------------------------------------------
(* Types.                                                                   *)

SettingsOK == StoreInv /\ known \in BOOLEAN /\ setting \in SettingsOf

ThreadOK ==
    /\ videoUp \in BOOLEAN /\ prevUp \in BOOLEAN /\ pending \in BOOLEAN
    /\ ticks \in 0..MaxTicks
    /\ pending = TRUE => ticks < MaxTicks

Screens == Codes \cup {NoCaptions}

PageOK ==
    /\ watching \in BOOLEAN /\ loaded \in BOOLEAN /\ settled \in BOOLEAN
    /\ tracks \in SUBSET Codes /\ barred \in BOOLEAN /\ cc \in Screens
    /\ toggled \in BOOLEAN /\ missed \in BOOLEAN

CountsOK == videos \in 0..MaxVideos /\ edits \in 0..MaxEdits /\ mishaps \in 0..MaxMishaps

\* Of a set of indices that is not empty there is a first one.
LEMMA LeastIndex ==
    ASSUME NEW T \in SUBSET Nat, T # {}
    PROVE  \E i \in T : \A j \in T : i <= j
<1> DEFINE R == {ss \in Nat \X Nat : ss[1] < ss[2]}
<1>1. IsWellFoundedOn(R, Nat)
  BY NatLessThanWellFounded DEF OpToRel
<1>2. PICK i \in T : \A j \in T : ~ (<<j, i>> \in R)
  <2> HIDE DEF R
  <2> QED
    BY <1>1, WFMin, Zenon
<1>3. ASSUME NEW j \in Nat, NEW k \in Nat, j < k PROVE <<j, k>> \in R
  BY <1>3
<1>4. ASSUME NEW j \in T PROVE i <= j
  <2> HIDE DEF R
  <2>1. i \in Nat /\ j \in Nat /\ ~ (j < i)
    BY <1>2, <1>3
  <2> QED
    BY <2>1
<1> QED
  BY <1>4

\* pickTrack() finds the first preferred language on offer.
LEMMA PickIsFirst ==
    ASSUME NEW langs \in Lists, Preferred(langs) # {}
    PROVE  \E i \in Preferred(langs) :
              Pick(langs) = langs[i] /\ \A j \in Preferred(langs) : i <= j
<1> DEFINE T == Preferred(langs)
<1>1. T \in SUBSET Nat /\ T # {}
  BY DEF Preferred, Lists
<1>2. \E i \in T : \A j \in T : i <= j
  <2> HIDE DEF T
  <2> QED
    BY <1>1, LeastIndex
<1>3. LET i == CHOOSE i \in T : \A j \in T : i <= j IN i \in T /\ \A j \in T : i <= j
  <2> HIDE DEF T
  <2> QED
    BY <1>2
<1> QED
  BY <1>3 DEF Pick

LEMMA PickIsTrack ==
    ASSUME NEW langs \in Lists, Preferred(langs) # {} PROVE Pick(langs) \in tracks
BY PickIsFirst DEF Preferred

\* An answer of the script: what it leaves on the screen, and what it says.
Answer(a) == a = <<a[1], a[2]>> /\ a[1] \in Screens

LEMMA ToggleAnswersOnScreen ==
    ASSUME SettingsOK, PageOK, NEW a \in ToggleAnswers PROVE Answer(a)
<1>1. ToggleLangs \in Lists
  BY SystemList DEF ToggleLangs, SettingsOK, SettingsOf, Languages
<1>2. ASSUME NEW c \in Picks(ToggleLangs) PROVE c \in Codes
  BY <1>1, <1>2, PickIsTrack DEF Picks, PageOK
<1>3. \/ a \in {<<cc, "na">>, <<NoCaptions, "off">>, <<cc, "none">>}
      \/ \E c \in Picks(ToggleLangs) : a = <<c, "on">>
  BY DEF ToggleAnswers
<1> QED
  BY <1>2, <1>3 DEF Answer, PageOK, Screens

LEMMA ApplyAnswersOnScreen ==
    ASSUME SettingsOK, PageOK, NEW relax, NEW a \in ApplyAnswers(relax) PROVE Answer(a)
<1>1. Languages \in Lists
  BY DEF SettingsOK, SettingsOf, Languages
<1>2. Preferred(Languages) # {} => Pick(Languages) \in Codes
  BY <1>1, PickIsTrack DEF PageOK
<1>3. CASE a \in SeedAnswers(relax)
  BY <1>2, <1>3 DEF SeedAnswers, Answer, PageOK, Screens
<1>4. CASE a \in EnforceAnswers(relax)
  BY <1>2, <1>4 DEF EnforceAnswers, Answer, PageOK, Screens
<1>5. CASE a \in {<<cc, "na">>, <<cc, "wait">>}
  BY <1>5 DEF Answer, PageOK, Screens
<1> QED
  BY <1>3, <1>4, <1>5 DEF ApplyAnswers

-----------------------------------------------------------------------------
(* The settings' steps.                                                     *)

Step == Promise!Next \/ UNCHANGED Promise!vars

LEMMA SettingsStay ==
    ASSUME SettingsOK, UNCHANGED settingVars PROVE SettingsOK' /\ Step
BY DEF SettingsOK, StoreInv, settingVars, storeVars, Step, Promise!vars

LEMMA SetOnKeeps ==
    ASSUME SettingsOK, NEW v \in {"on", "off"}, SetOn(v) PROVE SettingsOK' /\ Step
<1>1. "caption_on" \in Keys /\ v \in Values("caption_on")
  BY DEF Keys, Values
<1>2. setting' \in SettingsOf /\ known' \in BOOLEAN
  BY <1>1, SettingWith DEF SettingsOK, SetOn
<1>3. CASE Put("caption_on", v)
  <2>1. StoreInv' /\ Promise!Change
    BY <1>1, <1>3, PutKeeps DEF SettingsOK
  <2> QED
    BY <1>2, <2>1 DEF SettingsOK, Step, Promise!Next
<1>4. CASE UNCHANGED storeVars
  BY <1>2, <1>4 DEF SettingsOK, StoreInv, storeVars, Step, Promise!vars
<1> QED
  BY <1>3, <1>4 DEF SetOn

LEMMA StoreKeeps ==
    ASSUME SettingsOK, NEW k \in Keys, NEW v \in Values(k), Store(k, v), UNCHANGED known
    PROVE  SettingsOK' /\ Step
<1>1. setting' \in SettingsOf
  BY SettingWith DEF SettingsOK, Store
<1>2. StoreInv' /\ Promise!Change
  BY PutKeeps DEF SettingsOK, Store
<1> QED
  BY <1>1, <1>2 DEF SettingsOK, Step, Promise!Next

\* The lists one command away are lists, and none is empty.
LEMMA ListEditsAre == ASSUME SettingsOK, NEW list \in ListEdits PROVE list \in Lists
<1> DEFINE s == Languages
<1>1. s \in Seq(Codes) /\ s # <<>>
  BY DEF SettingsOK, SettingsOf, Languages, Lists
<1> HIDE DEF s
<1>2. ASSUME NEW c \in Codes, list = Append(s, c) PROVE list \in Lists
  <2>1. Append(s, c) \in Seq(Codes) /\ Len(Append(s, c)) = Len(s) + 1 /\ Len(s) \in Nat
    BY <1>1
  <2> QED
    BY <1>2, <2>1 DEF Lists
<1>3. ASSUME NEW i \in DOMAIN s, Len(s) # 1, list = Without(s, i) PROVE list \in Lists
  <2> DEFINE p == SubSeq(s, 1, i - 1)
             q == SubSeq(s, i + 1, Len(s))
  <2>1. i \in 1..Len(s) /\ Len(s) \in Nat \ {0, 1}
    BY <1>1, <1>3
  <2>2. p \in Seq(Codes) /\ Len(p) = i - 1
    BY <1>1, <2>1
  <2>3. q \in Seq(Codes) /\ Len(q) = Len(s) - i
    BY <1>1, <2>1
  <2> HIDE DEF p, q
  <2>4. p \o q \in Seq(Codes) /\ Len(p \o q) = Len(p) + Len(q)
    BY <2>2, <2>3
  <2>5. Len(p \o q) = (i - 1) + (Len(s) - i)
    BY <2>2, <2>3, <2>4
  <2>6. Len(p \o q) = Len(s) - 1
    BY <2>1, <2>5
  <2>7. p \o q # <<>>
    BY <2>1, <2>6
  <2>8. list = p \o q
    BY <1>3 DEF Without, p, q
  <2> QED
    BY <2>4, <2>7, <2>8 DEF Lists
<1>4. ASSUME NEW i \in 1..Len(s) - 1, list = [s EXCEPT ![i] = s[i + 1], ![i + 1] = s[i]]
      PROVE  list \in Lists
  <2>1. list \in Seq(Codes) /\ Len(list) = Len(s)
    BY <1>1, <1>4
  <2> QED
    BY <1>1, <2>1 DEF Lists
<1>5. CASE list = <<SystemLang>>
  BY <1>5, SystemList
<1> QED
  BY <1>2, <1>3, <1>4, <1>5 DEF ListEdits, s

LEMMA ApplyActionKeeps == ASSUME SettingsOK, ApplyAction PROVE SettingsOK' /\ Step
<1> USE DEF Keys, Values
<1>1. UNCHANGED known
  BY DEF ApplyAction
<1>2. ASSUME NEW v \in {"local", "youtube"}, Choose("caption_control", v)
      PROVE  SettingsOK' /\ Step
  BY <1>1, <1>2, StoreKeeps DEF Choose
<1>3. ASSUME NEW v \in {"on", "off"}, Choose("caption_remember", v) PROVE SettingsOK' /\ Step
  BY <1>1, <1>3, StoreKeeps DEF Choose
<1>4. ASSUME NEW list \in ListEdits, Store("caption_languages", list)
      PROVE  SettingsOK' /\ Step
  BY <1>1, <1>4, ListEditsAre, StoreKeeps
<1> QED
  BY <1>2, <1>3, <1>4 DEF ApplyAction

\* A new session, however the last one ended.
LEMMA RestartKeeps == ASSUME SettingsOK, Restart PROVE SettingsOK' /\ Step
<1>1. StoreInv' /\ Step
  <2>1. CASE Reload
    BY <2>1, ReloadKeeps DEF SettingsOK, Step, Promise!Next
  <2>2. CASE ReloadAfterPowerCut
    BY <2>2, PowerCutKeeps DEF SettingsOK, Step, Promise!Next
  <2>3. ASSUME NEW v \in {"on", "off"}, PutInterrupted("caption_on", v)
        PROVE  StoreInv' /\ Step
    BY <2>3, InterruptedKeeps DEF SettingsOK, Step, Promise!Next, Keys, Values
  <2>4. ASSUME PutInterrupted("caption_remember", "on") PROVE StoreInv' /\ Step
    BY <2>4, InterruptedKeeps DEF SettingsOK, Step, Promise!Next, Keys, Values
  <2> QED
    BY <2>1, <2>2, <2>3, <2>4 DEF Restart
<1>2. setting' = Applied(Shipped, overlay') /\ known' = (setting'.caption_remember = "on")
  BY DEF Restart, SessionStarts
<1>3. setting' \in SettingsOf
  BY <1>1, <1>2, AppliedIsWhole DEF StoreInv
<1> QED
  BY <1>1, <1>2, <1>3 DEF SettingsOK

LEMMA SettingsStep ==
    ASSUME SettingsOK, [CaptionsNext]_captionsVars PROVE SettingsOK' /\ Step
<1>1. CASE Toggle
  <2>1. \/ UNCHANGED settingVars
        \/ \E v \in {"on", "off"} : SetOn(v)
    BY <1>1 DEF Toggle
  <2> QED
    BY <2>1, SetOnKeeps, SettingsStay
<1>2. CASE Tick
  <2>1. \/ UNCHANGED settingVars
        \/ \E v \in {"on", "off"} : SetOn(v)
    BY <1>2 DEF Tick
  <2> QED
    BY <2>1, SetOnKeeps, SettingsStay
<1>3. CASE ApplyAction
  BY <1>3, ApplyActionKeeps
<1>4. CASE Restart
  BY <1>4, RestartKeeps
<1>5. CASE Navigate \/ ModuleLoads \/ YouTubeTurnsOn \/ Poll \/ PollFails \/ TickIdle
  <2>1. UNCHANGED settingVars
    BY <1>5 DEF Navigate, ModuleLoads, YouTubeTurnsOn, Poll, PollFails, TickIdle
  <2> QED
    BY <2>1, SettingsStay
<1>6. CASE UNCHANGED captionsVars
  <2>1. UNCHANGED settingVars
    BY <1>6 DEF captionsVars
  <2> QED
    BY <2>1, SettingsStay
<1> QED
  BY <1>1, <1>2, <1>3, <1>4, <1>5, <1>6 DEF CaptionsNext

-----------------------------------------------------------------------------
(* The thread's and the page's steps.                                       *)

LEMMA ThreadStep ==
    ASSUME ThreadOK, PageOK, [CaptionsNext]_captionsVars PROVE ThreadOK'
<1> USE CaptionsAssumption DEF ThreadOK
<1>1. CASE Navigate \/ ModuleLoads \/ YouTubeTurnsOn \/ ApplyAction
  BY <1>1 DEF Navigate, ModuleLoads, YouTubeTurnsOn, ApplyAction, threadVars
<1>2. CASE Poll
  BY <1>2 DEF Poll, PageOK
<1>3. CASE PollFails
  BY <1>3 DEF PollFails
<1>4. CASE Toggle
  BY <1>4 DEF Toggle, EndsWindow
<1>5. CASE TickIdle
  BY <1>5 DEF TickIdle
<1>6. CASE Tick
  <2>1. ticks' = (IF WindowOpens THEN 0 ELSE ticks) + 1
    BY <1>6 DEF Tick
  <2>2. WindowOpens \/ pending = TRUE
    BY <1>6, Zenon DEF Tick, WindowStays
  <2>3. ticks' \in 0..MaxTicks
    BY <2>1, <2>2
  <2>4. prevUp' = TRUE /\ videoUp' = videoUp
    BY <1>6 DEF Tick
  <2>5. PICK a : \/ pending' = (a[2] # "none" /\ ticks' < MaxTicks)
                 \/ pending' = (ticks' < MaxTicks)
    BY <1>6, Zenon DEF Tick
  <2>6. pending' \in BOOLEAN
    <3>1. (a[2] # "none" /\ ticks' < MaxTicks) \in BOOLEAN /\ (ticks' < MaxTicks) \in BOOLEAN
      OBVIOUS
    <3> QED
      BY <2>5, <3>1, Zenon
  <2>7. pending' = TRUE => ticks' < MaxTicks
    BY <2>5, Zenon
  <2> QED
    BY <2>3, <2>4, <2>6, <2>7
<1>7. CASE Restart
  <2>1. ticks' = 0 /\ videoUp' = FALSE /\ prevUp' = FALSE /\ pending' = FALSE
    BY <1>7 DEF Restart, SessionStarts
  <2>2. pending' # TRUE
    BY <2>1, Zenon
  <2>3. ticks' \in 0..MaxTicks
    BY <2>1
  <2>4. videoUp' \in BOOLEAN /\ prevUp' \in BOOLEAN /\ pending' \in BOOLEAN
    BY <2>1
  <2> QED
    BY <2>2, <2>3, <2>4, Zenon
<1>8. CASE UNCHANGED captionsVars
  BY <1>8 DEF captionsVars, threadVars
<1> QED
  BY <1>1, <1>2, <1>3, <1>4, <1>5, <1>6, <1>7, <1>8 DEF CaptionsNext

LEMMA PageStep ==
    ASSUME SettingsOK, PageOK, [CaptionsNext]_captionsVars PROVE PageOK'
<1> USE DEF PageOK, Screens
<1>1. CASE Navigate
  BY <1>1 DEF Navigate
<1>2. CASE ModuleLoads
  BY <1>2 DEF ModuleLoads, noteVars
<1>3. CASE YouTubeTurnsOn
  BY <1>3 DEF YouTubeTurnsOn, noteVars
<1>4. CASE Poll \/ TickIdle \/ ApplyAction
  BY <1>4 DEF Poll, TickIdle, ApplyAction, pageVars, noteVars
<1>5. CASE PollFails
  BY <1>5 DEF PollFails, pageVars
<1>6. CASE Toggle
  <2>1. PICK a \in ToggleAnswers :
           /\ cc' \in {cc, a[1]}
           /\ toggled' = (toggled \/ (videoUp /\ prevUp /\ a[2] \in {"on", "off"}))
    BY <1>6 DEF Toggle
  <2>2. cc' \in Screens
    BY <2>1, ToggleAnswersOnScreen DEF Answer
  <2>3. toggled' \in BOOLEAN
    BY <2>1
  <2> QED
    BY <1>6, <2>2, <2>3 DEF Toggle
<1>7. CASE Tick
  <2> DEFINE relax == (IF WindowOpens THEN 0 ELSE ticks) >= MaxTicks - RelaxTicks
  <2>1. PICK a \in ApplyAnswers(relax) : cc' \in {cc, a[1]}
    BY <1>7 DEF Tick
  <2>2. cc' \in Screens
    BY <2>1, ApplyAnswersOnScreen DEF Answer
  <2>3. missed' \in BOOLEAN
    BY <1>7 DEF Tick
  <2> QED
    BY <1>7, <2>2, <2>3 DEF Tick
<1>8. CASE Restart
  BY <1>8 DEF Restart, SessionStarts
<1>9. CASE UNCHANGED captionsVars
  BY <1>9 DEF captionsVars, pageVars, noteVars
<1> QED
  BY <1>1, <1>2, <1>3, <1>4, <1>5, <1>6, <1>7, <1>8, <1>9 DEF CaptionsNext

LEMMA CountsStep == ASSUME CountsOK, [CaptionsNext]_captionsVars PROVE CountsOK'
<1> USE CaptionsAssumption DEF CountsOK
<1>1. CASE Navigate
  BY <1>1 DEF Navigate
<1>2. CASE ModuleLoads \/ YouTubeTurnsOn \/ Poll \/ TickIdle
  BY <1>2 DEF ModuleLoads, YouTubeTurnsOn, Poll, TickIdle
<1>3. CASE PollFails
  BY <1>3 DEF PollFails, Mishap
<1>4. CASE Toggle
  <2>1. UNCHANGED mishaps \/ Mishap
    BY <1>4 DEF Toggle
  <2> QED
    BY <1>4, <2>1 DEF Toggle, Edit, Mishap
<1>5. CASE Tick
  <2>1. UNCHANGED mishaps \/ Mishap
    BY <1>5 DEF Tick
  <2> QED
    BY <1>5, <2>1 DEF Tick, Mishap
<1>6. CASE ApplyAction
  BY <1>6 DEF ApplyAction, Edit
<1>7. CASE Restart
  BY <1>7 DEF Restart, Mishap
<1>8. CASE UNCHANGED captionsVars
  BY <1>8 DEF captionsVars
<1> QED
  BY <1>1, <1>2, <1>3, <1>4, <1>5, <1>6, <1>7, <1>8 DEF CaptionsNext

-----------------------------------------------------------------------------
(* A press.                                                                 *)

\* After a press that counts, the thread knows of the video and its window is closed;
\* neither edge of video_up can come before the video is left or a poll fails.
StandsInv == toggled /\ ~missed => watching /\ videoUp /\ prevUp /\ ~pending

LEMMA AnswerIsWatched ==
    ASSUME NEW a \in ToggleAnswers, a[2] \in {"on", "off"} PROVE watching
BY DEF ToggleAnswers

LEMMA StandsStep ==
    ASSUME ThreadOK, PageOK, StandsInv, [CaptionsNext]_captionsVars PROVE StandsInv'
<1> USE DEF StandsInv
<1>1. CASE Navigate
  BY <1>1, Zenon DEF Navigate
<1>2. CASE ModuleLoads \/ YouTubeTurnsOn \/ ApplyAction
  BY <1>2 DEF ModuleLoads, YouTubeTurnsOn, ApplyAction, threadVars, pageVars, noteVars
<1>3. CASE Poll
  BY <1>3 DEF Poll, pageVars, noteVars, PageOK, ThreadOK
<1>4. CASE PollFails
  BY <1>4, Zenon DEF PollFails
<1>5. CASE Toggle
  <2>1. PICK a \in ToggleAnswers :
           toggled' = (toggled \/ (videoUp /\ prevUp /\ a[2] \in {"on", "off"}))
    BY <1>5 DEF Toggle
  <2>2. pending' = FALSE
    BY <1>5, Zenon DEF Toggle, EndsWindow
  <2>3. UNCHANGED <<videoUp, prevUp, watching, missed>>
    BY <1>5 DEF Toggle
  <2>4. toggled' => toggled \/ (videoUp /\ prevUp /\ watching)
    BY <2>1, AnswerIsWatched, Zenon
  <2> QED
    BY <2>2, <2>3, <2>4, Zenon
<1>6. CASE TickIdle
  <2>1. UNCHANGED <<videoUp, watching, toggled, missed>> /\ prevUp' = videoUp /\ pending' = FALSE
    BY <1>6 DEF TickIdle, pageVars, noteVars
  <2> QED
    BY <2>1, Zenon
<1>7. CASE Tick
  <2>1. UNCHANGED toggled /\ (UNCHANGED missed \/ missed' = TRUE)
    BY <1>7 DEF Tick
  <2>2. ~ (videoUp /\ prevUp /\ ~pending)
    BY <1>7, Zenon DEF Tick, WindowOpens, WindowStays
  <2> QED
    BY <2>1, <2>2, Zenon
<1>8. CASE Restart
  <2>1. toggled' = FALSE
    BY <1>8 DEF Restart, SessionStarts
  <2> QED
    BY <2>1, Zenon
<1>9. CASE UNCHANGED captionsVars
  BY <1>9 DEF captionsVars, threadVars, pageVars, noteVars
<1> QED
  BY <1>1, <1>2, <1>3, <1>4, <1>5, <1>6, <1>7, <1>8, <1>9 DEF CaptionsNext

-----------------------------------------------------------------------------
(* Theorems.                                                                *)

CaptionsOK == SettingsOK /\ ThreadOK /\ PageOK /\ CountsOK

LEMMA CaptionsStart == CaptionsInit => CaptionsOK
<1> SUFFICES ASSUME CaptionsInit PROVE CaptionsOK
  OBVIOUS
<1> USE CaptionsAssumption
<1>1. Nothing \in Overlays
  BY DEF Nothing, Overlays, Unset
<1>2. file \in Files(Documents) /\ file.kept = TRUE /\ overlay = Nothing
  BY DEF CaptionsInit, StoreInit, File, Files, Absent
<1>3. setting \in SettingsOf /\ known = TRUE
  BY <1>1, AppliedIsWhole DEF CaptionsInit
<1>4. ThreadOK
  <2>1. pending # TRUE
    BY Zenon DEF CaptionsInit
  <2>2. ticks \in 0..MaxTicks
    BY DEF CaptionsInit
  <2>3. videoUp \in BOOLEAN /\ prevUp \in BOOLEAN /\ pending \in BOOLEAN
    BY DEF CaptionsInit
  <2> QED
    BY <2>1, <2>2, <2>3, Zenon DEF ThreadOK
<1>5. PageOK
  BY DEF CaptionsInit, PageOK, Screens
<1>6. CountsOK
  BY DEF CaptionsInit, CountsOK
<1> QED
  BY <1>1, <1>2, <1>3, <1>4, <1>5, <1>6 DEF CaptionsOK, SettingsOK, StoreInv

LEMMA CaptionsHold == CaptionsSpec => []CaptionsOK
<1>1. CaptionsOK /\ [CaptionsNext]_captionsVars => CaptionsOK'
  BY SettingsStep, ThreadStep, PageStep, CountsStep DEF CaptionsOK
<1> QED
  BY <1>1, CaptionsStart, PTL DEF CaptionsSpec

\* Every setting keeps a value of its own kind, the language list is never empty, and
\* the file is a whole document or none, over any edits, crashes and power cuts.
THEOREM CaptionsTyped == CaptionsSpec => []CaptionsTypeOK
<1>1. CaptionsOK => CaptionsTypeOK
  BY DEF CaptionsOK, CaptionsTypeOK, SettingsOK, StoreInv, SettingsOf, Documents, ThreadOK,
     PageOK, CountsOK, Screens
<1> QED
  BY <1>1, CaptionsHold, PTL

\* A press on a video the thread has seen start is the last word on its captions until a poll
\* misses the video, for any window, any languages and any order of polls, presses and answers.
THEOREM PressStands == CaptionsSpec => ToggleStands
<1>1. CaptionsInit => StandsInv
  BY Zenon DEF CaptionsInit, StandsInv
<1>2. CaptionsOK /\ StandsInv /\ [CaptionsNext]_captionsVars => StandsInv'
  BY StandsStep DEF CaptionsOK
<1>3. StandsInv /\ [CaptionsNext]_captionsVars
        => [toggled /\ toggled' /\ ~missed /\ Tick => cc' = cc]_captionsVars
  <2>1. StandsInv /\ toggled /\ ~missed => ~Tick
    BY Zenon DEF StandsInv, Tick, WindowOpens, WindowStays
  <2> QED
    BY <2>1, Zenon
<1> QED
  BY <1>1, <1>2, <1>3, CaptionsHold, PTL DEF CaptionsSpec, ToggleStands

\* The captions' settings implement SettingsStore, over a write killed or failing at
\* any of its calls and power cuts between any two steps.
THEOREM StoreImplements == CaptionsSpec => StoreKeepsPromise
<1>1. CaptionsInit => Promise!Init
  BY DEF CaptionsInit, StoreInit, File, Absent, Loaded, Promise!Init
<1>2. CaptionsOK /\ [CaptionsNext]_captionsVars => [Promise!Next]_Promise!vars
  BY SettingsStep DEF CaptionsOK, Step
<1> QED
  BY <1>1, <1>2, CaptionsHold, PTL DEF CaptionsSpec, StoreKeepsPromise, Promise!Spec

-----------------------------------------------------------------------------
(* The profile and the CDM.                                                 *)

\* A record with the fields of a profile's directory.
Shaped(d) == d = [exists |-> d.exists, from |-> d.from, has |-> d.has, own |-> d.own]

PcOK ==
    /\ pc \in [Launchers -> BootSteps \cup Calls]
    /\ lock \in Launchers \cup {NoOne}
    /\ engine \in [Launchers -> {"none", "plain", "widevine", "orphan"}]

DirsOK ==
    /\ Shaped(profile)
    /\ staging = [l \in Launchers |-> staging[l]]
    /\ \A l \in Launchers : Shaped(staging[l])

MemOK ==
    /\ mem = [l \in Launchers |-> mem[l]]
    /\ \A l \in Launchers :
        mem[l] = [existed |-> mem[l].existed, got |-> mem[l].got, ready |-> mem[l].ready]

USE DEF Dir, NoMem, Shaped

LEMMA PcInit == Init => PcOK
BY DEF Init, PcOK, BootSteps

LEMMA DirsInit == Init => DirsOK
BY DEF Init, DirsOK, EmptyDir, NoDir

LEMMA MemInit == Init => MemOK
<1> SUFFICES ASSUME Init PROVE MemOK
  OBVIOUS
<1>1. mem = [l \in Launchers |-> NoMem]
  BY DEF Init
<1> QED
  BY <1>1 DEF MemOK

LEMMA CallsGoOn ==
    ASSUME NEW f, NEW c, NEW at \in Calls, NEW o \in Outcomes(f, at, c)
    PROVE  o[2] \in Calls \cup Ends
BY DEF Outcomes, Calls, Ends

LEMMA PcStep == ASSUME PcOK, [Next]_vars PROVE PcOK'
<1> USE DEF PcOK, BootSteps, Calls
<1>1. ASSUME NEW l \in Launchers, Start(l) PROVE PcOK'
  BY <1>1 DEF Start, StartFrame, Move
<1>2. ASSUME NEW l \in Launchers, TakeLock(l) PROVE PcOK'
  BY <1>2 DEF TakeLock, StartFrame, Move
<1>3. ASSUME NEW l \in Launchers, Refused(l) PROVE PcOK'
  BY <1>3 DEF Refused, StartFrame, Move
<1>4. ASSUME NEW l \in Launchers, ReadConfig(l) PROVE PcOK'
  BY <1>4 DEF ReadConfig, Released, StartFrame, Move
<1>5. ASSUME NEW l \in Launchers, Inspect(l) PROVE PcOK'
  BY <1>5 DEF Inspect, Fault, MigrationFrame, Move
<1>6. ASSUME NEW l \in Launchers, Prepare(l) PROVE PcOK'
  BY <1>6 DEF Prepare, Fault, MigrationFrame, Move
<1>7. ASSUME NEW l \in Launchers, NEW p \in Pieces, CopyPiece(l, p) PROVE PcOK'
  BY <1>7 DEF CopyPiece, MigrationFrame
<1>8. ASSUME NEW l \in Launchers, Copied(l) PROVE PcOK'
  BY <1>8 DEF Copied, MigrationFrame, Move
<1>9. ASSUME NEW l \in Launchers, CopyFails(l) PROVE PcOK'
  BY <1>9 DEF CopyFails, Fault, MigrationFrame, Move
<1>10. ASSUME NEW l \in Launchers, Replace(l) PROVE PcOK'
  BY <1>10 DEF Replace, MigrationFrame, Move
<1>11. ASSUME NEW l \in Launchers, Promote(l) PROVE PcOK'
  BY <1>11 DEF Promote, Fault, MigrationFrame, Move
<1>12. ASSUME NEW l \in Launchers, Discard(l) PROVE PcOK'
  BY <1>12 DEF Discard, MigrationFrame, Move
<1>13. ASSUME NEW l \in Launchers, CheckCdm(l) PROVE PcOK'
  BY <1>13 DEF CheckCdm, Launch, CdmFrame, Move
<1>14. ASSUME NEW l \in Launchers, Fetch(l) PROVE PcOK'
  BY <1>14 DEF Fetch, Launch, CdmFrame, Move
<1>15. ASSUME NEW l \in Launchers, Install(l) PROVE PcOK'
  <2>1. PICK o \in Outcomes(cdm, pc[l], mem[l].got) :
          IF o[2] \in Ends THEN Launch(l, pc[l], mem[l].ready \/ o[2] = "saved")
          ELSE Move(l, pc[l], o[2]) /\ UNCHANGED <<mem, engine>>
    BY <1>15 DEF Install
  <2>2. pc[l] \in Calls /\ o[2] \in Calls \cup Ends
    BY <1>15, CallsGoOn DEF Install
  <2>3. UNCHANGED lock
    BY <1>15 DEF Install, CdmFrame
  <2> QED
    BY <2>1, <2>2, <2>3 DEF Launch, Move, Ends
<1>16. ASSUME NEW l \in Launchers, EngineWrites(l) PROVE PcOK'
  BY <1>16 DEF EngineWrites, Fault
<1>17. ASSUME NEW l \in Launchers, Quit(l) PROVE PcOK'
  BY <1>17 DEF Quit, Released, StartFrame, Move
<1>18. ASSUME NEW l \in Launchers, Killed(l) PROVE PcOK'
  BY <1>18 DEF Killed, Released, StartFrame
<1>19. ASSUME NEW l \in Launchers, OrphanEnds(l) PROVE PcOK'
  BY <1>19 DEF OrphanEnds, StartFrame
<1>20. CASE WrittenBack
  BY <1>20 DEF WrittenBack
<1>21. CASE PowerCut
  BY <1>21 DEF PowerCut, Fault
<1>22. CASE UNCHANGED vars
  BY <1>22 DEF vars
<1> QED
  BY <1>1, <1>2, <1>3, <1>4, <1>5, <1>6, <1>7, <1>8, <1>9, <1>10, <1>11, <1>12, <1>13, <1>14, <1>15, <1>16, <1>17, <1>18, <1>19, <1>20, <1>21, <1>22 DEF Next, Launcher

LEMMA DirsStep == ASSUME DirsOK, [Next]_vars PROVE DirsOK'
<1> USE DEF DirsOK
<1>1. ASSUME NEW l \in Launchers, Start(l) PROVE DirsOK'
  BY <1>1 DEF Start, StartFrame, Move
<1>2. ASSUME NEW l \in Launchers, TakeLock(l) PROVE DirsOK'
  BY <1>2 DEF TakeLock, StartFrame, Move
<1>3. ASSUME NEW l \in Launchers, Refused(l) PROVE DirsOK'
  BY <1>3 DEF Refused, StartFrame, Move
<1>4. ASSUME NEW l \in Launchers, ReadConfig(l) PROVE DirsOK'
  BY <1>4 DEF ReadConfig, Released, StartFrame, Move
<1>5. ASSUME NEW l \in Launchers, Inspect(l) PROVE DirsOK'
  BY <1>5 DEF Inspect, Fault, MigrationFrame, Move
<1>6. ASSUME NEW l \in Launchers, Prepare(l) PROVE DirsOK'
  <2> DEFINE fresh == Dir(Source, {}, {})
  <2>1. CASE UNCHANGED staging
    BY <1>6, <2>1 DEF Prepare
  <2>2. CASE staging' = [staging EXCEPT ![l] = fresh]
    <3>1. Shaped(fresh)
      OBVIOUS
    <3> HIDE DEF fresh
    <3> QED
      BY <1>6, <2>2, <3>1 DEF Prepare
  <2> QED
    BY <1>6, <2>1, <2>2 DEF Prepare
<1>7. ASSUME NEW l \in Launchers, NEW p \in Pieces, CopyPiece(l, p) PROVE DirsOK'
  BY <1>7 DEF CopyPiece, MigrationFrame
<1>8. ASSUME NEW l \in Launchers, Copied(l) PROVE DirsOK'
  BY <1>8 DEF Copied, MigrationFrame, Move
<1>9. ASSUME NEW l \in Launchers, CopyFails(l) PROVE DirsOK'
  BY <1>9 DEF CopyFails, Fault, MigrationFrame, Move
<1>10. ASSUME NEW l \in Launchers, Replace(l) PROVE DirsOK'
  BY <1>10 DEF Replace, MigrationFrame, NoDir, EmptyDir
<1>11. ASSUME NEW l \in Launchers, Promote(l) PROVE DirsOK'
  BY <1>11 DEF Promote, MigrationFrame, NoDir, EmptyDir
<1>12. ASSUME NEW l \in Launchers, Discard(l) PROVE DirsOK'
  BY <1>12 DEF Discard, MigrationFrame, NoDir, EmptyDir
<1>13. ASSUME NEW l \in Launchers, CheckCdm(l) PROVE DirsOK'
  BY <1>13 DEF CheckCdm, Launch, CdmFrame, Move
<1>14. ASSUME NEW l \in Launchers, Fetch(l) PROVE DirsOK'
  BY <1>14 DEF Fetch, Launch, CdmFrame, Move
<1>15. ASSUME NEW l \in Launchers, Install(l) PROVE DirsOK'
  BY <1>15 DEF Install, Launch, CdmFrame, Move
<1>16. ASSUME NEW l \in Launchers, EngineWrites(l) PROVE DirsOK'
  BY <1>16 DEF EngineWrites, Fault
<1>17. ASSUME NEW l \in Launchers, Quit(l) PROVE DirsOK'
  BY <1>17 DEF Quit, Released, StartFrame, Move
<1>18. ASSUME NEW l \in Launchers, Killed(l) PROVE DirsOK'
  BY <1>18 DEF Killed, Released, StartFrame
<1>19. ASSUME NEW l \in Launchers, OrphanEnds(l) PROVE DirsOK'
  BY <1>19 DEF OrphanEnds, StartFrame
<1>20. CASE WrittenBack
  BY <1>20 DEF WrittenBack
<1>21. CASE PowerCut
  BY <1>21 DEF PowerCut, Fault
<1>22. CASE UNCHANGED vars
  BY <1>22 DEF vars
<1> QED
  BY <1>1, <1>2, <1>3, <1>4, <1>5, <1>6, <1>7, <1>8, <1>9, <1>10, <1>11, <1>12, <1>13, <1>14, <1>15, <1>16, <1>17, <1>18, <1>19, <1>20, <1>21, <1>22 DEF Next, Launcher

LEMMA MemStep == ASSUME MemOK, [Next]_vars PROVE MemOK'
<1> USE DEF MemOK
<1>1. ASSUME NEW l \in Launchers, Start(l) PROVE MemOK'
  BY <1>1 DEF Start, StartFrame, Move
<1>2. ASSUME NEW l \in Launchers, TakeLock(l) PROVE MemOK'
  BY <1>2 DEF TakeLock, StartFrame, Move
<1>3. ASSUME NEW l \in Launchers, Refused(l) PROVE MemOK'
  BY <1>3 DEF Refused, StartFrame, Move
<1>4. ASSUME NEW l \in Launchers, ReadConfig(l) PROVE MemOK'
  BY <1>4 DEF ReadConfig, Released, StartFrame, Move
<1>5. ASSUME NEW l \in Launchers, Inspect(l) PROVE MemOK'
  BY <1>5 DEF Inspect, Fault, MigrationFrame, Move
<1>6. ASSUME NEW l \in Launchers, Prepare(l) PROVE MemOK'
  BY <1>6 DEF Prepare, Fault, MigrationFrame, Move
<1>7. ASSUME NEW l \in Launchers, NEW p \in Pieces, CopyPiece(l, p) PROVE MemOK'
  BY <1>7 DEF CopyPiece, MigrationFrame
<1>8. ASSUME NEW l \in Launchers, Copied(l) PROVE MemOK'
  BY <1>8 DEF Copied, MigrationFrame, Move
<1>9. ASSUME NEW l \in Launchers, CopyFails(l) PROVE MemOK'
  BY <1>9 DEF CopyFails, Fault, MigrationFrame, Move
<1>10. ASSUME NEW l \in Launchers, Replace(l) PROVE MemOK'
  BY <1>10 DEF Replace, MigrationFrame, Move
<1>11. ASSUME NEW l \in Launchers, Promote(l) PROVE MemOK'
  BY <1>11 DEF Promote, Fault, MigrationFrame, Move
<1>12. ASSUME NEW l \in Launchers, Discard(l) PROVE MemOK'
  BY <1>12 DEF Discard, MigrationFrame, Move
<1>13. ASSUME NEW l \in Launchers, CheckCdm(l) PROVE MemOK'
  <2>1. CASE mem' = [mem EXCEPT ![l] = NoMem]
    BY <2>1
  <2>2. CASE mem' = [mem EXCEPT ![l].ready = Mismatch]
    BY <2>2
  <2> QED
    BY <1>13, <2>1, <2>2 DEF CheckCdm, Launch
<1>14. ASSUME NEW l \in Launchers, Fetch(l) PROVE MemOK'
  <2>1. CASE mem' = [mem EXCEPT ![l] = NoMem]
    BY <2>1
  <2>2. ASSUME NEW b \in Bytes, mem' = [mem EXCEPT ![l].got = b] PROVE MemOK'
    BY <2>2
  <2>3. \/ Launch(l, "fetch", mem[l].ready)
        \/ \E b \in Bytes : mem' = [mem EXCEPT ![l].got = b]
    BY <1>14, Zenon DEF Fetch
  <2> QED
    BY <2>1, <2>2, <2>3 DEF Launch
<1>15. ASSUME NEW l \in Launchers, Install(l) PROVE MemOK'
  <2>1. CASE mem' = [mem EXCEPT ![l] = NoMem]
    BY <2>1
  <2>2. \/ mem' = [mem EXCEPT ![l] = NoMem]
        \/ UNCHANGED mem
    BY <1>15 DEF Install, Launch
  <2> QED
    BY <2>1, <2>2
<1>16. ASSUME NEW l \in Launchers, EngineWrites(l) PROVE MemOK'
  BY <1>16 DEF EngineWrites, Fault
<1>17. ASSUME NEW l \in Launchers, Quit(l) PROVE MemOK'
  BY <1>17 DEF Quit, Released, StartFrame, Move
<1>18. ASSUME NEW l \in Launchers, Killed(l) PROVE MemOK'
  BY <1>18 DEF Killed, Released, StartFrame
<1>19. ASSUME NEW l \in Launchers, OrphanEnds(l) PROVE MemOK'
  BY <1>19 DEF OrphanEnds, StartFrame
<1>20. CASE WrittenBack
  BY <1>20 DEF WrittenBack
<1>21. CASE PowerCut
  BY <1>21 DEF PowerCut, Fault
<1>22. CASE UNCHANGED vars
  BY <1>22 DEF vars
<1> QED
  BY <1>1, <1>2, <1>3, <1>4, <1>5, <1>6, <1>7, <1>8, <1>9, <1>10, <1>11, <1>12, <1>13, <1>14, <1>15, <1>16, <1>17, <1>18, <1>19, <1>20, <1>21, <1>22 DEF Next, Launcher

-----------------------------------------------------------------------------
(* The lock.                                                                *)

\* The holder of the lock is a launcher past it, and under a lock that can be taken
\* there is no other one.
LockInv ==
    /\ lock # NoOne => pc[lock] \notin {"off", "lock"}
    /\ Guarded => \A l \in Launchers : pc[l] \notin {"off", "lock"} => lock = l

LEMMA LockStep == ASSUME PcOK, LockInv, [Next]_vars PROVE LockInv'
<1> USE BootAssumption DEF PcOK, LockInv, Calls
<1>1. ASSUME NEW l \in Launchers, Start(l) PROVE LockInv'
  BY <1>1 DEF Start, StartFrame, Move
<1>2. ASSUME NEW l \in Launchers, TakeLock(l) PROVE LockInv'
  BY <1>2 DEF TakeLock, StartFrame, Move
<1>3. ASSUME NEW l \in Launchers, Refused(l) PROVE LockInv'
  BY <1>3 DEF Refused, StartFrame, Move
<1>4. ASSUME NEW l \in Launchers, ReadConfig(l) PROVE LockInv'
  BY <1>4 DEF ReadConfig, Released, StartFrame, Move
<1>5. ASSUME NEW l \in Launchers, Inspect(l) PROVE LockInv'
  BY <1>5 DEF Inspect, Fault, MigrationFrame, Move
<1>6. ASSUME NEW l \in Launchers, Prepare(l) PROVE LockInv'
  BY <1>6 DEF Prepare, Fault, MigrationFrame, Move
<1>7. ASSUME NEW l \in Launchers, NEW p \in Pieces, CopyPiece(l, p) PROVE LockInv'
  BY <1>7 DEF CopyPiece, MigrationFrame
<1>8. ASSUME NEW l \in Launchers, Copied(l) PROVE LockInv'
  BY <1>8 DEF Copied, MigrationFrame, Move
<1>9. ASSUME NEW l \in Launchers, CopyFails(l) PROVE LockInv'
  BY <1>9 DEF CopyFails, Fault, MigrationFrame, Move
<1>10. ASSUME NEW l \in Launchers, Replace(l) PROVE LockInv'
  BY <1>10 DEF Replace, MigrationFrame, Move
<1>11. ASSUME NEW l \in Launchers, Promote(l) PROVE LockInv'
  BY <1>11 DEF Promote, Fault, MigrationFrame, Move
<1>12. ASSUME NEW l \in Launchers, Discard(l) PROVE LockInv'
  BY <1>12 DEF Discard, MigrationFrame, Move
<1>13. ASSUME NEW l \in Launchers, CheckCdm(l) PROVE LockInv'
  BY <1>13 DEF CheckCdm, Launch, CdmFrame, Move
<1>14. ASSUME NEW l \in Launchers, Fetch(l) PROVE LockInv'
  BY <1>14 DEF Fetch, Launch, CdmFrame, Move
<1>15. ASSUME NEW l \in Launchers, Install(l) PROVE LockInv'
  <2>1. PICK o \in Outcomes(cdm, pc[l], mem[l].got) :
          IF o[2] \in Ends THEN Launch(l, pc[l], mem[l].ready \/ o[2] = "saved")
          ELSE Move(l, pc[l], o[2]) /\ UNCHANGED <<mem, engine>>
    BY <1>15 DEF Install
  <2>2. pc[l] \in Calls /\ o[2] \in Calls \cup Ends
    BY <1>15, CallsGoOn DEF Install
  <2>3. UNCHANGED lock
    BY <1>15 DEF Install, CdmFrame
  <2> QED
    BY <2>1, <2>2, <2>3 DEF Launch, Move, Ends
<1>16. ASSUME NEW l \in Launchers, EngineWrites(l) PROVE LockInv'
  BY <1>16 DEF EngineWrites, Fault
<1>17. ASSUME NEW l \in Launchers, Quit(l) PROVE LockInv'
  BY <1>17 DEF Quit, Released, StartFrame, Move
<1>18. ASSUME NEW l \in Launchers, Killed(l) PROVE LockInv'
  BY <1>18 DEF Killed, Released, StartFrame
<1>19. ASSUME NEW l \in Launchers, OrphanEnds(l) PROVE LockInv'
  BY <1>19 DEF OrphanEnds, StartFrame
<1>20. CASE WrittenBack
  BY <1>20 DEF WrittenBack
<1>21. CASE PowerCut
  BY <1>21 DEF PowerCut, Fault
<1>22. CASE UNCHANGED vars
  BY <1>22 DEF vars
<1> QED
  BY <1>1, <1>2, <1>3, <1>4, <1>5, <1>6, <1>7, <1>8, <1>9, <1>10, <1>11, <1>12, <1>13, <1>14, <1>15, <1>16, <1>17, <1>18, <1>19, <1>20, <1>21, <1>22 DEF Next, Launcher

-----------------------------------------------------------------------------
(* The migration of a legacy profile.                                       *)

\* What is about to be promoted is a whole copy, or one of nothing.
CopyInv ==
    \A l \in Launchers :
        /\ pc[l] \in {"copy", "replace", "promote"} => staging[l].from = Source
        /\ pc[l] \in {"replace", "promote"} => staging[l].has \in {{}, Pieces}

LEMMA SourceStands == ASSUME [Next]_vars PROVE Source' = Source
<1>1. legacy' = legacy
  BY Zenon DEF vars, Next, Launcher, Start, TakeLock, Refused, ReadConfig, Inspect, Prepare, CopyPiece,
     Copied, CopyFails, Replace, Promote, Discard, CheckCdm, Fetch, Install, EngineWrites, Quit,
     Killed, OrphanEnds, WrittenBack, PowerCut, StartFrame, MigrationFrame, CdmFrame
<1> QED
  BY <1>1 DEF Source, Acceptable

LEMMA CopyStep == ASSUME PcOK, DirsOK, CopyInv, [Next]_vars PROVE CopyInv'
<1> USE SourceStands DEF PcOK, DirsOK, CopyInv, Calls
<1>1. ASSUME NEW l \in Launchers, Start(l) PROVE CopyInv'
  BY <1>1 DEF Start, StartFrame, Move
<1>2. ASSUME NEW l \in Launchers, TakeLock(l) PROVE CopyInv'
  BY <1>2 DEF TakeLock, StartFrame, Move
<1>3. ASSUME NEW l \in Launchers, Refused(l) PROVE CopyInv'
  BY <1>3 DEF Refused, StartFrame, Move
<1>4. ASSUME NEW l \in Launchers, ReadConfig(l) PROVE CopyInv'
  BY <1>4 DEF ReadConfig, Released, StartFrame, Move
<1>5. ASSUME NEW l \in Launchers, Inspect(l) PROVE CopyInv'
  BY <1>5 DEF Inspect, Fault, MigrationFrame, Move
<1>6. ASSUME NEW l \in Launchers, Prepare(l) PROVE CopyInv'
  BY <1>6 DEF Prepare, Fault, MigrationFrame, Move
<1>7. ASSUME NEW l \in Launchers, NEW p \in Pieces, CopyPiece(l, p) PROVE CopyInv'
  BY <1>7 DEF CopyPiece, MigrationFrame
<1>8. ASSUME NEW l \in Launchers, Copied(l) PROVE CopyInv'
  BY <1>8 DEF Copied, MigrationFrame, Move
<1>9. ASSUME NEW l \in Launchers, CopyFails(l) PROVE CopyInv'
  BY <1>9 DEF CopyFails, Fault, MigrationFrame, Move
<1>10. ASSUME NEW l \in Launchers, Replace(l) PROVE CopyInv'
  BY <1>10 DEF Replace, MigrationFrame, Move
<1>11. ASSUME NEW l \in Launchers, Promote(l) PROVE CopyInv'
  BY <1>11 DEF Promote, Fault, MigrationFrame, Move
<1>12. ASSUME NEW l \in Launchers, Discard(l) PROVE CopyInv'
  BY <1>12 DEF Discard, MigrationFrame, Move
<1>13. ASSUME NEW l \in Launchers, CheckCdm(l) PROVE CopyInv'
  BY <1>13 DEF CheckCdm, Launch, CdmFrame, Move
<1>14. ASSUME NEW l \in Launchers, Fetch(l) PROVE CopyInv'
  BY <1>14 DEF Fetch, Launch, CdmFrame, Move
<1>15. ASSUME NEW l \in Launchers, Install(l) PROVE CopyInv'
  <2>1. PICK o \in Outcomes(cdm, pc[l], mem[l].got) :
          IF o[2] \in Ends THEN Launch(l, pc[l], mem[l].ready \/ o[2] = "saved")
          ELSE Move(l, pc[l], o[2]) /\ UNCHANGED <<mem, engine>>
    BY <1>15 DEF Install
  <2>2. pc[l] \in Calls /\ o[2] \in Calls \cup Ends
    BY <1>15, CallsGoOn DEF Install
  <2>3. UNCHANGED staging
    BY <1>15 DEF Install, CdmFrame
  <2> QED
    BY <2>1, <2>2, <2>3 DEF Launch, Move, Ends
<1>16. ASSUME NEW l \in Launchers, EngineWrites(l) PROVE CopyInv'
  BY <1>16 DEF EngineWrites, Fault
<1>17. ASSUME NEW l \in Launchers, Quit(l) PROVE CopyInv'
  BY <1>17 DEF Quit, Released, StartFrame, Move
<1>18. ASSUME NEW l \in Launchers, Killed(l) PROVE CopyInv'
  BY <1>18 DEF Killed, Released, StartFrame
<1>19. ASSUME NEW l \in Launchers, OrphanEnds(l) PROVE CopyInv'
  BY <1>19 DEF OrphanEnds, StartFrame
<1>20. CASE WrittenBack
  BY <1>20 DEF WrittenBack
<1>21. CASE PowerCut
  BY <1>21 DEF PowerCut, Fault
<1>22. CASE UNCHANGED vars
  BY <1>22 DEF vars
<1> QED
  BY <1>1, <1>2, <1>3, <1>4, <1>5, <1>6, <1>7, <1>8, <1>9, <1>10, <1>11, <1>12, <1>13, <1>14, <1>15, <1>16, <1>17, <1>18, <1>19, <1>20, <1>21, <1>22 DEF Next, Launcher

LEMMA WholeStep ==
    ASSUME PcOK, DirsOK, CopyInv, MigrationIsWhole, [Next]_vars PROVE MigrationIsWhole'
<1> USE SourceStands DEF DirsOK, MigrationIsWhole
<1>1. ASSUME NEW l \in Launchers, Start(l) PROVE MigrationIsWhole'
  BY <1>1 DEF Start, StartFrame, Move
<1>2. ASSUME NEW l \in Launchers, TakeLock(l) PROVE MigrationIsWhole'
  BY <1>2 DEF TakeLock, StartFrame, Move
<1>3. ASSUME NEW l \in Launchers, Refused(l) PROVE MigrationIsWhole'
  BY <1>3 DEF Refused, StartFrame, Move
<1>4. ASSUME NEW l \in Launchers, ReadConfig(l) PROVE MigrationIsWhole'
  BY <1>4 DEF ReadConfig, Released, StartFrame, Move
<1>5. ASSUME NEW l \in Launchers, Inspect(l) PROVE MigrationIsWhole'
  BY <1>5 DEF Inspect, Fault, MigrationFrame, Move
<1>6. ASSUME NEW l \in Launchers, Prepare(l) PROVE MigrationIsWhole'
  BY <1>6 DEF Prepare, Fault, MigrationFrame, Move
<1>7. ASSUME NEW l \in Launchers, NEW p \in Pieces, CopyPiece(l, p) PROVE MigrationIsWhole'
  BY <1>7 DEF CopyPiece, MigrationFrame
<1>8. ASSUME NEW l \in Launchers, Copied(l) PROVE MigrationIsWhole'
  BY <1>8 DEF Copied, MigrationFrame, Move
<1>9. ASSUME NEW l \in Launchers, CopyFails(l) PROVE MigrationIsWhole'
  BY <1>9 DEF CopyFails, Fault, MigrationFrame, Move
<1>10. ASSUME NEW l \in Launchers, Replace(l) PROVE MigrationIsWhole'
  BY <1>10 DEF Replace, MigrationFrame, NoDir, EmptyDir
<1>11. ASSUME NEW l \in Launchers, Promote(l) PROVE MigrationIsWhole'
  BY <1>11 DEF Promote, Fault, MigrationFrame, Move, CopyInv
<1>12. ASSUME NEW l \in Launchers, Discard(l) PROVE MigrationIsWhole'
  BY <1>12 DEF Discard, MigrationFrame, Move
<1>13. ASSUME NEW l \in Launchers, CheckCdm(l) PROVE MigrationIsWhole'
  BY <1>13 DEF CheckCdm, Launch, CdmFrame, Move
<1>14. ASSUME NEW l \in Launchers, Fetch(l) PROVE MigrationIsWhole'
  BY <1>14 DEF Fetch, Launch, CdmFrame, Move
<1>15. ASSUME NEW l \in Launchers, Install(l) PROVE MigrationIsWhole'
  BY <1>15 DEF Install, Launch, CdmFrame, Move
<1>16. ASSUME NEW l \in Launchers, EngineWrites(l) PROVE MigrationIsWhole'
  BY <1>16 DEF EngineWrites, Fault
<1>17. ASSUME NEW l \in Launchers, Quit(l) PROVE MigrationIsWhole'
  BY <1>17 DEF Quit, Released, StartFrame, Move
<1>18. ASSUME NEW l \in Launchers, Killed(l) PROVE MigrationIsWhole'
  BY <1>18 DEF Killed, Released, StartFrame
<1>19. ASSUME NEW l \in Launchers, OrphanEnds(l) PROVE MigrationIsWhole'
  BY <1>19 DEF OrphanEnds, StartFrame
<1>20. CASE WrittenBack
  BY <1>20 DEF WrittenBack
<1>21. CASE PowerCut
  BY <1>21 DEF PowerCut, Fault
<1>22. CASE UNCHANGED vars
  BY <1>22 DEF vars
<1> QED
  BY <1>1, <1>2, <1>3, <1>4, <1>5, <1>6, <1>7, <1>8, <1>9, <1>10, <1>11, <1>12, <1>13, <1>14, <1>15, <1>16, <1>17, <1>18, <1>19, <1>20, <1>21, <1>22 DEF Next, Launcher

-----------------------------------------------------------------------------
(* What a launch may overwrite.                                             *)

\* A launch that migrates found nothing in the profile, and only an orphan has put
\* anything there since.
EmptyInv ==
    /\ ~profile.exists => IsEmpty(profile)
    /\ \A l \in Launchers : pc[l] \in {"copy", "replace", "promote"} => staging[l].exists
    /\ \A l \in Launchers :
        pc[l] \in {"prepare", "copy", "replace", "promote"} =>
            IsEmpty(profile) \/ faults \cap {"cut", "orphan"} # {}

LEMMA EmptyStep ==
    ASSUME Guarded, PcOK, DirsOK, LockInv, EmptyInv, [Next]_vars PROVE EmptyInv'
<1> USE DEF PcOK, DirsOK, LockInv, EmptyInv, IsEmpty, Calls
<1>1. ASSUME NEW l \in Launchers, Start(l) PROVE EmptyInv'
  BY <1>1 DEF Start, StartFrame, Move
<1>2. ASSUME NEW l \in Launchers, TakeLock(l) PROVE EmptyInv'
  BY <1>2 DEF TakeLock, StartFrame, Move
<1>3. ASSUME NEW l \in Launchers, Refused(l) PROVE EmptyInv'
  BY <1>3 DEF Refused, StartFrame, Move
<1>4. ASSUME NEW l \in Launchers, ReadConfig(l) PROVE EmptyInv'
  BY <1>4 DEF ReadConfig, Released, StartFrame, Move
<1>5. ASSUME NEW l \in Launchers, Inspect(l) PROVE EmptyInv'
  BY <1>5 DEF Inspect, MayMigrate, Fault, MigrationFrame, Move
<1>6. ASSUME NEW l \in Launchers, Prepare(l) PROVE EmptyInv'
  BY <1>6 DEF Prepare, Fault, MigrationFrame, Move
<1>7. ASSUME NEW l \in Launchers, NEW p \in Pieces, CopyPiece(l, p) PROVE EmptyInv'
  BY <1>7 DEF CopyPiece, MigrationFrame
<1>8. ASSUME NEW l \in Launchers, Copied(l) PROVE EmptyInv'
  BY <1>8 DEF Copied, MigrationFrame, Move
<1>9. ASSUME NEW l \in Launchers, CopyFails(l) PROVE EmptyInv'
  BY <1>9 DEF CopyFails, Fault, MigrationFrame, Move
<1>10. ASSUME NEW l \in Launchers, Replace(l) PROVE EmptyInv'
  BY <1>10 DEF Replace, MigrationFrame, Move, NoDir, EmptyDir
<1>11. ASSUME NEW l \in Launchers, Promote(l) PROVE EmptyInv'
  BY <1>11 DEF Promote, Fault, MigrationFrame, Move
<1>12. ASSUME NEW l \in Launchers, Discard(l) PROVE EmptyInv'
  BY <1>12 DEF Discard, MigrationFrame, Move
<1>13. ASSUME NEW l \in Launchers, CheckCdm(l) PROVE EmptyInv'
  BY <1>13 DEF CheckCdm, Launch, CdmFrame, Move
<1>14. ASSUME NEW l \in Launchers, Fetch(l) PROVE EmptyInv'
  BY <1>14 DEF Fetch, Launch, CdmFrame, Move
<1>15. ASSUME NEW l \in Launchers, Install(l) PROVE EmptyInv'
  <2>1. PICK o \in Outcomes(cdm, pc[l], mem[l].got) :
          IF o[2] \in Ends THEN Launch(l, pc[l], mem[l].ready \/ o[2] = "saved")
          ELSE Move(l, pc[l], o[2]) /\ UNCHANGED <<mem, engine>>
    BY <1>15 DEF Install
  <2>2. pc[l] \in Calls /\ o[2] \in Calls \cup Ends
    BY <1>15, CallsGoOn DEF Install
  <2>3. UNCHANGED <<staging, faults>>
    BY <1>15 DEF Install, CdmFrame
  <2>4. ~profile'.exists => IsEmpty(profile')
    BY <1>15 DEF Install
  <2>5. \A k \in Launchers : pc'[k] \notin {"prepare", "copy", "replace", "promote"}
    BY <2>1, <2>2 DEF Launch, Move, Ends
  <2> QED
    BY <2>3, <2>4, <2>5
<1>16. ASSUME NEW l \in Launchers, EngineWrites(l) PROVE EmptyInv'
  BY <1>16 DEF EngineWrites, Migrating, Fault
<1>17. ASSUME NEW l \in Launchers, Quit(l) PROVE EmptyInv'
  BY <1>17 DEF Quit, Released, StartFrame, Move
<1>18. ASSUME NEW l \in Launchers, Killed(l) PROVE EmptyInv'
  BY <1>18 DEF Killed, Released, StartFrame
<1>19. ASSUME NEW l \in Launchers, OrphanEnds(l) PROVE EmptyInv'
  BY <1>19 DEF OrphanEnds, StartFrame
<1>20. CASE WrittenBack
  BY <1>20 DEF WrittenBack
<1>21. CASE PowerCut
  BY <1>21 DEF PowerCut, Fault
<1>22. CASE UNCHANGED vars
  BY <1>22 DEF vars
<1> QED
  BY <1>1, <1>2, <1>3, <1>4, <1>5, <1>6, <1>7, <1>8, <1>9, <1>10, <1>11, <1>12, <1>13, <1>14, <1>15, <1>16, <1>17, <1>18, <1>19, <1>20, <1>21, <1>22 DEF Next, Launcher

LEMMA KeptStep ==
    ASSUME Guarded, DirsOK, EmptyInv, [Next]_vars
    PROVE  \/ profile.has \subseteq profile'.has /\ profile.own \subseteq profile'.own
           \/ faults' \cap {"cut", "orphan"} # {}
<1> DEFINE Kept == \/ profile.has \subseteq profile'.has /\ profile.own \subseteq profile'.own
                   \/ faults' \cap {"cut", "orphan"} # {}
<1> USE DEF DirsOK, EmptyInv, IsEmpty
<1>1. ASSUME NEW l \in Launchers, Start(l) PROVE Kept
  BY <1>1 DEF Start, StartFrame, Move
<1>2. ASSUME NEW l \in Launchers, TakeLock(l) PROVE Kept
  BY <1>2 DEF TakeLock, StartFrame, Move
<1>3. ASSUME NEW l \in Launchers, Refused(l) PROVE Kept
  BY <1>3 DEF Refused, StartFrame, Move
<1>4. ASSUME NEW l \in Launchers, ReadConfig(l) PROVE Kept
  BY <1>4 DEF ReadConfig, Released, StartFrame, Move
<1>5. ASSUME NEW l \in Launchers, Inspect(l) PROVE Kept
  BY <1>5 DEF Inspect, Fault, MigrationFrame, Move
<1>6. ASSUME NEW l \in Launchers, Prepare(l) PROVE Kept
  BY <1>6 DEF Prepare, Fault, MigrationFrame, Move
<1>7. ASSUME NEW l \in Launchers, NEW p \in Pieces, CopyPiece(l, p) PROVE Kept
  BY <1>7 DEF CopyPiece, MigrationFrame
<1>8. ASSUME NEW l \in Launchers, Copied(l) PROVE Kept
  BY <1>8 DEF Copied, MigrationFrame, Move
<1>9. ASSUME NEW l \in Launchers, CopyFails(l) PROVE Kept
  BY <1>9 DEF CopyFails, Fault, MigrationFrame, Move
<1>10. ASSUME NEW l \in Launchers, Replace(l) PROVE Kept
  BY <1>10 DEF Replace, MigrationFrame, Move, NoDir, EmptyDir
<1>11. ASSUME NEW l \in Launchers, Promote(l) PROVE Kept
  BY <1>11 DEF Promote, Fault, MigrationFrame, Move
<1>12. ASSUME NEW l \in Launchers, Discard(l) PROVE Kept
  BY <1>12 DEF Discard, MigrationFrame, Move
<1>13. ASSUME NEW l \in Launchers, CheckCdm(l) PROVE Kept
  BY <1>13 DEF CheckCdm, Launch, CdmFrame, Move
<1>14. ASSUME NEW l \in Launchers, Fetch(l) PROVE Kept
  BY <1>14 DEF Fetch, Launch, CdmFrame, Move
<1>15. ASSUME NEW l \in Launchers, Install(l) PROVE Kept
  BY <1>15 DEF Install, Launch, CdmFrame, Move
<1>16. ASSUME NEW l \in Launchers, EngineWrites(l) PROVE Kept
  BY <1>16 DEF EngineWrites, Fault
<1>17. ASSUME NEW l \in Launchers, Quit(l) PROVE Kept
  BY <1>17 DEF Quit, Released, StartFrame, Move
<1>18. ASSUME NEW l \in Launchers, Killed(l) PROVE Kept
  BY <1>18 DEF Killed, Released, StartFrame
<1>19. ASSUME NEW l \in Launchers, OrphanEnds(l) PROVE Kept
  BY <1>19 DEF OrphanEnds, StartFrame
<1>20. CASE WrittenBack
  BY <1>20 DEF WrittenBack
<1>21. CASE PowerCut
  BY <1>21 DEF PowerCut, Fault
<1>22. CASE UNCHANGED vars
  BY <1>22 DEF vars
<1> QED
  BY <1>1, <1>2, <1>3, <1>4, <1>5, <1>6, <1>7, <1>8, <1>9, <1>10, <1>11, <1>12, <1>13, <1>14, <1>15, <1>16, <1>17, <1>18, <1>19, <1>20, <1>21, <1>22 DEF Next, Launcher

\* While nothing has failed, a launch past the migration is in a profile that has the
\* legacy entries, if there are any, and so is an engine that is up.
StrandInv ==
    Source # 0 /\ faults = {} =>
        /\ profile.own # {} => profile.has # {}
        /\ \A l \in Launchers :
            /\ pc[l] \in Calls \cup {"check", "fetch", "run"} => profile.has # {}
            /\ engine[l] # "none" => profile.has # {}
            /\ pc[l] \in {"replace", "promote"} => staging[l].has = Pieces
            /\ pc[l] # "discard"

LEMMA StrandStep ==
    ASSUME Guarded, PcOK, DirsOK, EmptyInv, StrandInv, [Next]_vars PROVE StrandInv'
<1> USE SourceStands, BootAssumption DEF PcOK, DirsOK, EmptyInv, StrandInv, IsEmpty, Calls
<1>1. ASSUME NEW l \in Launchers, Start(l) PROVE StrandInv'
  BY <1>1 DEF Start, StartFrame, Move
<1>2. ASSUME NEW l \in Launchers, TakeLock(l) PROVE StrandInv'
  BY <1>2 DEF TakeLock, StartFrame, Move
<1>3. ASSUME NEW l \in Launchers, Refused(l) PROVE StrandInv'
  BY <1>3 DEF Refused, StartFrame, Move
<1>4. ASSUME NEW l \in Launchers, ReadConfig(l) PROVE StrandInv'
  BY <1>4 DEF ReadConfig, Released, StartFrame, Move
<1>5. ASSUME NEW l \in Launchers, Inspect(l) PROVE StrandInv'
  BY <1>5 DEF Inspect, MayMigrate, Fault, MigrationFrame, Move
<1>6. ASSUME NEW l \in Launchers, Prepare(l) PROVE StrandInv'
  BY <1>6 DEF Prepare, Fault, MigrationFrame, Move
<1>7. ASSUME NEW l \in Launchers, NEW p \in Pieces, CopyPiece(l, p) PROVE StrandInv'
  BY <1>7 DEF CopyPiece, MigrationFrame
<1>8. ASSUME NEW l \in Launchers, Copied(l) PROVE StrandInv'
  BY <1>8 DEF Copied, MigrationFrame, Move
<1>9. ASSUME NEW l \in Launchers, CopyFails(l) PROVE StrandInv'
  BY <1>9 DEF CopyFails, Fault, MigrationFrame, Move
<1>10. ASSUME NEW l \in Launchers, Replace(l) PROVE StrandInv'
  BY <1>10 DEF Replace, MigrationFrame, Move, NoDir, EmptyDir
<1>11. ASSUME NEW l \in Launchers, Promote(l) PROVE StrandInv'
  BY <1>11 DEF Promote, Fault, MigrationFrame, Move
<1>12. ASSUME NEW l \in Launchers, Discard(l) PROVE StrandInv'
  BY <1>12 DEF Discard, MigrationFrame, Move
<1>13. ASSUME NEW l \in Launchers, CheckCdm(l) PROVE StrandInv'
  BY <1>13 DEF CheckCdm, Launch, CdmFrame, Move
<1>14. ASSUME NEW l \in Launchers, Fetch(l) PROVE StrandInv'
  BY <1>14 DEF Fetch, Launch, CdmFrame, Move
<1>15. ASSUME NEW l \in Launchers, Install(l) PROVE StrandInv'
  <2>1. PICK o \in Outcomes(cdm, pc[l], mem[l].got) :
          IF o[2] \in Ends THEN Launch(l, pc[l], mem[l].ready \/ o[2] = "saved")
          ELSE Move(l, pc[l], o[2]) /\ UNCHANGED <<mem, engine>>
    BY <1>15 DEF Install
  <2>2. pc[l] \in Calls /\ o[2] \in Calls \cup Ends
    BY <1>15, CallsGoOn DEF Install
  <2>3. UNCHANGED <<staging, faults>> /\ profile'.has = profile.has
    BY <1>15 DEF Install, CdmFrame
  <2> QED
    BY <2>1, <2>2, <2>3 DEF Launch, Move, Ends
<1>16. ASSUME NEW l \in Launchers, EngineWrites(l) PROVE StrandInv'
  BY <1>16 DEF EngineWrites, Fault
<1>17. ASSUME NEW l \in Launchers, Quit(l) PROVE StrandInv'
  BY <1>17 DEF Quit, Released, StartFrame, Move
<1>18. ASSUME NEW l \in Launchers, Killed(l) PROVE StrandInv'
  BY <1>18 DEF Killed, Released, StartFrame
<1>19. ASSUME NEW l \in Launchers, OrphanEnds(l) PROVE StrandInv'
  BY <1>19 DEF OrphanEnds, StartFrame
<1>20. CASE WrittenBack
  BY <1>20 DEF WrittenBack
<1>21. CASE PowerCut
  BY <1>21 DEF PowerCut, Fault
<1>22. CASE UNCHANGED vars
  BY <1>22 DEF vars
<1> QED
  BY <1>1, <1>2, <1>3, <1>4, <1>5, <1>6, <1>7, <1>8, <1>9, <1>10, <1>11, <1>12, <1>13, <1>14, <1>15, <1>16, <1>17, <1>18, <1>19, <1>20, <1>21, <1>22 DEF Next, Launcher

-----------------------------------------------------------------------------
(* The Widevine CDM.                                                        *)

\* The file is never torn, not on the disk either, as no part is renamed before it
\* is synced; and an engine that was given its path has it.
CdmFile ==
    /\ cdm = [main |-> cdm.main, before |-> cdm.before, kept |-> cdm.kept,
              part |-> cdm.part, synced |-> cdm.synced]
    /\ {cdm.main, cdm.before} \subseteq Bytes \cup {Absent} /\ cdm.kept

CdmOf(l) ==
    /\ pc[l] \in Calls => mem[l].got \in Bytes
    /\ pc[l] \in {"sync", "rename"} => cdm.part = mem[l].got
    /\ pc[l] = "rename" => cdm.synced
    /\ pc[l] \in Calls \cup {"fetch"} /\ mem[l].ready => cdm.main \in Bytes
    /\ engine[l] = "widevine" => pc[l] = "run" /\ cdm.main \in Bytes

CdmInv == CdmFile /\ \A l \in Launchers : CdmOf(l)

LEMMA CdmStep ==
    ASSUME Guarded, PcOK, MemOK, LockInv, CdmInv, [Next]_vars PROVE CdmInv'
<1> USE DEF PcOK, MemOK, LockInv, CdmInv, CdmFile, CdmOf, Calls
<1>1. ASSUME NEW l \in Launchers, Start(l) PROVE CdmInv'
  BY <1>1 DEF Start, StartFrame, Move
<1>2. ASSUME NEW l \in Launchers, TakeLock(l) PROVE CdmInv'
  BY <1>2 DEF TakeLock, StartFrame, Move
<1>3. ASSUME NEW l \in Launchers, Refused(l) PROVE CdmInv'
  BY <1>3 DEF Refused, StartFrame, Move
<1>4. ASSUME NEW l \in Launchers, ReadConfig(l) PROVE CdmInv'
  BY <1>4 DEF ReadConfig, Released, StartFrame, Move
<1>5. ASSUME NEW l \in Launchers, Inspect(l) PROVE CdmInv'
  BY <1>5 DEF Inspect, Fault, MigrationFrame, Move
<1>6. ASSUME NEW l \in Launchers, Prepare(l) PROVE CdmInv'
  BY <1>6 DEF Prepare, Fault, MigrationFrame, Move
<1>7. ASSUME NEW l \in Launchers, NEW p \in Pieces, CopyPiece(l, p) PROVE CdmInv'
  BY <1>7 DEF CopyPiece, MigrationFrame
<1>8. ASSUME NEW l \in Launchers, Copied(l) PROVE CdmInv'
  BY <1>8 DEF Copied, MigrationFrame, Move
<1>9. ASSUME NEW l \in Launchers, CopyFails(l) PROVE CdmInv'
  BY <1>9 DEF CopyFails, Fault, MigrationFrame, Move
<1>10. ASSUME NEW l \in Launchers, Replace(l) PROVE CdmInv'
  BY <1>10 DEF Replace, MigrationFrame, Move, File
<1>11. ASSUME NEW l \in Launchers, Promote(l) PROVE CdmInv'
  BY <1>11 DEF Promote, Fault, MigrationFrame, Move
<1>12. ASSUME NEW l \in Launchers, Discard(l) PROVE CdmInv'
  BY <1>12 DEF Discard, MigrationFrame, Move
<1>13. ASSUME NEW l \in Launchers, CheckCdm(l) PROVE CdmInv'
  <2>1. UNCHANGED cdm
    BY <1>13 DEF CheckCdm
  <2>2. CASE Launch(l, "check", Verified \/ Mismatch)
    <3>1. \A k \in Launchers \ {l} : CdmOf(k)'
      BY <2>1, <2>2 DEF Launch, Move
    <3>2. engine'[l] = "widevine" => cdm.main \in Bytes
      BY <2>2 DEF Launch, Verified, Mismatch
    <3>3. pc'[l] = "run" /\ CdmFile'
      BY <2>1, <2>2 DEF Launch, Move
    <3> QED
      BY <2>1, <3>1, <3>2, <3>3
  <2>3. CASE /\ Move(l, "check", "fetch") /\ UNCHANGED engine
             /\ mem' = [mem EXCEPT ![l].ready = Mismatch]
    <3>1. \A k \in Launchers \ {l} : CdmOf(k)'
      BY <2>1, <2>3 DEF Move
    <3>2. mem'[l].ready => cdm.main \in Bytes
      <4>1. mem'[l].ready = Mismatch
        BY <2>3
      <4>2. Mismatch => cdm.main \in Bytes
        BY DEF Mismatch
      <4> QED
        BY <4>1, <4>2
    <3>3. pc'[l] = "fetch" /\ engine'[l] = engine[l] /\ pc[l] = "check" /\ CdmFile'
      BY <2>1, <2>3 DEF Move
    <3> QED
      BY <2>1, <3>1, <3>2, <3>3
  <2> QED
    BY <1>13, <2>2, <2>3 DEF CheckCdm
<1>14. ASSUME NEW l \in Launchers, Fetch(l) PROVE CdmInv'
  <2>1. UNCHANGED cdm
    BY <1>14 DEF Fetch, CdmFrame
  <2>2. CASE Launch(l, "fetch", mem[l].ready)
    BY <1>14, <2>1, <2>2 DEF Launch, Move
  <2>3. ASSUME NEW b \in Bytes, Move(l, "fetch", "open"), UNCHANGED engine,
               mem' = [mem EXCEPT ![l].got = b]
        PROVE  CdmInv'
    BY <2>1, <2>3 DEF Move
  <2>4. \/ Launch(l, "fetch", mem[l].ready)
        \/ \E b \in Bytes : /\ Move(l, "fetch", "open") /\ UNCHANGED engine
                            /\ mem' = [mem EXCEPT ![l].got = b]
    BY <1>14, Zenon DEF Fetch
  <2> QED
    BY <2>2, <2>3, <2>4
<1>15. ASSUME NEW l \in Launchers, Install(l) PROVE CdmInv'
  <2> DEFINE c == mem[l].got
  <2>1. PICK o \in Outcomes(cdm, pc[l], c) :
          /\ cdm' = o[1]
          /\ IF o[2] \in Ends THEN Launch(l, pc[l], mem[l].ready \/ o[2] = "saved")
             ELSE Move(l, pc[l], o[2]) /\ UNCHANGED <<mem, engine>>
    BY <1>15 DEF Install
  <2>2. pc[l] \in Calls /\ c \in Bytes
    BY <1>15 DEF Install
  <2>3. \A k \in Launchers \ {l} : pc[k] \in {"off", "lock"} /\ engine[k] # "widevine"
    BY <2>2
  <2>4. ASSUME pc[l] = "open" PROVE CdmFile' /\ CdmOf(l)'
    <3>1. o \in {<<Opened(cdm), "write">>, <<cdm, "failed">>}
      BY <2>1, <2>4 DEF Outcomes
    <3>2. ASSUME o = <<Opened(cdm), "write">> PROVE CdmFile' /\ CdmOf(l)'
      BY <2>1, <2>2, <2>4, <3>2 DEF Opened, Move, Ends
    <3>3. ASSUME o = <<cdm, "failed">> PROVE CdmFile' /\ CdmOf(l)'
      BY <2>1, <2>2, <2>4, <3>3 DEF Launch, Move, Ends
    <3> QED
      BY <3>1, <3>2, <3>3
  <2>5. ASSUME pc[l] = "write" PROVE CdmFile' /\ CdmOf(l)'
    <3>1. o \in {<<Written(cdm, c), "sync">>, <<cdm, "remove">>}
      BY <2>1, <2>5 DEF Outcomes
    <3>2. ASSUME o = <<Written(cdm, c), "sync">> PROVE CdmFile' /\ CdmOf(l)'
      BY <2>1, <2>2, <2>5, <3>2 DEF Written, Move, Ends
    <3>3. ASSUME o = <<cdm, "remove">> PROVE CdmFile' /\ CdmOf(l)'
      BY <2>1, <2>2, <2>5, <3>3 DEF Move, Ends
    <3> QED
      BY <3>1, <3>2, <3>3
  <2>6. ASSUME pc[l] = "sync" PROVE CdmFile' /\ CdmOf(l)'
    <3>1. o \in {<<Synced(cdm), "rename">>, <<cdm, "remove">>}
      BY <2>1, <2>6 DEF Outcomes
    <3>2. ASSUME o = <<Synced(cdm), "rename">> PROVE CdmFile' /\ CdmOf(l)'
      BY <2>1, <2>2, <2>6, <3>2 DEF Synced, Move, Ends
    <3>3. ASSUME o = <<cdm, "remove">> PROVE CdmFile' /\ CdmOf(l)'
      BY <2>1, <2>2, <2>6, <3>3 DEF Move, Ends
    <3> QED
      BY <3>1, <3>2, <3>3
  <2>7. ASSUME pc[l] = "rename" PROVE CdmFile' /\ CdmOf(l)'
    <3>1. o \in {<<Renamed(cdm), "saved">>, <<cdm, "remove">>}
      BY <2>1, <2>7 DEF Outcomes
    <3>2. ASSUME o = <<Renamed(cdm), "saved">> PROVE CdmFile' /\ CdmOf(l)'
      BY <2>1, <2>2, <2>7, <3>2 DEF Renamed, Launch, Move, Ends
    <3>3. ASSUME o = <<cdm, "remove">> PROVE CdmFile' /\ CdmOf(l)'
      BY <2>1, <2>2, <2>7, <3>3 DEF Move, Ends
    <3> QED
      BY <3>1, <3>2, <3>3
  <2>8. ASSUME pc[l] = "remove" PROVE CdmFile' /\ CdmOf(l)'
    <3>1. o \in {<<Removed(cdm), "failed">>, <<cdm, "failed">>}
      BY <2>1, <2>8 DEF Outcomes
    <3>2. ASSUME o = <<Removed(cdm), "failed">> PROVE CdmFile' /\ CdmOf(l)'
      BY <2>1, <2>2, <2>8, <3>2 DEF Removed, Launch, Move, Ends
    <3>3. ASSUME o = <<cdm, "failed">> PROVE CdmFile' /\ CdmOf(l)'
      BY <2>1, <2>2, <2>8, <3>3 DEF Launch, Move, Ends
    <3> QED
      BY <3>1, <3>2, <3>3
  <2>9. \A k \in Launchers \ {l} : CdmOf(k)'
    <3>1. \A k \in Launchers \ {l} : pc'[k] = pc[k] /\ engine'[k] = engine[k]
      BY <2>1 DEF Launch, Move
    <3> QED
      BY <2>3, <3>1
  <2> QED
    BY <2>2, <2>4, <2>5, <2>6, <2>7, <2>8, <2>9 DEF CdmInv
<1>16. ASSUME NEW l \in Launchers, EngineWrites(l) PROVE CdmInv'
  BY <1>16 DEF EngineWrites, Fault
<1>17. ASSUME NEW l \in Launchers, Quit(l) PROVE CdmInv'
  BY <1>17 DEF Quit, Released, StartFrame, Move
<1>18. ASSUME NEW l \in Launchers, Killed(l) PROVE CdmInv'
  BY <1>18 DEF Killed, Released, StartFrame
<1>19. ASSUME NEW l \in Launchers, OrphanEnds(l) PROVE CdmInv'
  BY <1>19 DEF OrphanEnds, StartFrame
<1>20. CASE WrittenBack
  BY <1>20 DEF WrittenBack
<1>21. CASE PowerCut
  BY <1>21 DEF PowerCut, AfterPowerCut, File, Fault
<1>22. CASE UNCHANGED vars
  BY <1>22 DEF vars
<1> QED
  BY <1>1, <1>2, <1>3, <1>4, <1>5, <1>6, <1>7, <1>8, <1>9, <1>10, <1>11, <1>12, <1>13, <1>14, <1>15, <1>16, <1>17, <1>18, <1>19, <1>20, <1>21, <1>22 DEF Next, Launcher

-----------------------------------------------------------------------------
(* Theorems.                                                                *)

Typed == PcOK /\ DirsOK /\ MemOK

LEMMA TypedHolds == Spec => []Typed
<1>1. Init => Typed
  BY PcInit, DirsInit, MemInit DEF Typed
<1>2. Typed /\ [Next]_vars => Typed'
  BY PcStep, DirsStep, MemStep DEF Typed
<1> QED
  BY <1>1, <1>2, PTL DEF Spec

LEMMA LockHolds == Spec => []LockInv
<1>1. Init => LockInv
  BY DEF Init, LockInv
<1>2. Typed /\ LockInv /\ [Next]_vars => LockInv'
  BY LockStep DEF Typed
<1> QED
  BY <1>1, <1>2, TypedHolds, PTL DEF Spec

\* A launch is refused only because another launcher is there and past the lock: no
\* kill, no failed start and no engine that outlives its launcher keeps it, with any
\* number of launchers.
THEOREM LockIsFreed == Spec => []LockNeedsLauncher
<1>1. LockInv => LockNeedsLauncher
  BY DEF LockInv, LockNeedsLauncher
<1> QED
  BY <1>1, LockHolds, PTL

\* What a migration leaves in the durable profile is all of the first acceptable legacy
\* profile or nothing of any, for any number of entries and of launchers, with or
\* without the lock.
THEOREM MigratesWhole == Spec => []MigrationIsWhole
<1>1. Init => CopyInv /\ MigrationIsWhole
  BY DEF Init, CopyInv, MigrationIsWhole, NoDir, EmptyDir
<1>2. Typed /\ CopyInv /\ MigrationIsWhole /\ [Next]_vars => CopyInv' /\ MigrationIsWhole'
  BY CopyStep, WholeStep DEF Typed
<1> QED
  BY <1>1, <1>2, TypedHolds, PTL DEF Spec

LEMMA EmptyHolds == ASSUME Guarded PROVE Spec => []EmptyInv
<1>1. Init => EmptyInv
  BY DEF Init, EmptyInv, IsEmpty, NoDir, EmptyDir
<1>2. Typed /\ LockInv /\ EmptyInv /\ [Next]_vars => EmptyInv'
  BY Guarded, EmptyStep DEF Typed
<1> QED
  BY <1>1, <1>2, TypedHolds, LockHolds, PTL DEF Spec

\* Under a lock that can be taken, nothing in a profile is ever lost to a migration,
\* but for what an orphaned engine writes during it or a power cut takes.
THEOREM ProfileIsKept == ASSUME Guarded PROVE Spec => ProfileKept
<1>1. Typed /\ EmptyInv /\ [Next]_vars
        => [\/ profile.has \subseteq profile'.has /\ profile.own \subseteq profile'.own
            \/ faults' \cap {"cut", "orphan"} # {}]_vars
  BY Guarded, KeptStep DEF Typed
<1> QED
  BY <1>1, TypedHolds, EmptyHolds, PTL DEF Spec, ProfileKept

\* Under a lock that can be taken, and while no call fails, no sequence of kills and
\* launches starts an engine in a fresh profile beside an acceptable legacy one.
THEOREM LegacyIsTaken == ASSUME Guarded PROVE Spec => []LegacyNotStranded
<1>1. Init => StrandInv
  BY DEF Init, StrandInv, Calls, NoDir, EmptyDir
<1>2. Typed /\ EmptyInv /\ StrandInv /\ [Next]_vars => StrandInv'
  BY Guarded, StrandStep DEF Typed
<1>3. StrandInv => LegacyNotStranded
  BY DEF StrandInv, LegacyNotStranded
<1> QED
  BY <1>1, <1>2, <1>3, TypedHolds, EmptyHolds, PTL DEF Spec

\* Under a lock that can be taken, an engine that was given the path of a CDM finds a
\* whole one there, over failed, killed and interrupted installs and power cuts.
THEOREM WidevineStays == ASSUME Guarded PROVE Spec => []WidevineIsWhole
<1>1. Init => CdmInv
  BY DEF Init, CdmInv, CdmFile, CdmOf, Calls, File
<1>2. Typed /\ LockInv /\ CdmInv /\ [Next]_vars => CdmInv'
  BY Guarded, CdmStep DEF Typed
<1>3. CdmInv => WidevineIsWhole
  BY DEF CdmInv, CdmOf, WidevineIsWhole
<1> QED
  BY <1>1, <1>2, <1>3, TypedHolds, LockHolds, PTL DEF Spec
=============================================================================
