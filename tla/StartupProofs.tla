--------------------------- MODULE StartupProofs ----------------------------
(***************************************************************************)
(* Proofs about ConfigFile and GetOpt.                                     *)
(*                                                                         *)
(* Whatever the options, the files, the directories and the limit on       *)
(* descriptors are, each line is read in the directory of its file,        *)
(* descriptors and the names of unix sockets are accounted for, and what is *)
(* unlinked at close is what was bound, and is nobody else's by then.      *)
(*                                                                         *)
(* On every command line no argument is lost or used twice, and each is used *)
(* for what it is there for.                                               *)
(***************************************************************************)
EXTENDS ConfigFile, GetOpt, SequenceTheorems, WellFoundedInduction, TLAPS

-----------------------------------------------------------------------------
(* The configuration. *)

(* The invariant. *)

Frame == [rest : Seq(Lines), dir : Dirs, saved : Dirs, unixFailed : BOOLEAN]

ConfigTypes ==
  /\ frames \in Seq(Frame)
  /\ cwd \in Dirs
  /\ fds \in Nat /\ stray \in Nat

\* The directory that a file's end goes back to is the one that the including
\* file is read in, unless that one had lost its way before the include.
WaysBack ==
  \A n \in 2 .. Len(frames) :
    ~frames[n - 1].unixFailed => frames[n].saved = frames[n - 1].dir

InPlace == frames # <<>> /\ ~Top.unixFailed => cwd = Top.dir

\* A sequence of listeners.
IsEnt(e)   == e = [path |-> e.path, data |-> e.data, relative |-> e.relative, name |-> e.name]
IsEnts(es) == es \in Seq(ToSet(es)) /\ \A n \in DOMAIN es : IsEnt(es[n])

\* Listener m of es is a unix socket behind n of the same name.
Behind(es, m, n) ==
  m \in DOMAIN es /\ m > n /\ es[m].name # "none" /\ es[m].path = es[n].path

\* ListenersHaveNames and UnlinksWhatItBound of any sequence, and that there is
\* nothing to unlink for a listener without a name.
NamesOK(es, reading) ==
  \A n \in DOMAIN es :
    es[n].name # "none" =>
      /\ es[n].name # "gone"
      /\ es[n].name = "held" => \A m : ~Behind(es, m, n)
      /\ es[n].name = "taken" /\ reading => \E m : Behind(es, m, n)
DataOK(es) ==
  \A n \in DOMAIN es :
    IF es[n].name = "none" THEN es[n].data = Missing
                           ELSE ~es[n].relative => es[n].data = es[n].path
EntsOK(es, reading) == IsEnts(es) /\ NamesOK(es, reading) /\ DataOK(es)

CInv ==
  /\ ConfigTypes /\ WaysBack /\ InPlace
  /\ DescriptorsAccounted /\ EntsOK(ents, frames # <<>>)

-----------------------------------------------------------------------------
(* Sequences and frames. *)

\* A sequence is one of its own elements.
LEMMA SeqOfItsOwn ==
  ASSUME NEW S, NEW s \in Seq(S)
  PROVE  s \in Seq(ToSet(s))
<1>1. PICK n \in Nat : s \in [1 .. n -> S]
  BY SeqDef
<1>2. s \in [1 .. n -> ToSet(s)]
  BY <1>1 DEF ToSet
<1> QED
  BY <1>1, <1>2, SeqDef

\* The innermost frame is one of the frames.
LEMMA TopFrame ==
  ASSUME ConfigTypes, frames # <<>>
  PROVE  /\ Len(frames) \in Nat \ {0}
         /\ Top \in Frame
         /\ Top = frames[Len(frames)]
<1>1. Len(frames) \in Nat \ {0}
  BY EmptySeq, LenProperties DEF ConfigTypes
<1> QED
  BY <1>1, ElementOfSeq DEF ConfigTypes, Top, Last

\* There is a line where there is something left to read.
LEMMA LineRead ==
  ASSUME ConfigTypes, frames # <<>>, Top.rest # <<>>
  PROVE  Line \in Lines /\ Tail(Top.rest) \in Seq(Lines)
<1>1. Top.rest \in Seq(Lines)
  BY TopFrame DEF Frame
<1> QED
  BY <1>1, HeadTailProperties DEF Line

\* Going on to the next line changes nothing about the frames but what is left.
LEMMA OnwardFrames ==
  ASSUME ConfigTypes, frames # <<>>, Top.rest # <<>>
  PROVE  /\ Onward \in Seq(Frame)
         /\ Len(Onward) = Len(frames)
         /\ \A n \in 1 .. Len(frames) :
              /\ Onward[n].dir = frames[n].dir
              /\ Onward[n].saved = frames[n].saved
              /\ Onward[n].unixFailed = frames[n].unixFailed
<1>1. PICK k \in Nat : k = Len(frames)
  BY TopFrame
<1>2. k # 0 /\ frames \in [1 .. k -> Frame] /\ Top = frames[k]
  BY <1>1, TopFrame, LenProperties DEF ConfigTypes
<1>3. PICK f : f = [Top EXCEPT !.rest = Tail(Top.rest)]
  OBVIOUS
<1>4. /\ f \in Frame
      /\ f.dir = Top.dir /\ f.saved = Top.saved /\ f.unixFailed = Top.unixFailed
  BY <1>3, TopFrame, LineRead DEF Frame
<1>5. Onward = [frames EXCEPT ![k] = f]
  BY <1>1, <1>2, <1>3 DEF Onward
<1>6. Onward \in [1 .. k -> Frame]
  BY <1>2, <1>4, <1>5
<1>7. Onward \in Seq(Frame) /\ Len(Onward) = k
  BY <1>6
<1>8. \A n \in 1 .. k : Onward[n] = IF n = k THEN f ELSE frames[n]
  BY <1>2, <1>5
<1> QED
  BY <1>1, <1>2, <1>4, <1>7, <1>8

\* A line that leaves the working directory alone leaves the frames in place.
LEMMA OnwardInPlace ==
  ASSUME CInv, frames # <<>>, Top.rest # <<>>, frames' = Onward, cwd' = cwd
  PROVE  /\ frames' \in Seq(Frame) /\ frames' # <<>>
         /\ Len(frames') = Len(frames)
         /\ cwd' \in Dirs
         /\ WaysBack' /\ InPlace'
<1> USE DEF CInv
<1>1. PICK k \in Nat \ {0} : k = Len(frames)
  BY TopFrame
<1>2. frames' \in Seq(Frame) /\ Len(frames') = k
  BY <1>1, OnwardFrames
<1>3. \A n \in 1 .. k :
        /\ frames'[n].dir = frames[n].dir
        /\ frames'[n].saved = frames[n].saved
        /\ frames'[n].unixFailed = frames[n].unixFailed
  BY <1>1, OnwardFrames
<1>4. WaysBack'
  <2>1. ASSUME NEW n \in 2 .. k, ~frames'[n - 1].unixFailed
        PROVE  frames'[n].saved = frames'[n - 1].dir
    <3>1. n \in 1 .. k /\ n - 1 \in 1 .. k
      OBVIOUS
    <3> QED
      BY <1>1, <1>3, <2>1, <3>1 DEF WaysBack
  <2> QED
    BY <1>2, <2>1 DEF WaysBack
<1>5. InPlace'
  <2>1. Top' = frames'[k] /\ Top = frames[k]
    BY <1>1, <1>2 DEF Top, Last
  <2> QED
    BY <1>1, <1>3, <2>1 DEF InPlace
<1>6. frames' # <<>>
  BY <1>1, <1>2, EmptySeq
<1> QED
  BY <1>1, <1>2, <1>4, <1>5, <1>6 DEF ConfigTypes

\* A line that is only passed over changes nothing else that is claimed.
LEMMA Passed ==
  ASSUME CInv, frames # <<>>, Top.rest # <<>>, frames' = Onward, cwd' = cwd,
         UNCHANGED <<fds, ents, stray>>
  PROVE  CInv'
<1>1. /\ frames' \in Seq(Frame) /\ frames' # <<>> /\ Len(frames') = Len(frames)
      /\ cwd' \in Dirs /\ WaysBack' /\ InPlace'
  BY OnwardInPlace
<1>2. ConfigTypes'
  BY <1>1 DEF CInv, ConfigTypes
<1>3. DescriptorsAccounted'
  BY <1>1 DEF CInv, DescriptorsAccounted
<1>4. EntsOK(ents, frames # <<>>)'
  BY <1>1 DEF CInv
<1> QED
  BY <1>1, <1>2, <1>3, <1>4 DEF CInv

-----------------------------------------------------------------------------
(* The listeners. *)

\* A sequence of listeners has places from 1 to its length.
LEMMA EntsDomain ==
  ASSUME NEW es, IsEnts(es)
  PROVE  Len(es) \in Nat /\ DOMAIN es = 1 .. Len(es)
BY LenProperties DEF IsEnts

\* Unlinking a path changes what became of a name, and nothing else.
LEMMA Unlinked ==
  ASSUME NEW es, IsEnts(es), NEW path, NEW name, NEW u, u = Unlink(es, path, name)
  PROVE  /\ IsEnts(u) /\ Len(u) = Len(es) /\ DOMAIN u = DOMAIN es
         /\ \A n \in DOMAIN es :
              /\ u[n].path = es[n].path /\ u[n].data = es[n].data /\ u[n].relative = es[n].relative
              /\ u[n].name = IF es[n].name = "held" /\ es[n].path = path THEN name ELSE es[n].name
<1>1. PICK k \in Nat : k = Len(es) /\ DOMAIN es = 1 .. k
  BY EntsDomain
<1>2. u = [n \in 1 .. k |-> IF es[n].name = "held" /\ es[n].path = path
                           THEN [es[n] EXCEPT !.name = name] ELSE es[n]]
  BY <1>1 DEF Unlink
<1>3. DOMAIN u = 1 .. k
  BY <1>2
<1>4. u \in [1 .. k -> ToSet(u)]
  BY <1>2, <1>3 DEF ToSet
<1>5. u \in Seq(ToSet(u)) /\ Len(u) = k
  BY <1>4
<1>6. ASSUME NEW n \in 1 .. k
      PROVE  /\ IsEnt(u[n])
             /\ u[n].path = es[n].path /\ u[n].data = es[n].data /\ u[n].relative = es[n].relative
             /\ u[n].name = IF es[n].name = "held" /\ es[n].path = path THEN name ELSE es[n].name
  <2>1. PICK e : e = es[n]
    OBVIOUS
  <2>2. e = [path |-> e.path, data |-> e.data, relative |-> e.relative, name |-> e.name]
    BY <1>1, <2>1 DEF IsEnts, IsEnt
  <2>3. CASE e.name = "held" /\ e.path = path
    <3>1. u[n] = [e EXCEPT !.name = name]
      BY <1>2, <2>1, <2>3
    <3>2. u[n] = [path |-> e.path, data |-> e.data, relative |-> e.relative, name |-> name]
      BY <2>2, <3>1
    <3>3. /\ u[n].path = e.path /\ u[n].data = e.data /\ u[n].relative = e.relative
          /\ u[n].name = name
      BY <3>2
    <3> QED
      BY <2>1, <2>3, <3>2, <3>3 DEF IsEnt
  <2>4. CASE ~(e.name = "held" /\ e.path = path)
    <3>1. u[n] = e
      BY <1>2, <2>1, <2>4
    <3> QED
      BY <2>1, <2>2, <2>4, <3>1 DEF IsEnt
  <2> QED
    BY <2>3, <2>4
<1> QED
  BY <1>1, <1>3, <1>5, <1>6 DEF IsEnts

\* A name may be lost to a line that fails, or to the close of a relative listener.
LEMMA NameLost ==
  ASSUME NEW es, NEW reading \in BOOLEAN, EntsOK(es, reading), NEW path,
         NEW name \in {"lost", "misled"}
  PROVE  /\ EntsOK(Unlink(es, path, name), reading)
         /\ Len(Unlink(es, path, name)) = Len(es)
<1>1. PICK u : u = Unlink(es, path, name)
  OBVIOUS
<1>2. /\ IsEnts(u) /\ Len(u) = Len(es) /\ DOMAIN u = DOMAIN es
      /\ \A n \in DOMAIN es :
           /\ u[n].path = es[n].path /\ u[n].data = es[n].data /\ u[n].relative = es[n].relative
           /\ u[n].name = IF es[n].name = "held" /\ es[n].path = path THEN name ELSE es[n].name
  BY <1>1, Unlinked DEF EntsOK
<1>3. \A n \in DOMAIN es : u[n].name = "none" <=> es[n].name = "none"
  BY <1>2
<1>4. \A m, n : n \in DOMAIN es => (Behind(u, m, n) <=> Behind(es, m, n))
  BY <1>2, <1>3 DEF Behind
<1>5. NamesOK(u, reading)
  BY <1>2, <1>3, <1>4 DEF NamesOK, EntsOK
<1>6. DataOK(u)
  BY <1>2, <1>3 DEF DataOK, EntsOK
<1> QED
  BY <1>1, <1>2, <1>5, <1>6 DEF EntsOK

\* A listener that is bound takes its name from the one that has it.
LEMMA NameTaken ==
  ASSUME NEW es, EntsOK(es, TRUE), NEW e, IsEnt(e), e.name = "held",
         ~e.relative => e.data = e.path, NEW nx, nx = Append(Unlink(es, e.path, "taken"), e)
  PROVE  EntsOK(nx, TRUE) /\ Len(nx) = Len(es) + 1
<1>1. PICK k \in Nat : k = Len(es) /\ DOMAIN es = 1 .. k
  BY EntsDomain DEF EntsOK
<1>2. PICK u : u = Unlink(es, e.path, "taken")
  OBVIOUS
<1>3. /\ IsEnts(u) /\ Len(u) = k /\ DOMAIN u = 1 .. k
      /\ \A n \in 1 .. k :
           /\ u[n].path = es[n].path /\ u[n].data = es[n].data /\ u[n].relative = es[n].relative
           /\ u[n].name = IF es[n].name = "held" /\ es[n].path = e.path THEN "taken" ELSE es[n].name
  BY <1>1, <1>2, Unlinked DEF EntsOK
<1>4. /\ nx \in Seq(ToSet(nx)) /\ Len(nx) = k + 1 /\ DOMAIN nx = 1 .. k + 1
      /\ \A n \in 1 .. k : nx[n] = u[n]
      /\ nx[k + 1] = e
  <2>1. PICK S : S = ToSet(u) \cup {e}
    OBVIOUS
  <2>2. u \in [1 .. k -> S]
    BY <1>3, <2>1, LenProperties DEF IsEnts, ToSet
  <2>3. u \in Seq(S) /\ e \in S
    BY <2>1, <2>2, SeqDef
  <2>4. /\ nx \in Seq(S) /\ Len(nx) = k + 1
        /\ \A n \in 1 .. k : nx[n] = u[n]
        /\ nx[k + 1] = e
    BY <1>2, <1>3, <2>3, AppendProperties
  <2>5. DOMAIN nx = 1 .. k + 1
    BY <2>4, LenProperties
  <2> QED
    BY <2>4, <2>5, SeqOfItsOwn
<1>5. \A n \in 1 .. k + 1 : n \in 1 .. k \/ n = k + 1
  BY <1>1
<1>6. IsEnts(nx)
  BY <1>3, <1>4, <1>5 DEF IsEnts
<1>7. \A n \in 1 .. k :
        /\ n \in 1 .. k + 1 /\ n < k + 1
        /\ nx[n].path = es[n].path
        /\ nx[n].name = "none" <=> es[n].name = "none"
  BY <1>1, <1>3, <1>4
<1>8. ASSUME NEW n \in 1 .. k, NEW m
      PROVE  Behind(nx, m, n) <=> Behind(es, m, n) \/ (m = k + 1 /\ e.path = es[n].path)
  <2>0. DOMAIN nx = 1 .. k + 1 /\ DOMAIN es = 1 .. k
    BY <1>1, <1>4, Zenon
  <2>1. nx[n].path = es[n].path /\ n < k + 1 /\ DOMAIN nx = 1 .. k + 1 /\ DOMAIN es = 1 .. k
    BY <1>7, <2>0, Zenon
  <2>2. CASE m \in 1 .. k
    <3>0. m # k + 1
      BY <1>1, <2>2
    <3>1. /\ nx[m].path = es[m].path /\ m \in 1 .. k + 1 /\ m # k + 1
          /\ nx[m].name = "none" <=> es[m].name = "none"
      BY <1>7, <2>2, <3>0, Zenon
    <3> QED
      BY <2>1, <2>2, <3>1 DEF Behind
  <2>3. CASE m = k + 1
    <3>1. nx[m] = e /\ m \in 1 .. k + 1 /\ m \notin 1 .. k /\ m > n
      BY <1>1, <1>4, <2>1, <2>3
    <3> QED
      BY <2>1, <2>3, <3>1 DEF Behind
  <2>4. CASE m \notin 1 .. k + 1
    <3>1. m \notin 1 .. k /\ m # k + 1
      BY <1>1, <2>4
    <3> QED
      BY <2>1, <2>4, <3>1 DEF Behind
  <2> QED
    BY <1>5, <2>2, <2>3, <2>4
<1>9. NamesOK(nx, TRUE)
  <2>1. ASSUME NEW n \in 1 .. k, nx[n].name # "none"
        PROVE  /\ nx[n].name # "gone"
               /\ nx[n].name = "held" => \A m : ~Behind(nx, m, n)
               /\ nx[n].name = "taken" => \E m : Behind(nx, m, n)
    <3>1. /\ es[n].name # "none" /\ es[n].name # "gone"
          /\ es[n].name = "held" => \A m : ~Behind(es, m, n)
          /\ es[n].name = "taken" => \E m : Behind(es, m, n)
      BY <1>1, <1>7, <2>1 DEF EntsOK, NamesOK
    <3>2. nx[n].name = IF es[n].name = "held" /\ es[n].path = e.path THEN "taken" ELSE es[n].name
      BY <1>3, <1>4
    <3> QED
      BY <1>8, <3>1, <3>2
  <2>2. \A m : ~Behind(nx, m, k + 1)
    BY <1>1, <1>4 DEF Behind
  <2> QED
    BY <1>4, <1>5, <2>1, <2>2 DEF NamesOK
<1>10. DataOK(nx)
  <2>1. ASSUME NEW n \in 1 .. k
        PROVE  IF nx[n].name = "none" THEN nx[n].data = Missing
                                      ELSE ~nx[n].relative => nx[n].data = nx[n].path
    BY <1>1, <1>3, <1>4, <1>7 DEF EntsOK, DataOK
  <2> QED
    BY <1>4, <1>5, <2>1 DEF DataOK
<1> QED
  BY <1>1, <1>4, <1>6, <1>9, <1>10 DEF EntsOK

\* Listeners without a name change nothing for the others.
LEMMA NamelessAdded ==
  ASSUME NEW es, NEW reading \in BOOLEAN, EntsOK(es, reading), NEW bound \in Nat, NEW nx, nx = es \o TcpEnts(bound)
  PROVE  EntsOK(nx, reading) /\ Len(nx) = Len(es) + bound
<1>1. PICK k \in Nat : k = Len(es) /\ DOMAIN es = 1 .. k
  BY EntsDomain DEF EntsOK
<1>2. PICK e : e = [path |-> <<"tcp">>, data |-> Missing, relative |-> FALSE, name |-> "none"]
  OBVIOUS
<1>3. e.name = "none" /\ e.data = Missing /\ IsEnt(e)
  BY <1>2 DEF IsEnt
<1>4. PICK t : t = TcpEnts(bound)
  OBVIOUS
<1>5. t = [m \in 1 .. bound |-> e]
  BY <1>2, <1>4 DEF TcpEnts
<1>6. PICK S : S = ToSet(es) \cup {e}
  OBVIOUS
<1>7. es \in Seq(S) /\ t \in Seq(S) /\ Len(t) = bound
  <2>1. es \in [1 .. k -> S]
    BY <1>1, <1>6, LenProperties DEF EntsOK, IsEnts, ToSet
  <2>2. t \in [1 .. bound -> S]
    BY <1>5, <1>6
  <2>3. es \in Seq(S)
    BY <1>1, <2>1, SeqDef
  <2>4. t \in Seq(S) /\ Len(t) = bound
    BY <2>2
  <2> QED
    BY <2>3, <2>4
<1>8. /\ nx \in Seq(S) /\ Len(nx) = k + bound
      /\ \A n \in 1 .. k + bound : nx[n] = IF n <= k THEN es[n] ELSE t[n - k]
  <2>1. Len(es) + Len(t) = k + bound /\ nx = es \o t
    BY <1>1, <1>4, <1>7
  <2> QED
    BY <1>1, <1>7, <2>1, ConcatProperties
<1>9. DOMAIN nx = 1 .. k + bound /\ nx \in Seq(ToSet(nx))
  BY <1>8, LenProperties, SeqOfItsOwn
<1>10. \A n \in 1 .. k : nx[n] = es[n] /\ n \in 1 .. k + bound
  BY <1>8
<1>11. ASSUME NEW n \in 1 .. k + bound, n \notin 1 .. k
       PROVE  nx[n] = e
  <2>1. n - k \in 1 .. bound /\ ~(n <= k)
    BY <1>11
  <2> QED
    BY <1>5, <1>8, <2>1
<1>12. IsEnts(nx)
  BY <1>1, <1>3, <1>9, <1>10, <1>11 DEF EntsOK, IsEnts
<1>13. \A n \in 1 .. k : \A m : Behind(nx, m, n) <=> Behind(es, m, n)
  BY <1>1, <1>3, <1>9, <1>10, <1>11 DEF Behind
<1>14. NamesOK(nx, reading)
  BY <1>1, <1>3, <1>9, <1>10, <1>11, <1>13 DEF EntsOK, NamesOK
<1>15. DataOK(nx)
  BY <1>1, <1>3, <1>9, <1>10, <1>11 DEF EntsOK, DataOK
<1> QED
  BY <1>1, <1>8, <1>12, <1>14, <1>15 DEF EntsOK

\* The last listener is closed: what it unlinks is its own name, or nobody's that
\* is left, unless it came from a relative path.
LEMMA LastClosed ==
  ASSUME NEW es, EntsOK(es, FALSE), es # <<>>, NEW nx, nx = ListenClose(Front(es), Last(es))
  PROVE  EntsOK(nx, FALSE) /\ Len(nx) = Len(es) - 1 /\ Len(es) \in Nat \ {0}
<1>1. PICK k \in Nat : k = Len(es) /\ DOMAIN es = 1 .. k
  BY EntsDomain DEF EntsOK
<1>2. k # 0 /\ k - 1 \in Nat /\ k \in 1 .. k
  BY <1>1, EmptySeq DEF EntsOK, IsEnts
<1>3. PICK rest : rest = Front(es)
  OBVIOUS
<1>4. rest = SubSeq(es, 1, k - 1)
  BY <1>1, <1>3 DEF Front
<1>5. /\ rest \in Seq(ToSet(es)) /\ Len(rest) = k - 1
      /\ \A n \in 1 .. k - 1 : rest[n] = es[n]
  <2>1. es \in Seq(ToSet(es)) /\ \A n \in 1 .. k : es[n] \in ToSet(es)
    BY <1>1 DEF EntsOK, IsEnts, ToSet
  <2> QED
    BY <1>1, <1>2, <1>4, <2>1, SubSeqProperties
<1>6. DOMAIN rest = 1 .. k - 1 /\ rest \in Seq(ToSet(rest))
  BY <1>5, LenProperties, SeqOfItsOwn
<1>7. \A n \in 1 .. k - 1 : n \in 1 .. k /\ n < k
  BY <1>2
<1>8. EntsOK(rest, FALSE)
  <2>1. IsEnts(rest)
    BY <1>1, <1>5, <1>6, <1>7 DEF EntsOK, IsEnts
  <2>2. \A n \in 1 .. k - 1 : \A m : Behind(rest, m, n) => Behind(es, m, n)
    BY <1>1, <1>5, <1>6, <1>7 DEF Behind
  <2>3. NamesOK(rest, FALSE)
    BY <1>1, <1>5, <1>6, <1>7, <2>2 DEF EntsOK, NamesOK
  <2>4. DataOK(rest)
    BY <1>1, <1>5, <1>6, <1>7 DEF EntsOK, DataOK
  <2> QED
    BY <2>1, <2>3, <2>4 DEF EntsOK
<1>9. PICK closed : closed = es[k]
  OBVIOUS
<1>10. nx = ListenClose(rest, closed)
  BY <1>1, <1>3, <1>9 DEF Last
<1>11. CASE closed.data = Missing
  BY <1>1, <1>2, <1>5, <1>8, <1>10, <1>11 DEF ListenClose
<1>12. CASE closed.data # Missing /\ closed.relative
  <2>1. nx = Unlink(rest, closed.data, "misled")
    BY <1>10, <1>12 DEF ListenClose
  <2>2. FALSE \in BOOLEAN /\ "misled" \in {"lost", "misled"}
    OBVIOUS
  <2>3. EntsOK(nx, FALSE) /\ Len(nx) = Len(rest)
    <3>1. EntsOK(Unlink(rest, closed.data, "misled"), FALSE)
      BY <1>8, <2>2, NameLost, ZenonT(40)
    <3>2. Len(Unlink(rest, closed.data, "misled")) = Len(rest)
      BY <1>8, <2>2, NameLost, ZenonT(40)
    <3> QED
      BY <2>1, <3>1, <3>2, Zenon
  <2>4. Len(nx) = Len(es) - 1 /\ Len(es) \in Nat \ {0}
    BY <1>1, <1>2, <1>5, <2>3
  <2> QED
    BY <2>3, <2>4
<1>13. CASE closed.data # Missing /\ ~closed.relative
  <2>1. closed.name # "none" /\ closed.data = closed.path
    BY <1>1, <1>2, <1>9, <1>13 DEF EntsOK, DataOK
  <2>2. ASSUME NEW n \in 1 .. k - 1
        PROVE  ~(rest[n].name = "held" /\ rest[n].path = closed.data)
    <3> SUFFICES ASSUME rest[n].name = "held", rest[n].path = closed.data PROVE FALSE
      OBVIOUS
    <3>1. n \in 1 .. k /\ k > n /\ es[n].name = "held" /\ es[n].path = closed.path
      BY <1>2, <1>5, <1>7, <2>1
    <3>2. Behind(es, k, n)
      BY <1>1, <1>2, <1>9, <2>1, <3>1 DEF Behind
    <3> QED
      BY <1>1, <3>1, <3>2 DEF EntsOK, NamesOK
  <2>3. nx = Unlink(rest, closed.data, "gone")
    BY <1>10, <1>13 DEF ListenClose
  <2>4. nx = rest
    <3>1. nx = [n \in 1 .. k - 1 |-> rest[n]]
      BY <1>6, <2>2, <2>3 DEF Unlink
    <3>2. rest = [n \in 1 .. k - 1 |-> rest[n]]
      BY <1>5, <1>6, LenProperties
    <3> QED
      BY <3>1, <3>2
  <2>5. EntsOK(nx, FALSE)
    BY <1>8, <2>4
  <2>6. Len(nx) = k - 1
    BY <1>5, <2>4
  <2>7. Len(nx) = Len(es) - 1 /\ Len(es) \in Nat \ {0}
    BY <1>1, <1>2, <2>6
  <2> QED
    BY <2>5, <2>7
<1> QED
  BY <1>11, <1>12, <1>13

-----------------------------------------------------------------------------
(* Resolving paths. *)

\* A path that is not relative to the working directory by a directory in it is
\* the same one from its own directory.
LEMMA ResolvedAgain ==
  ASSUME ~Relative
  PROVE  RealPath(Here[1]) = Here
<1>1. CASE Line.path[1] = "."
  <2>0. \A from : <<from, Line.path[1]>> \notin DOMAIN Below
    BY <1>1, ConfigFileAssumption
  <2>1. \A from : Resolve(from, Line.path) = <<from, Line.path[2]>>
    BY <1>1, <2>0 DEF Resolve
  <2>2. Resolve(Here[1], Line.path) = Here
    BY <2>1 DEF Here
  <2> QED
    BY <2>2 DEF RealPath
<1>2. CASE Line.path[1] # "."
  <2>1. Line.path[1] \in Dirs
    BY <1>2 DEF Relative
  <2>2. \A from : <<from, Line.path[1]>> \notin DOMAIN Below
    BY <2>1, ConfigFileAssumption
  <2>3. \A from : Resolve(from, Line.path) = Line.path
    BY <1>2, <2>2 DEF Resolve
  <2> QED
    BY <2>3 DEF Here, RealPath
<1> QED
  BY <1>1, <1>2

-----------------------------------------------------------------------------
(* The steps. *)

\* What main starts with satisfies the invariant.
LEMMA ConfigInit ==
  ASSUME Init
  PROVE  CInv
<1> USE DEF Init
<1>1. PICK f : f = [rest |-> Options, dir |-> Start, saved |-> Start, unixFailed |-> FALSE]
  OBVIOUS
<1>2. f \in Frame
  BY <1>1, ConfigFileAssumption DEF Frame
<1>3. frames = <<f>> /\ Len(frames) = 1 /\ frames[1] = f /\ frames \in Seq(Frame)
  BY <1>1, <1>2
<1>4. ents = <<>> /\ ents \in Seq(ToSet(ents)) /\ Len(ents) = 0 /\ DOMAIN ents = {}
  OBVIOUS
<1>5. ConfigTypes
  BY <1>3, ConfigFileAssumption DEF ConfigTypes
<1>6. WaysBack
  BY <1>3 DEF WaysBack
<1>7. InPlace
  BY <1>1, <1>3 DEF InPlace, Top, Last
<1>8. DescriptorsAccounted
  BY <1>3, <1>4 DEF DescriptorsAccounted
<1>9. EntsOK(ents, frames # <<>>)
  BY <1>4 DEF EntsOK, IsEnts, NamesOK, DataOK
<1> QED
  BY <1>5, <1>6, <1>7, <1>8, <1>9 DEF CInv

\* The descriptor that a missing file leaves behind is counted as lost.
LEMMA MissingStep ==
  ASSUME CInv, IncludeMissing
  PROVE  CInv'
<1> USE DEF IncludeMissing, At, Reading
<1>1. /\ frames' \in Seq(Frame) /\ frames' # <<>> /\ Len(frames') = Len(frames)
      /\ cwd' \in Dirs /\ WaysBack' /\ InPlace'
  BY OnwardInPlace
<1>2. ConfigTypes'
  BY <1>1 DEF CInv, ConfigTypes
<1>3. DescriptorsAccounted'
  <2>1. Len(ents) \in Nat /\ Len(frames) \in Nat
    BY LenProperties, EntsDomain DEF CInv, ConfigTypes, EntsOK
  <2> QED
    BY <1>1, <2>1, SMTT(30) DEF CInv, ConfigTypes, DescriptorsAccounted
<1>4. EntsOK(ents, frames # <<>>)'
  BY <1>1 DEF CInv
<1> QED
  BY <1>1, <1>2, <1>3, <1>4 DEF CInv

\* A file that is read has the working directory, and keeps the descriptor that
\* leads back to the directory of the file that includes it.
LEMMA FileStep ==
  ASSUME CInv, IncludeFile
  PROVE  CInv'
<1> USE DEF IncludeFile, At, Reading
<1>1. PICK k \in Nat \ {0} : k = Len(frames)
  BY TopFrame DEF CInv
<1>2. /\ Onward \in Seq(Frame) /\ Len(Onward) = k
      /\ \A n \in 1 .. k :
           /\ Onward[n].dir = frames[n].dir
           /\ Onward[n].saved = frames[n].saved
           /\ Onward[n].unixFailed = frames[n].unixFailed
  BY <1>1, OnwardFrames DEF CInv
<1>3. PICK f : f = [rest |-> IF fds + 1 < FdLimit THEN Files[Here] ELSE <<>>,
                    dir |-> Here[1], saved |-> cwd, unixFailed |-> FALSE]
  OBVIOUS
<1>4. f \in Frame
  <2>1. Here[1] \in Dirs /\ Files[Here] \in Seq(Lines)
    BY ConfigFileAssumption
  <2>2. <<>> \in Seq(Lines)
    OBVIOUS
  <2> QED
    BY <1>3, <2>1, <2>2 DEF Frame, CInv, ConfigTypes
<1>5. frames' = Append(Onward, f) /\ cwd' = f.dir /\ f.saved = cwd /\ ~f.unixFailed
  BY <1>3
<1>6. /\ frames' \in Seq(Frame) /\ Len(frames') = k + 1 /\ frames' # <<>>
      /\ frames'[k + 1] = f
      /\ \A n \in 1 .. k : frames'[n] = Onward[n]
  BY <1>2, <1>4, <1>5, AppendProperties
<1>7. ConfigTypes'
  <2>1. fds' \in Nat /\ cwd' \in Dirs
    BY <1>4, <1>5 DEF CInv, ConfigTypes, Frame
  <2> QED
    BY <1>6, <2>1 DEF CInv, ConfigTypes
<1>8. WaysBack'
  <2>1. ASSUME NEW n \in 2 .. k + 1, ~frames'[n - 1].unixFailed
        PROVE  frames'[n].saved = frames'[n - 1].dir
    <3>0. n - 1 \in 1 .. k
      OBVIOUS
    <3>1. CASE n = k + 1
      <4>1. Top = frames[k] /\ frames'[n - 1].dir = Top.dir /\ ~Top.unixFailed
        BY <1>1, <1>2, <1>6, <2>1, <3>1 DEF Top, Last
      <4>2. cwd = Top.dir
        BY <4>1 DEF CInv, InPlace
      <4> QED
        BY <1>5, <1>6, <3>1, <4>1, <4>2
    <3>2. CASE n # k + 1
      <4>1. n \in 2 .. k /\ n \in 1 .. k
        BY <3>2
      <4> QED
        BY <1>1, <1>2, <1>6, <2>1, <3>0, <4>1 DEF CInv, WaysBack
    <3> QED
      BY <3>1, <3>2
  <2> QED
    BY <1>6, <2>1 DEF WaysBack
<1>9. InPlace'
  BY <1>5, <1>6 DEF InPlace, Top, Last
<1>10. DescriptorsAccounted'
  <2>1. Len(ents) \in Nat
    BY EntsDomain DEF CInv, EntsOK
  <2>2. /\ fds = Len(ents) + (k - 1) + stray /\ fds' = fds + 1
        /\ ents' = ents /\ stray' = stray /\ stray \in Nat
    BY <1>1 DEF CInv, ConfigTypes, DescriptorsAccounted
  <2>3. fds' = Len(ents) + k + stray
    BY <1>1, <2>1, <2>2
  <2>4. Len(frames') - 1 = k /\ Len(ents') = Len(ents) /\ stray' = stray
    BY <1>1, <1>6, <2>2
  <2>5. fds' = Len(ents') + (Len(frames') - 1) + stray'
    BY <2>3, <2>4
  <2> QED
    BY <1>6, <2>5 DEF DescriptorsAccounted
<1>11. EntsOK(ents, frames # <<>>)'
  BY <1>6 DEF CInv
<1> QED
  BY <1>7, <1>8, <1>9, <1>10, <1>11 DEF CInv

\* The end of a file goes back to the directory of the file that includes it,
\* and closes the descriptor that it did that with.
LEMMA EndStep ==
  ASSUME CInv, EndOfFile
  PROVE  CInv'
<1> USE DEF EndOfFile, Reading
<1>1. PICK k \in Nat \ {0} : k = Len(frames)
  BY TopFrame DEF CInv
<1>2. k > 1 /\ k - 1 \in Nat \ {0} /\ k - 1 \in 1 .. k
  BY <1>1
<1>3. frames' = SubSeq(frames, 1, k - 1)
  BY <1>1 DEF Front
<1>4. \A n \in 1 .. k : frames[n] \in Frame
  BY <1>1, ElementOfSeq DEF CInv, ConfigTypes
<1>5. /\ frames' \in Seq(Frame) /\ Len(frames') = k - 1
      /\ \A n \in 1 .. k - 1 : frames'[n] = frames[n]
  BY <1>1, <1>2, <1>3, <1>4, SubSeqProperties DEF CInv, ConfigTypes
<1>6. Top = frames[k] /\ Top \in Frame
  BY <1>1, TopFrame DEF CInv
<1>7. ConfigTypes'
  <2>1. cwd' \in Dirs
    BY <1>6 DEF Frame
  <2>2. fds' \in Nat
    <3>1. Len(ents) \in Nat
      BY EntsDomain DEF CInv, EntsOK
    <3> QED
      BY <1>1, <1>2, <3>1 DEF CInv, ConfigTypes, DescriptorsAccounted
  <2> QED
    BY <1>5, <2>1, <2>2 DEF CInv, ConfigTypes
<1>8. WaysBack'
  <2>1. ASSUME NEW n \in 2 .. k - 1, ~frames'[n - 1].unixFailed
        PROVE  frames'[n].saved = frames'[n - 1].dir
    <3>1. n \in 2 .. k /\ n \in 1 .. k - 1 /\ n - 1 \in 1 .. k - 1
      BY <1>2
    <3> QED
      BY <1>1, <1>5, <2>1, <3>1 DEF CInv, WaysBack
  <2> QED
    BY <1>5, <2>1 DEF WaysBack
<1>9. InPlace'
  <2>1. Top' = frames[k - 1]
    <3>1. k - 1 \in 1 .. k - 1
      BY <1>2
    <3> QED
      BY <1>5, <3>1 DEF Top, Last
  <2>2. k \in 2 .. k
    BY <1>2
  <2> QED
    BY <1>1, <1>6, <2>1, <2>2 DEF CInv, WaysBack, InPlace
<1>10. DescriptorsAccounted'
  <2>1. Len(ents) \in Nat
    BY EntsDomain DEF CInv, EntsOK
  <2> QED
    BY <1>1, <1>2, <1>5, <2>1 DEF CInv, ConfigTypes, DescriptorsAccounted
<1>11. EntsOK(ents, frames # <<>>)'
  <2>1. frames' # <<>> /\ frames # <<>>
    BY <1>2, <1>5, EmptySeq
  <2> QED
    BY <2>1 DEF CInv
<1> QED
  BY <1>7, <1>8, <1>9, <1>10, <1>11 DEF CInv

\* Sockets that are bound to addresses have no names.
LEMMA ListenStep ==
  ASSUME CInv, Listen
  PROVE  CInv'
<1> USE DEF At, Reading
<1>1. frames # <<>> /\ Top.rest # <<>> /\ frames' = Onward /\ cwd' = cwd
  BY DEF Listen
<1>2. /\ frames' \in Seq(Frame) /\ frames' # <<>> /\ Len(frames') = Len(frames)
      /\ cwd' \in Dirs /\ WaysBack' /\ InPlace'
  BY <1>1, OnwardInPlace
<1>3. Line.addrs \in Nat
  BY LineRead, ConfigFileAssumption DEF Listen, CInv
<1>4. PICK bound \in 0 .. Line.addrs : ents' = ents \o TcpEnts(bound) /\ fds' = fds + bound
  BY DEF Listen
<1>5. bound \in Nat
  BY <1>3
<1>6. EntsOK(ents', TRUE) /\ Len(ents') = Len(ents) + bound
  BY <1>1, <1>4, <1>5, NamelessAdded DEF CInv
<1>7. ConfigTypes'
  BY <1>2, <1>4, <1>5 DEF CInv, ConfigTypes, Listen
<1>8. DescriptorsAccounted'
  <2>1. Len(frames) \in Nat /\ Len(ents) \in Nat
    BY TopFrame, EntsDomain, <1>1 DEF CInv, EntsOK
  <2>2. stray' = stray /\ fds = Len(ents) + (Len(frames) - 1) + stray
    BY <1>1 DEF Listen, CInv, DescriptorsAccounted
  <2> QED
    BY <1>2, <1>4, <1>5, <1>6, <2>1, <2>2 DEF CInv, ConfigTypes, DescriptorsAccounted
<1> QED
  BY <1>2, <1>6, <1>7, <1>8 DEF CInv

\* A unix socket has its name, and what is unlinked at its close is that name.
LEMMA UnixStep ==
  ASSUME CInv, UnixBound
  PROVE  CInv'
<1> USE DEF At, Reading
<1>1. frames # <<>> /\ Top.rest # <<>> /\ frames' = Onward /\ cwd' = cwd
  BY DEF UnixBound
<1>2. /\ frames' \in Seq(Frame) /\ frames' # <<>> /\ Len(frames') = Len(frames)
      /\ cwd' \in Dirs /\ WaysBack' /\ InPlace'
  BY <1>1, OnwardInPlace
<1>3. PICK path : path = Here
  OBVIOUS
<1>4. PICK e : e = [path |-> path, data |-> RealPath(path[1]), relative |-> Relative,
                    name |-> "held"]
  OBVIOUS
<1>5. e.path = path /\ e.name = "held" /\ IsEnt(e)
  BY <1>4 DEF IsEnt
<1>6. ents' = Append(Unlink(ents, e.path, "taken"), e)
  BY <1>3, <1>4, <1>5 DEF UnixBound
<1>7. ~e.relative => e.data = e.path
  <2>1. e.relative = Relative /\ e.data = RealPath(path[1])
    BY <1>4
  <2> QED
    BY <1>3, <1>5, <2>1, ResolvedAgain
<1>8. EntsOK(ents', TRUE) /\ Len(ents') = Len(ents) + 1
  BY <1>1, <1>5, <1>6, <1>7, NameTaken DEF CInv
<1>9. ConfigTypes'
  BY <1>2 DEF CInv, ConfigTypes, UnixBound
<1>10. DescriptorsAccounted'
  <2>1. Len(frames) \in Nat /\ Len(ents) \in Nat
    BY TopFrame, EntsDomain, <1>1 DEF CInv, EntsOK
  <2>2. /\ stray' = stray /\ fds' = fds + 1
        /\ fds = Len(ents) + (Len(frames) - 1) + stray
    BY <1>1 DEF UnixBound, CInv, DescriptorsAccounted
  <2> QED
    BY <1>2, <1>8, <2>1, <2>2 DEF CInv, ConfigTypes, DescriptorsAccounted
<1> QED
  BY <1>2, <1>8, <1>9, <1>10 DEF CInv

\* When the bind fails the working directory is the socket's, the descriptor for
\* the way back is lost, and so is the name, if it was one.
LEMMA UnixFailsStep ==
  ASSUME CInv, UnixFails
  PROVE  CInv'
<1> USE DEF At, Reading
<1>1. PICK k \in Nat \ {0} : k = Len(frames)
  BY TopFrame DEF CInv, UnixFails
<1>2. /\ Onward \in Seq(Frame) /\ Len(Onward) = k
      /\ \A n \in 1 .. k :
           /\ Onward[n].dir = frames[n].dir
           /\ Onward[n].saved = frames[n].saved
           /\ Onward[n].unixFailed = frames[n].unixFailed
  BY <1>1, OnwardFrames DEF CInv, UnixFails
<1>3. Onward[k] \in Frame /\ k \in 1 .. k /\ Onward \in [1 .. k -> Frame]
  BY <1>1, <1>2, ElementOfSeq, LenProperties
<1>4. PICK f : f = [Onward[k] EXCEPT !.unixFailed = @ \/ Line.path[1] # "."]
  OBVIOUS
<1>5. /\ f \in Frame /\ f.saved = Onward[k].saved /\ f.dir = Onward[k].dir
      /\ f.unixFailed = (Onward[k].unixFailed \/ Line.path[1] # ".")
  BY <1>3, <1>4 DEF Frame
<1>6. frames' = [Onward EXCEPT ![k] = f]
  BY <1>1, <1>4 DEF UnixFails
<1>7. frames' \in [1 .. k -> Frame]
  BY <1>3, <1>5, <1>6
<1>8. frames' \in Seq(Frame) /\ Len(frames') = k
  BY <1>7
<1>9. \A n \in 1 .. k : frames'[n] = IF n = k THEN f ELSE Onward[n]
  BY <1>3, <1>6
<1>10. ConfigTypes'
  <2>1. cwd' \in Dirs /\ fds' \in Nat /\ stray' \in Nat
    BY DEF CInv, ConfigTypes, UnixFails
  <2> QED
    BY <1>8, <2>1 DEF CInv, ConfigTypes
<1>11. WaysBack'
  <2>1. ASSUME NEW n \in 2 .. k, ~frames'[n - 1].unixFailed
        PROVE  frames'[n].saved = frames'[n - 1].dir
    <3>1. n \in 1 .. k /\ n - 1 \in 1 .. k /\ n - 1 # k
      OBVIOUS
    <3>2. frames'[n - 1] = Onward[n - 1] /\ frames'[n].saved = Onward[n].saved
      BY <1>5, <1>9, <3>1
    <3> QED
      BY <1>1, <1>2, <2>1, <3>1, <3>2 DEF CInv, WaysBack
  <2> QED
    BY <1>8, <2>1 DEF WaysBack
<1>12. InPlace'
  <2>1. Top' = f
    BY <1>3, <1>8, <1>9 DEF Top, Last
  <2>2. CASE Line.path[1] # "."
    BY <1>5, <2>1, <2>2 DEF InPlace
  <2>3. CASE Line.path[1] = "."
    <3>0. \A from : <<from, Line.path[1]>> \notin DOMAIN Below
      BY <2>3, ConfigFileAssumption
    <3>1. Here = <<cwd, Line.path[2]>>
      BY <2>3, <3>0 DEF Here, Resolve
    <3>2. cwd' = cwd
      BY <3>1 DEF UnixFails
    <3>3. f.dir = Top.dir /\ f.unixFailed = Top.unixFailed
      <4>1. Top = frames[k]
        BY <1>1 DEF Top, Last
      <4>2. Onward[k].unixFailed = frames[k].unixFailed /\ frames[k].unixFailed \in BOOLEAN
        BY <1>1, <1>2, <1>3, TopFrame, <4>1 DEF CInv, Frame, UnixFails
      <4> QED
        BY <1>2, <1>3, <1>5, <2>3, <4>1, <4>2
    <3> QED
      BY <2>1, <3>2, <3>3 DEF CInv, InPlace, UnixFails
  <2> QED
    BY <2>2, <2>3
<1>13. EntsOK(ents', TRUE) /\ Len(ents') = Len(ents)
  <2>1. EntsOK(ents, TRUE)
    BY DEF CInv, UnixFails
  <2>2. CASE ents' = ents
    BY <2>1, <2>2
  <2>3. CASE ents' = Unlink(ents, Here, "lost")
    BY <2>1, <2>3, NameLost
  <2> QED
    BY <2>2, <2>3 DEF UnixFails
<1>14. DescriptorsAccounted' /\ frames' # <<>>
  <2>1. Len(ents) \in Nat /\ frames' # <<>>
    BY <1>1, <1>8, EntsDomain, EmptySeq DEF CInv, EntsOK
  <2>2. /\ stray' = stray + 1 /\ fds' = fds + 1
        /\ fds = Len(ents) + (Len(frames) - 1) + stray
    BY DEF UnixFails, CInv, DescriptorsAccounted
  <2> QED
    BY <1>1, <1>8, <1>13, <2>1, <2>2 DEF CInv, ConfigTypes, DescriptorsAccounted
<1> QED
  BY <1>10, <1>11, <1>12, <1>13, <1>14 DEF CInv

\* The end of the options is the end of reading.
LEMMA EndOfOptionsStep ==
  ASSUME CInv, EndOfOptions
  PROVE  CInv'
<1> USE DEF EndOfOptions
<1>1. frames' = <<>> /\ Len(frames') = 0 /\ frames' \in Seq(Frame)
  OBVIOUS
<1>2. ConfigTypes'
  BY <1>1 DEF CInv, ConfigTypes
<1>3. WaysBack' /\ InPlace'
  BY <1>1 DEF WaysBack, InPlace
<1>4. DescriptorsAccounted'
  <2>1. Len(ents) \in Nat /\ Len(frames) = 1 /\ frames # <<>>
    BY EntsDomain DEF CInv, EntsOK, Reading
  <2>2. fds = Len(ents) + (Len(frames) - 1) + stray /\ fds' = fds /\ stray' = stray /\ ents' = ents
    BY <2>1 DEF CInv, DescriptorsAccounted
  <2>3. stray \in Nat
    BY DEF CInv, ConfigTypes
  <2>4. fds' = Len(ents') + stray'
    BY <2>1, <2>2, <2>3
  <2>5. fds' = Len(ents') + 0 + stray'
    BY <2>1, <2>2, <2>3, <2>4
  <2> QED
    BY <1>1, <2>5 DEF DescriptorsAccounted
<1>5. EntsOK(ents, frames # <<>>)'
  BY <1>1 DEF CInv, EntsOK, NamesOK
<1> QED
  BY <1>2, <1>3, <1>4, <1>5 DEF CInv

\* Closing the last listener takes no name from those that are left.
LEMMA CloseStep ==
  ASSUME CInv, CloseListener
  PROVE  CInv'
<1> USE DEF CloseListener
<1>1. frames = <<>> /\ frames' = <<>> /\ Len(frames') = 0
  OBVIOUS
<1>2. EntsOK(ents', FALSE) /\ Len(ents') = Len(ents) - 1 /\ Len(ents) \in Nat \ {0}
  BY LastClosed DEF CInv
<1>3. DescriptorsAccounted' /\ fds' \in Nat
  BY <1>2 DEF CInv, ConfigTypes, DescriptorsAccounted
<1>4. ConfigTypes' /\ WaysBack' /\ InPlace'
  BY <1>1, <1>3 DEF CInv, ConfigTypes, WaysBack, InPlace
<1> QED
  BY <1>1, <1>2, <1>3, <1>4 DEF CInv

\* Every step preserves the invariant.
LEMMA ConfigStep ==
  ASSUME CInv, [Next]_vars
  PROVE  CInv'
<1>1. CASE UNCHANGED vars
  BY <1>1 DEF vars, CInv, ConfigTypes, WaysBack, InPlace, Top, DescriptorsAccounted
<1>2. CASE IncludeNothing \/ UnixRefused \/ Mimetype \/ Setting
  BY <1>2, Passed DEF IncludeNothing, UnixRefused, Mimetype, Setting, At, Reading
<1>3. CASE IncludeMissing \/ IncludeFile \/ EndOfFile \/ Listen
  BY <1>3, MissingStep, FileStep, EndStep, ListenStep
<1>4. CASE UnixBound \/ UnixFails \/ EndOfOptions \/ CloseListener
  BY <1>4, UnixStep, UnixFailsStep, EndOfOptionsStep, CloseStep
<1> QED
  BY <1>1, <1>2, <1>3, <1>4 DEF Next, Read, Done

-----------------------------------------------------------------------------
(* The theorems. *)

\* Whatever main is called with and whatever the files hold, the invariant holds
\* all the while that the configuration is read.
THEOREM ConfigInvariance == Spec => []CInv
<1>1. Init => CInv
  BY ConfigInit
<1>2. CInv /\ [Next]_vars => CInv'
  BY ConfigStep
<1> QED
  BY <1>1, <1>2, PTL DEF Spec

\* midnighttpd_configfile_read: each line is read in the directory of its file,
\* until a unix socket could not be bound for one, and the descriptors that are
\* open are those of sockets, of files being read, and those known to be lost.
THEOREM ReadInPlaceCorrect == Spec => []FilesReadInPlace
<1>1. CInv => FilesReadInPlace
  BY DEF CInv, InPlace, Reading, FilesReadInPlace, LinesInTheirDirectory
<1> QED
  BY <1>1, ConfigInvariance, PTL

\* cfg_bindunix and listen_close_sockunix: however many lines share a name, it is
\* the last one's, or lost to a line that failed; closing the listeners from the
\* last to the first takes no name from one that is still open, and unlinks for
\* each what was bound for it.  Only a relative path may stand for another file.
THEOREM NamesCorrect == Spec => []NamesOfSockets
<1>1. CInv => NamesOfSockets
  <2> SUFFICES ASSUME CInv PROVE NamesOfSockets
    OBVIOUS
  <2>1. NamesOK(ents, frames # <<>>) /\ DataOK(ents)
    BY DEF CInv, EntsOK
  <2>2. ListenersHaveNames
    <3> SUFFICES ASSUME NEW n \in UnixEnts
                 PROVE  LET later == {m \in UnixEnts : m > n /\ ents[m].path = ents[n].path}
                        IN  /\ ents[n].name # "gone"
                            /\ Held(n) => later = {}
                            /\ ents[n].name = "taken" /\ frames # <<>> => later # {}
      BY DEF ListenersHaveNames
    <3>1. n \in DOMAIN ents /\ ents[n].name # "none"
      BY DEF UnixEnts
    <3>2. \A m : Behind(ents, m, n) <=> m \in UnixEnts /\ m > n /\ ents[m].path = ents[n].path
      BY DEF Behind, UnixEnts
    <3> QED
      BY <2>1, <3>1, <3>2 DEF NamesOK, Held
  <2>3. UnlinksWhatItBound
    BY <2>1 DEF UnlinksWhatItBound, UnixEnts, DataOK
  <2> QED
    BY <2>2, <2>3 DEF NamesOfSockets
<1> QED
  BY <1>1, ConfigInvariance, PTL

-----------------------------------------------------------------------------
(* The command line. *)

(* The invariant. *)

\* The first entry that is not dealt with.
Upto == IF pc = "switch" THEN argv ELSE argv + argn

GetoptTypes ==
  /\ args \in Seq(Args \cup {Word}) /\ Len(args) \in 1 .. MaxArgs + 1
  /\ argv \in Nat \ {0} /\ argn \in Nat /\ argc \in Int
  /\ used \in Seq(Nat)

\* The entry before position p is "-" alone.
BehindDash(p) == p - 1 \in 1 .. Len(args) /\ args[p - 1] = "-"

\* What is used is behind us, but for what a "-" had main use.
UsedBehind ==
  \A n \in 1 .. Len(used) :
    used[n] < Upto \/ (used[n] = Upto /\ n = Len(used) /\ BehindDash(Upto))

\* What is behind us is used, or an option.
BehindUsed ==
  \A p \in 2 .. Len(args) :
    p < Upto => (\E n \in 1 .. Len(used) : used[n] = p) \/ IsDash(args[p])

\* main's switch has a word, or an option that is at the entry before its
\* arguments, of which those that are not mandatory are words.
HasWord ==
  opt = "0" /\ argn = 1 /\ argv \in 2 .. Len(args) /\ args[argv] = Word
HasOption ==
  /\ argv - 1 \in 2 .. Len(args) /\ IsDash(args[argv - 1])
  /\ opt = Letter(args[argv - 1])
  /\ argn >= Mandatory(args[argv - 1])
  /\ args[argv - 1] # "-m" => argn = Mandatory(args[argv - 1])
  /\ argv <= Len(args) =>
       \A m \in Mandatory(args[argv - 1]) .. argn - 1 :
         argv + m <= Len(args) /\ args[argv + m] = Word
  /\ \A n \in 1 .. Len(used) : used[n] < argv
Switching == pc = "switch" => HasWord \/ HasOption

GInv ==
  /\ GetoptTypes /\ UsedBehind /\ Switching
  /\ pc = "getopt" => argv + argn >= 2
  /\ pc \in {"getopt", "switch", "run"} => BehindUsed
  /\ ArgumentsUsedOnce

-----------------------------------------------------------------------------
(* The loop that counts the arguments of an option.                          *)

\* The limit is at most what is left of the command line; without optional
\* arguments it is none.
LEMMA Limited ==
  ASSUME NEW a, argc \in Int
  PROVE  /\ Limit(a) \in Int /\ Limit(a) <= argc
         /\ a # "-m" /\ argc > 0 => Limit(a) = 0
         /\ Mandatory(a) \in {0, 1} /\ Mandatory("-m") = 1
BY DEF Limit, Optional, Mandatory, UINT_MAX, OneArgument

\* The loop comes to a stop, and went on before it.
LEMMA CountedStops ==
  ASSUME NEW a, NEW first \in Nat, argc \in Int, argc <= MaxArgs + 1
  PROVE  /\ Counted(a, first) \in Nat
         /\ Counted(a, first) >= Mandatory(a)
         /\ \A m \in Mandatory(a) .. Counted(a, first) - 1 :
              m < Limit(a) /\ ArgAt(first + m) # Null /\ ~IsDash(ArgAt(first + m))
<1> DEFINE Stops(n) == n >= Limit(a) \/ ArgAt(first + n) = Null \/ IsDash(ArgAt(first + n))
           S == {n \in Mandatory(a) .. MaxArgs + 2 : Stops(n)}
<1>1. /\ Limit(a) \in Int /\ Limit(a) <= argc /\ Mandatory(a) \in {0, 1}
      /\ MaxArgs \in Nat
  BY GetOptAssumption, Limited DEF UINT_MAX
<1>2. MaxArgs + 2 \in S
  BY <1>1
<1>3. S \subseteq Nat /\ S # {}
  BY <1>1, <1>2
<1>4. \E n \in S : \A m \in S : ~(m < n)
  <2>1. PICK n \in S : \A m \in S : ~(<<m, n>> \in OpToRel(<, Nat))
    <3> HIDE DEF S
    <3> QED BY <1>3, NatLessThanWellFounded, WFMin
  <2> QED BY <1>3, <2>1 DEF OpToRel
<1>5. PICK n \in S : \A m \in S : ~(m < n)
  BY <1>4
<1>6. \A m \in Mandatory(a) .. n - 1 : ~Stops(m)
  <2> SUFFICES ASSUME NEW m \in Mandatory(a) .. n - 1, Stops(m) PROVE FALSE
    OBVIOUS
  <2>1. n \in Nat /\ n <= MaxArgs + 2
    BY <1>1
  <2>2. m \in S /\ m < n
    BY <2>1, <1>1
  <2> QED BY <2>2, <1>5
<1>7. \E k \in Mandatory(a) .. MaxArgs + 2 :
        /\ k >= Limit(a) \/ ArgAt(first + k) = Null \/ IsDash(ArgAt(first + k))
        /\ \A m \in Mandatory(a) .. k - 1 :
             m < Limit(a) /\ ArgAt(first + m) # Null /\ ~IsDash(ArgAt(first + m))
  <2>1. \A m \in Mandatory(a) .. n - 1 :
          m < Limit(a) /\ ArgAt(first + m) # Null /\ ~IsDash(ArgAt(first + m))
    BY <1>1, <1>3, <1>6
  <2> QED BY <2>1
<1>8. /\ Counted(a, first) \in Mandatory(a) .. MaxArgs + 2
      /\ \A m \in Mandatory(a) .. Counted(a, first) - 1 :
           m < Limit(a) /\ ArgAt(first + m) # Null /\ ~IsDash(ArgAt(first + m))
  BY <1>7 DEF Counted
<1> QED BY <1>1, <1>8

\* What C sees at a position that has an argument, and right after the last.
LEMMA Entries ==
  ASSUME args \in Seq(Args \cup {Word})
  PROVE  /\ \A p \in 1 .. Len(args) : ArgAt(p) = args[p] /\ ArgAt(p) # Null
         /\ ArgAt(Len(args) + 1) = Null
         /\ \A p \in 1 .. Len(args) : args[p] # "0"
BY GetOptAssumption, ElementOfSeq DEF ArgAt

\* UsedInOrder of one sequence, and of what is appended to another.
InOrder(s) ==
  \A m, n \in 1 .. Len(s) : m < n =>
    s[m] < s[n] \/ (s[m] = s[n] /\ n = m + 1 /\ args[s[m] - 1] = "-")

\* What is in order stays so when more is appended that is behind it.
LEMMA InOrderAppended ==
  ASSUME NEW s \in Seq(Nat), NEW t \in Seq(Nat), InOrder(s), InOrder(t),
         \A m \in 1 .. Len(s), n \in 1 .. Len(t) :
           s[m] < t[n] \/ (s[m] = t[n] /\ m = Len(s) /\ n = 1 /\ args[s[m] - 1] = "-")
  PROVE  InOrder(s \o t)
<1>1. PICK u : u = s \o t
  OBVIOUS
<1>2. /\ Len(s) \in Nat /\ Len(t) \in Nat /\ Len(u) = Len(s) + Len(t)
      /\ \A n \in 1 .. Len(s) + Len(t) :
           u[n] = IF n <= Len(s) THEN s[n] ELSE t[n - Len(s)]
  BY <1>1, ConcatProperties
<1>3. \A n \in 1 .. Len(s) : u[n] = s[n]
  BY <1>2
<1>4. \A n \in Len(s) + 1 .. Len(u) :
        n - Len(s) \in 1 .. Len(t) /\ u[n] = t[n - Len(s)]
  BY <1>2
<1> SUFFICES ASSUME NEW m \in 1 .. Len(u), NEW n \in 1 .. Len(u), m < n
             PROVE  u[m] < u[n] \/ (u[m] = u[n] /\ n = m + 1 /\ args[u[m] - 1] = "-")
  BY <1>1 DEF InOrder
<1>5. CASE n <= Len(s)
  <2>1. m \in 1 .. Len(s) /\ n \in 1 .. Len(s)
    BY <1>2, <1>5
  <2>2. u[m] = s[m] /\ u[n] = s[n]
    BY <2>1, <1>3
  <2>3. s[m] < s[n] \/ (s[m] = s[n] /\ n = m + 1 /\ args[s[m] - 1] = "-")
    BY <2>1 DEF InOrder
  <2> QED BY <2>2, <2>3
<1>6. CASE m <= Len(s) /\ n > Len(s)
  <2>1. m \in 1 .. Len(s) /\ n \in Len(s) + 1 .. Len(u) /\ n - Len(s) \in 1 .. Len(t)
    BY <1>2, <1>6
  <2>2. u[m] = s[m] /\ u[n] = t[n - Len(s)]
    BY <2>1, <1>3, <1>4
  <2> QED BY <2>1, <2>2, <1>2
<1>7. CASE m > Len(s)
  <2>1. m \in Len(s) + 1 .. Len(u) /\ n \in Len(s) + 1 .. Len(u)
    BY <1>2, <1>7
  <2>2. PICK i \in 1 .. Len(t) : i = m - Len(s) /\ u[m] = t[i]
    BY <2>1, <1>4
  <2>3. PICK k \in 1 .. Len(t) : k = n - Len(s) /\ u[n] = t[k]
    BY <2>1, <1>4
  <2>4. i < k /\ (k = i + 1 => n = m + 1)
    BY <2>2, <2>3, <1>2
  <2>5. t[i] < t[k] \/ (t[i] = t[k] /\ k = i + 1 /\ args[t[i] - 1] = "-")
    BY <2>4 DEF InOrder
  <2> QED BY <2>2, <2>3, <2>4, <2>5
<1> QED BY <1>2, <1>5, <1>6, <1>7

\* The arguments used, as a sequence in order.
LEMMA UsedInOrderIs ==
  ASSUME used \in Seq(Nat)
  PROVE  UsedInOrder <=> InOrder(used)
BY LenProperties DEF UsedInOrder, InOrder

-----------------------------------------------------------------------------
(* Every step keeps the invariant.                                           *)

\* Every command line starts with it.
LEMMA StartKeeps ==
  ASSUME GetoptInit
  PROVE  GInv
<1>1. PICK line \in CommandLines : GetoptStarts(line)
  BY DEF GetoptInit
<1>2. PICK rest \in BoundedSeq(Args, MaxArgs) : line = <<Word>> \o rest
  BY <1>1 DEF CommandLines
<1>3. PICK m \in 0 .. MaxArgs : rest \in [1 .. m -> Args]
  BY <1>2 DEF BoundedSeq, SeqOf
<1>4. rest \in Seq(Args \cup {Word}) /\ Len(rest) = m /\ m \in Nat
  BY GetOptAssumption, <1>3
<1>5. line \in Seq(Args \cup {Word}) /\ Len(line) = m + 1
  BY <1>2, <1>4, ConcatProperties
<1>6. args = line /\ argv = 1 /\ argc = Len(args) /\ argn = 1 /\ pc = "getopt"
      /\ used = <<>> /\ typed = {}
  BY <1>1 DEF GetoptStarts
<1>7. GetoptTypes
  BY GetOptAssumption, <1>3, <1>4, <1>5, <1>6 DEF GetoptTypes, UINT_MAX
<1>8. Len(used) = 0 /\ DOMAIN used = {}
  BY <1>6
<1>9. ArgumentsUsedOnce
  BY <1>5, <1>4, <1>6, <1>8
  DEF ArgumentsUsedOnce, CountsAgree, UsedInOrder, NoneLost, TypesOfExtensions
<1> QED
  BY <1>6, <1>7, <1>8, <1>9
  DEF GInv, UsedBehind, Switching, BehindUsed, Upto

\* mig_getopt finds nothing left: everything is behind it.
LEMMA EndsKeeps ==
  ASSUME GInv, GetoptEnds
  PROVE  GInv'
<1>1. \A p \in 2 .. Len(args) : p < argv + argn
  BY DEF GInv, GetoptTypes, ArgumentsUsedOnce, CountsAgree, GetoptEnds, AtEnd
<1>2. UNCHANGED <<args, argv, argc, argn, opt, used, typed>>
      /\ pc = "getopt" /\ pc' = "run"
  BY DEF GetoptEnds
<1>3. UsedBehind' /\ BehindUsed' /\ BehindUsed
  BY <1>2 DEF GInv, UsedBehind, BehindDash, BehindUsed, Upto
<1>4. \A p \in 2 .. Len(args) : (\E n \in 1 .. Len(used) : used[n] = p) \/ IsDash(args[p])
  BY <1>1, <1>2, <1>3 DEF BehindUsed, Upto
<1>5. NoneLost'
  BY <1>2, <1>4, LenProperties DEF GInv, GetoptTypes, NoneLost
<1> QED
  BY <1>2, <1>3, <1>5
  DEF GInv, GetoptTypes, Switching, ArgumentsUsedOnce, CountsAgree, UsedInOrder,
      TypesOfExtensions

\* mig_getopt finds a word.
LEMMA WordKeeps ==
  ASSUME GInv, GetoptWord
  PROVE  GInv'
<1>1. argv + argn \in 2 .. Len(args) /\ argv' = argv + argn
  BY DEF GInv, GetoptTypes, ArgumentsUsedOnce, CountsAgree, GetoptWord, AtEnd
<1>2. args[argv + argn] = Word
  BY <1>1, Entries DEF GInv, GetoptTypes, GetoptWord, IsDash
<1>3. GetoptTypes' /\ (HasWord)'
  BY <1>1, <1>2 DEF GInv, GetoptTypes, GetoptWord, HasWord
<1>4. UsedBehind' /\ BehindUsed'
  BY <1>1 DEF GInv, GetoptWord, UsedBehind, BehindDash, BehindUsed, Upto
<1>5. ArgumentsUsedOnce'
  BY <1>1 DEF GInv, GetoptTypes, GetoptWord, ArgumentsUsedOnce, CountsAgree, UsedInOrder,
              NoneLost, TypesOfExtensions
<1> QED BY <1>3, <1>4, <1>5 DEF GInv, GetoptWord, Switching

\* mig_getopt finds an option and counts its arguments.
LEMMA OptionKeeps ==
  ASSUME GInv, GetoptOption
  PROVE  GInv'
<1>1. argv + argn \in 2 .. Len(args) /\ argv \in Nat \ {0} /\ argn \in Nat
      /\ Len(args) \in 1 .. MaxArgs + 1 /\ MaxArgs \in Nat
      /\ argc \in Int /\ argc > 0 /\ argc <= MaxArgs + 1
  BY GetOptAssumption
  DEF GInv, GetoptTypes, ArgumentsUsedOnce, CountsAgree, GetoptOption, AtEnd, UINT_MAX
<1>2. PICK a : a = args[argv + argn]
  OBVIOUS
<1>3. a = ArgAt(argv + argn) /\ IsDash(a)
  BY <1>1, <1>2, Entries DEF GInv, GetoptTypes, GetoptOption
<1>4. PICK first \in Nat : first = argv + argn + 1
  BY <1>1
<1>5. PICK count : count = Counted(a, first)
  OBVIOUS
<1>6. /\ args' = args /\ argv' = first /\ argc' = argc - (argn + 1) /\ argn' = count
      /\ opt' = Letter(a) /\ pc' = "switch" /\ used' = used /\ typed' = typed
  BY <1>3, <1>4, <1>5 DEF GetoptOption
<1>7. /\ count \in Nat /\ count >= Mandatory(a)
      /\ \A m \in Mandatory(a) .. count - 1 :
           m < Limit(a) /\ ArgAt(first + m) # Null /\ ~IsDash(ArgAt(first + m))
  BY <1>1, <1>5, CountedStops
<1>8. Mandatory(a) \in {0, 1} /\ (a # "-m" => Limit(a) = 0)
  BY <1>1, Limited
<1>9. a # "-m" => count = Mandatory(a)
  BY <1>7, <1>8
<1>10. ASSUME first <= Len(args), NEW m \in Mandatory(a) .. count - 1
       PROVE  first + m <= Len(args) /\ args[first + m] = Word
  <2>1. first + m <= Len(args)
    <3> SUFFICES ASSUME first + m > Len(args) PROVE FALSE
      BY <1>1, <1>4, <1>7, <1>8, <1>10
    <3>1. PICK k \in Mandatory(a) .. count - 1 : first + k = Len(args) + 1
      <4>1. Len(args) + 1 - first \in Mandatory(a) .. count - 1
        BY <1>1, <1>4, <1>7, <1>8, <1>10
      <4> QED BY <4>1, <1>1, <1>4
    <3> QED BY <3>1, <1>7, Entries DEF GInv, GetoptTypes
  <2>2. ArgAt(first + m) = args[first + m]
    BY <1>1, <1>4, <1>7, <1>8, <2>1, Entries DEF GInv, GetoptTypes
  <2> QED BY <2>1, <2>2, <1>7 DEF IsDash
<1>11. \A n \in 1 .. Len(used) : used[n] < first
  BY <1>1, <1>4, ElementOfSeq DEF GInv, GetoptTypes, UsedBehind, Upto, GetoptOption
<1>12. first - 1 = argv + argn
  BY <1>1, <1>4
<1>13. (HasOption)'
  BY <1>1, <1>2, <1>3, <1>6, <1>7, <1>9, <1>10, <1>11, <1>12 DEF HasOption
<1>14. GetoptTypes'
  BY <1>1, <1>4, <1>6, <1>7 DEF GInv, GetoptTypes
<1>15. UsedBehind'
  BY <1>6, <1>11 DEF UsedBehind, Upto
<1>16. BehindUsed'
  <2>1. BehindUsed /\ pc = "getopt"
    BY DEF GInv, GetoptOption
  <2> SUFFICES ASSUME NEW p \in 2 .. Len(args), p < first
               PROVE  (\E n \in 1 .. Len(used) : used[n] = p) \/ IsDash(args[p])
    BY <1>6 DEF BehindUsed, Upto
  <2>2. CASE p = argv + argn
    BY <2>2, <1>2, <1>3
  <2>3. CASE p < argv + argn
    BY <2>1, <2>3 DEF BehindUsed, Upto
  <2> QED BY <2>2, <2>3, <1>1, <1>4
<1>17. ArgumentsUsedOnce'
  BY <1>1, <1>4, <1>6
  DEF GInv, ArgumentsUsedOnce, CountsAgree, UsedInOrder, NoneLost, TypesOfExtensions
<1> QED BY <1>6, <1>13, <1>14, <1>15, <1>16, <1>17 DEF GInv, Switching

\* A step that only ends the reading, with help or by a crash.
LEMMA EndingKeeps ==
  ASSUME GInv, pc \in {"getopt", "switch"}, pc' \in {"help", "crashed"},
         UNCHANGED <<args, argv, argc, argn, opt, used, typed>>
  PROVE  GInv'
<1>1. UsedBehind'
  BY ElementOfSeq DEF GInv, GetoptTypes, UsedBehind, BehindDash, Upto
<1> QED
  BY <1>1
  DEF GInv, GetoptTypes, Switching, ArgumentsUsedOnce, CountsAgree, UsedInOrder,
      NoneLost, TypesOfExtensions

\* What main's switch has for an option: its letter, and as many arguments as
\* it must have, but for -m.
LEMMA OptionAtHand ==
  ASSUME GInv, HasOption
  PROVE  /\ opt \in Derefs \cup {"-c"} => argn = IF opt = "0" THEN 0 ELSE 1
         /\ opt = "0" => args[argv - 1] = "-"
         /\ opt = "-m" => args[argv - 1] = "-m" /\ argn >= 1
         /\ opt \notin Derefs \cup {"-m", "-c"} => argn = 0
<1>1. args[argv - 1] # "0" /\ argv - 1 \in 1 .. Len(args)
  BY Entries DEF GInv, GetoptTypes, HasOption
<1>2. opt = "0" => args[argv - 1] = "-"
  BY <1>1 DEF HasOption, Letter
<1>3. opt # "0" => args[argv - 1] = opt
  BY <1>1 DEF HasOption, Letter
<1> QED
  BY <1>2, <1>3 DEF HasOption, Mandatory, OneArgument, Derefs, GInv, GetoptTypes

\* main uses the argument it was pointed to.
LEMMA UsesKeeps ==
  ASSUME GInv, SwitchUses
  PROVE  GInv'
<1>1. HasWord \/ HasOption
  BY DEF GInv, Switching, SwitchUses
<1>2. /\ argv \in Nat /\ argv >= 2 /\ argn \in {0, 1}
      /\ argn = 0 => /\ args[argv - 1] = "-" /\ argv - 1 \in 1 .. Len(args)
                     /\ \A n \in 1 .. Len(used) : used[n] < argv
  BY <1>1, OptionAtHand DEF HasWord, HasOption, SwitchUses, GInv, GetoptTypes
<1>3. /\ used \in Seq(Nat) /\ Len(used) \in Nat
      /\ used' \in Seq(Nat) /\ Len(used') = Len(used) + 1 /\ used'[Len(used) + 1] = argv
      /\ \A n \in 1 .. Len(used) : used'[n] = used[n] /\ used[n] \in Nat
      /\ DOMAIN used = 1 .. Len(used) /\ DOMAIN used' = 1 .. Len(used')
  BY <1>2, AppendProperties, ElementOfSeq, LenProperties DEF GInv, GetoptTypes, SwitchUses
<1>4. /\ args' = args /\ argv' = argv /\ argc' = argc /\ argn' = argn /\ opt' = opt
      /\ pc = "switch" /\ pc' = "getopt" /\ typed' = typed
  BY DEF SwitchUses
<1>5. \A n \in 1 .. Len(used) :
        used[n] < argv \/ (used[n] = argv /\ n = Len(used) /\ args[argv - 1] = "-")
  BY <1>4 DEF GInv, UsedBehind, BehindDash, Upto
<1>6. UsedInOrder'
  <2>1. PICK one : one = <<argv>>
    OBVIOUS
  <2>2. one \in Seq(Nat) /\ Len(one) = 1 /\ one[1] = argv
    BY <1>2, <2>1
  <2>3. used' = used \o one
    BY <1>2, <1>3, <2>1 DEF SwitchUses
  <2>4. InOrder(used) /\ InOrder(one)
    BY <1>3, <2>2, UsedInOrderIs DEF GInv, ArgumentsUsedOnce, InOrder
  <2>5. InOrder(used \o one)
    <3>1. \A m \in 1 .. Len(used), n \in 1 .. Len(one) :
            \/ used[m] < one[n]
            \/ used[m] = one[n] /\ m = Len(used) /\ n = 1 /\ args[used[m] - 1] = "-"
      <4> SUFFICES ASSUME NEW m \in 1 .. Len(used), NEW n \in 1 .. Len(one)
                   PROVE  \/ used[m] < one[n]
                          \/ /\ used[m] = one[n] /\ m = Len(used) /\ n = 1
                             /\ args[used[m] - 1] = "-"
        OBVIOUS
      <4>1. n = 1 /\ one[n] = argv
        BY <2>2
      <4> QED BY <4>1, <1>5
    <3> QED BY <3>1, <1>3, <2>2, <2>4, InOrderAppended
  <2>6. (InOrder(used))'
    BY <1>4, <2>3, <2>5 DEF InOrder
  <2> QED BY <1>3, <2>6 DEF UsedInOrder, InOrder
<1>7. UsedBehind'
  <2>1. PICK p : p = argv + argn
    OBVIOUS
  <2>2. Upto' = p
    BY <2>1, <1>4 DEF Upto
  <2>3. ASSUME NEW n \in 1 .. Len(used')
        PROVE  \/ used'[n] < p
               \/ /\ used'[n] = p /\ n = Len(used')
                  /\ p - 1 \in 1 .. Len(args) /\ args[p - 1] = "-"
    <3>1. CASE n = Len(used) + 1
      BY <2>1, <3>1, <1>2, <1>3
    <3>2. CASE n # Len(used) + 1
      <4>1. n \in 1 .. Len(used)
        BY <3>2, <1>3
      <4>2. used'[n] = used[n] /\ used[n] \in Nat
        BY <4>1, <1>3
      <4>3. used[n] <= argv /\ (argn = 0 => used[n] < argv)
        BY <4>1, <4>2, <1>2, <1>5
      <4> QED BY <2>1, <4>2, <4>3, <1>2
    <3> QED BY <3>1, <3>2
  <2> QED BY <2>2, <2>3, <1>4 DEF UsedBehind, BehindDash
<1>8. BehindUsed'
  BY <1>2, <1>3, <1>4 DEF GInv, BehindUsed, Upto
<1>9. ArgumentsUsedOnce'
  BY <1>4, <1>6 DEF GInv, ArgumentsUsedOnce, CountsAgree, NoneLost, TypesOfExtensions
<1> QED BY <1>2, <1>3, <1>4, <1>7, <1>8, <1>9 DEF GInv, GetoptTypes, Switching

\* main gives the words after a type that type.
LEMMA MimetypeKeeps ==
  ASSUME GInv, SwitchMimetype
  PROVE  GInv'
<1>1. HasOption
  BY DEF GInv, Switching, SwitchMimetype, HasWord
<1>2. /\ args[argv - 1] = "-m" /\ argv \in Nat /\ argv >= 2 /\ argn \in Nat /\ argn >= 1
      /\ argv <= Len(args) => \A m \in 1 .. argn - 1 : args[argv + m] = Word
      /\ \A n \in 1 .. Len(used) : used[n] < argv
  <2>1. args[argv - 1] = "-m" /\ argv \in Nat /\ argv >= 2 /\ argn \in Nat /\ argn >= 1
    BY <1>1, OptionAtHand DEF HasOption, SwitchMimetype, GInv, GetoptTypes
  <2>2. argv <= Len(args) => \A m \in 1 .. argn - 1 : args[argv + m] = Word
    BY <1>1, OptionAtHand, Limited DEF HasOption, SwitchMimetype, GInv, GetoptTypes
  <2>3. \A n \in 1 .. Len(used) : used[n] < argv
    BY <1>1, OptionAtHand DEF HasOption, GInv, GetoptTypes
  <2> QED BY <2>1, <2>2, <2>3
<1>3. PICK new : new = [i \in 1 .. argn |-> argv + i - 1]
  OBVIOUS
<1>4. new \in Seq(Nat) /\ Len(new) = argn /\ \A i \in 1 .. argn : new[i] = argv + i - 1
  BY <1>2, <1>3
<1>5. /\ args' = args /\ argv' = argv /\ argc' = argc /\ argn' = argn /\ opt' = opt
      /\ pc = "switch" /\ pc' = "getopt" /\ used' = used \o new
      /\ typed' = typed \cup {<<argv, argv + i>> : i \in 1 .. argn - 1}
  BY <1>3 DEF SwitchMimetype
<1>6. /\ used \in Seq(Nat) /\ Len(used) \in Nat
      /\ used' \in Seq(Nat) /\ Len(used') = Len(used) + argn
      /\ DOMAIN used = 1 .. Len(used) /\ DOMAIN used' = 1 .. Len(used')
      /\ \A n \in 1 .. Len(used) : used'[n] = used[n]
      /\ \A n \in Len(used) + 1 .. Len(used) + argn : used'[n] = argv + (n - Len(used)) - 1
  <2>1. used \in Seq(Nat) /\ Len(used) \in Nat
    BY LenProperties DEF GInv, GetoptTypes
  <2>2. /\ used' \in Seq(Nat) /\ Len(used') = Len(used) + Len(new)
        /\ \A n \in 1 .. Len(used) + Len(new) :
             used'[n] = IF n <= Len(used) THEN used[n] ELSE new[n - Len(used)]
    BY <2>1, <1>4, <1>5, ConcatProperties
  <2>3. ASSUME NEW n \in Len(used) + 1 .. Len(used) + argn
        PROVE  used'[n] = argv + (n - Len(used)) - 1
    <3>1. n - Len(used) \in 1 .. argn /\ ~(n <= Len(used)) /\ n \in 1 .. Len(used) + Len(new)
      BY <2>1, <1>2, <1>4
    <3> QED BY <3>1, <2>2, <1>4
  <2>4. \A n \in 1 .. Len(used) : used'[n] = used[n]
    <3> SUFFICES ASSUME NEW n \in 1 .. Len(used) PROVE used'[n] = used[n]
      OBVIOUS
    <3>1. n \in 1 .. Len(used) + Len(new) /\ n <= Len(used)
      BY <2>1, <1>2, <1>4
    <3> QED BY <3>1, <2>2
  <2>5. DOMAIN used = 1 .. Len(used) /\ DOMAIN used' = 1 .. Len(used')
    BY <2>1, <2>2, LenProperties
  <2> QED BY <2>1, <2>2, <2>3, <2>4, <2>5, <1>4
<1>7. UsedInOrder'
  <2>1. InOrder(used) /\ InOrder(new)
    BY <1>2, <1>4, <1>6, UsedInOrderIs DEF GInv, ArgumentsUsedOnce, InOrder
  <2>2. InOrder(used \o new)
    <3>1. \A n \in 1 .. Len(new) : new[n] >= argv
      BY <1>2, <1>4
    <3>2. \A m \in 1 .. Len(used) : used[m] \in Nat
      BY <1>6, ElementOfSeq
    <3>3. \A m \in 1 .. Len(used), n \in 1 .. Len(new) : used[m] < new[n]
      BY <3>1, <3>2, <1>2, <1>4
    <3> QED BY <3>3, <2>1, <1>4, <1>6, InOrderAppended
  <2>3. (InOrder(used))'
    BY <1>5, <2>2 DEF InOrder
  <2> QED BY <1>6, <2>3 DEF UsedInOrder, InOrder
<1>8. UsedBehind'
  <2> SUFFICES ASSUME NEW n \in 1 .. Len(used') PROVE used'[n] < argv + argn
    BY <1>5 DEF UsedBehind, Upto
  <2>1. CASE n <= Len(used)
    <3>1. used'[n] = used[n] /\ used[n] < argv /\ used[n] \in Nat
      BY <2>1, <1>2, <1>6, ElementOfSeq
    <3> QED BY <3>1, <1>2
  <2>2. CASE n > Len(used)
    <3>1. n \in Len(used) + 1 .. Len(used) + argn
      BY <2>2, <1>2, <1>6
    <3>2. used'[n] = argv + (n - Len(used)) - 1
      BY <3>1, <1>6
    <3> QED BY <3>1, <3>2, <1>2, <1>6
  <2> QED BY <2>1, <2>2, <1>6
<1>9. BehindUsed'
  <2> SUFFICES ASSUME NEW p \in 2 .. Len(args), p < argv + argn
               PROVE  (\E n \in 1 .. Len(used') : used'[n] = p) \/ IsDash(args[p])
    BY <1>5 DEF BehindUsed, Upto
  <2>1. CASE p < argv
    BY <2>1, <1>5, <1>6, <1>2 DEF GInv, BehindUsed, Upto
  <2>2. CASE p >= argv
    <3>1. PICK n \in Len(used) + 1 .. Len(used) + argn : p = argv + (n - Len(used)) - 1
      <4>1. PICK n : n = Len(used) + (p - argv) + 1
        OBVIOUS
      <4>2. n \in Len(used) + 1 .. Len(used) + argn /\ p = argv + (n - Len(used)) - 1
        BY <4>1, <2>2, <1>2, <1>6
      <4> QED BY <4>2
    <3> QED BY <3>1, <1>6
  <2> QED BY <2>1, <2>2, <1>2
<1>10. TypesOfExtensions'
  <2> SUFFICES ASSUME NEW pair \in typed', pair[1] <= Len(args)
               PROVE  /\ \A p \in pair[1] + 1 .. pair[2] : args[p] = Word
                      /\ args[pair[1] - 1] = "-m"
    BY <1>5 DEF TypesOfExtensions
  <2>1. CASE pair \in typed
    BY <2>1 DEF GInv, ArgumentsUsedOnce, TypesOfExtensions
  <2>2. CASE pair \notin typed
    <3>1. PICK i \in 1 .. argn - 1 : pair = <<argv, argv + i>>
      BY <2>2, <1>5
    <3>2. ASSUME NEW p \in argv + 1 .. argv + i PROVE args[p] = Word
      <4>1. PICK m \in 1 .. argn - 1 : p = argv + m
        <5>1. p - argv \in 1 .. argn - 1
          BY <3>1, <1>2
        <5> QED BY <5>1, <1>2
      <4> QED BY <4>1, <3>1, <1>2
    <3> QED BY <3>1, <3>2, <1>2
  <2> QED BY <2>1, <2>2
<1>11. ArgumentsUsedOnce'
  BY <1>5, <1>7, <1>10 DEF GInv, ArgumentsUsedOnce, CountsAgree, NoneLost
<1> QED BY <1>2, <1>5, <1>6, <1>8, <1>9, <1>11 DEF GInv, GetoptTypes, Switching

\* main has nothing to do with the arguments, or -c has none.
LEMMA OtherKeeps ==
  ASSUME GInv, SwitchOther
  PROVE  GInv'
<1>1. HasOption
  BY Entries DEF GInv, GetoptTypes, Switching, SwitchOther, HasWord, Derefs
<1>2. /\ argv \in Nat /\ argv >= 2 /\ argn \in {0, 1}
      /\ \A n \in 1 .. Len(used) : used[n] < argv
  BY <1>1, OptionAtHand DEF HasOption, SwitchOther, GInv, GetoptTypes, Derefs
<1>3. argn = 1 => argv > Len(args)
  BY <1>1, <1>2, OptionAtHand, Entries DEF SwitchOther, GInv, GetoptTypes
<1>4. /\ UNCHANGED <<args, argv, argc, argn, opt, used, typed>>
      /\ pc = "switch" /\ pc' = "getopt"
  BY DEF SwitchOther
<1>5. UsedBehind'
  BY <1>2, <1>4, ElementOfSeq DEF GInv, GetoptTypes, UsedBehind, Upto
<1>6. BehindUsed'
  BY <1>2, <1>3, <1>4 DEF GInv, GetoptTypes, BehindUsed, Upto
<1> QED
  BY <1>2, <1>4, <1>5, <1>6
  DEF GInv, GetoptTypes, Switching, ArgumentsUsedOnce, CountsAgree, UsedInOrder,
      NoneLost, TypesOfExtensions

\* The invariant of the option loop.
THEOREM GetoptInvariance == GetoptSpec => []GInv
<1>1. GetoptInit => GInv
  BY StartKeeps
<1>2. GInv /\ [GetoptNext]_getoptvars => GInv'
  <2> SUFFICES ASSUME GInv, [GetoptNext]_getoptvars PROVE GInv'
    OBVIOUS
  <2>1. CASE GetoptEnds
    BY <2>1, EndsKeeps
  <2>2. CASE GetoptWord
    BY <2>2, WordKeeps
  <2>3. CASE GetoptOption
    BY <2>3, OptionKeeps
  <2>4. CASE GetoptCrashes
    BY <2>4, EndingKeeps DEF GetoptCrashes
  <2>5. CASE SwitchUses
    BY <2>5, UsesKeeps
  <2>6. CASE SwitchCrashes
    BY <2>6, EndingKeeps DEF SwitchCrashes
  <2>7. CASE SwitchMimetype
    BY <2>7, MimetypeKeeps
  <2>8. CASE SwitchHelp
    BY <2>8, EndingKeeps DEF SwitchHelp
  <2>9. CASE SwitchOther
    BY <2>9, OtherKeeps
  <2>10. CASE UNCHANGED getoptvars
    BY <2>10
    DEF getoptvars, GInv, GetoptTypes, UsedBehind, BehindDash, Switching, HasWord, HasOption,
        BehindUsed, ArgumentsUsedOnce, CountsAgree, UsedInOrder, NoneLost,
        TypesOfExtensions, Upto
  <2> QED
    BY <2>1, <2>2, <2>3, <2>4, <2>5, <2>6, <2>7, <2>8, <2>9, <2>10
    DEF GetoptNext, Getopt, Switch, Ended
<1> QED BY <1>1, <1>2, PTL DEF GetoptSpec

\* On every command line, whatever its length, no argument is lost, used twice
\* or used for what it is not there for.
THEOREM UsedOnceCorrect == GetoptSpec => []ArgumentsUsedOnce
<1>1. GInv => ArgumentsUsedOnce
  BY DEF GInv
<1> QED BY <1>1, GetoptInvariance, PTL
=============================================================================
