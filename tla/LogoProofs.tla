------------------------------ MODULE LogoProofs ------------------------------
(* Logos. In the first part, whatever images are shown, by whom, and wherever a  *)
(* run is cut: what the cache of rendered images shows is right, and it misses   *)
(* no rendering. In the second, for every logo that fits on the screen, and      *)
(* however the terminal answers: what is written next is below the logo and the  *)
(* keys. In the third, the logo stands on the screen as a whole, and the keys    *)
(* beside or below it.                                                           *)
EXTENDS TerminalProofs, ImageCache

(* What a file may hold, and what a run may be at.                              *)
Frames == {"first", "other", "animate"}
Content(f) == f \in {Absent, Torn} \/ \E v \in Nat, fr \in Frames : f = Written(v, fr)

ImageTypes ==
  /\ scenario \in Scenario /\ request \in Request
  /\ scenario.requests \subseteq Request
  /\ DOMAIN files = Files /\ \A f \in Files : Content(files[f])
  /\ source \in Nat \ {0} /\ sourceMtime \in Nat /\ picture \in Nat
  /\ sourceMtime <= source /\ picture <= source
  /\ files["mtime"].version <= source
  /\ pc \in {"idle", "look", "clean", "decode", "write", "fill"}
  /\ todo \in Seq(Files)
  /\ pc = "look" => sourceMtime # 0

(* A run that renders into the cache: the files that are still to be written,   *)
(* the mtime last, and what was written before them.                            *)
Writing == pc \in {"write", "fill"} /\ request.cache # "off"
Left == Range(todo)
Filling(f) == pc = "fill" /\ f = Head(todo)
StillFile == IF scenario.zlib THEN "kittyc" ELSE "kittyu"

WriteSet ==
  {"mtime"}
    \cup (IF request.type = "chafa" THEN {} ELSE {"width", "height"})
    \cup (IF Animation(request) /\ scenario.animated THEN {} ELSE {"frame"})
    \cup (IF Animation(request) THEN {"kittyanim"} ELSE {})
    \cup (IF request.type = "kitty"
          THEN IF request.frame = "animate" /\ scenario.animated THEN {} ELSE {StillFile}
          ELSE {request.type})

Progress ==
  /\ pc = "write" /\ request.cache = "off" => todo = <<>>
  /\ pc = "fill" => todo # <<>> /\ request.cache # "off" /\ files[Head(todo)] = Torn
  /\ Writing =>
       /\ Left \subseteq WriteSet
       /\ IsInjective(todo)
       /\ \A i \in DOMAIN todo : todo[i] = "mtime" <=> i = Len(todo)
       /\ \A f \in WriteSet \ Left :
            files[f] = Written(IF f = "mtime" THEN sourceMtime ELSE picture, request.frame)
       /\ request.frame = "animate" => request.type = "kitty"
       /\ sourceMtime <= picture /\ picture # 0
       /\ files["mtime"].version \in {0, sourceMtime}
  /\ pc = "clean" =>
       /\ \A f \in Files : files[f] = Absent \/ f \in Left
       /\ todo = Removal \/ (files["mtime"] = Absent /\ made = {})
  /\ pc = "decode" /\ request.cache # "off" =>
       \/ files["mtime"].version = sourceMtime /\ sourceMtime # 0
       \/ made = {} /\ \A f \in Files : files[f] = Absent

(* The payloads are of the version that is recorded ...                         *)
Right(f, version) ==
  files[f] = Absent \/ f \in astray \/ (files[f].state = "whole" /\ files[f].version = version)

VersionsRight ==
  /\ ~Writing /\ files["mtime"].version = source =>
       \A f \in Payloads : Right(f, source)
  /\ pc = "look" /\ files["mtime"].version = sourceMtime =>
       \A f \in Payloads : Right(f, sourceMtime)
  /\ Writing /\ sourceMtime = source =>
       \A f \in Payloads : Right(f, source) \/ Filling(f)

(* ... and of the frame.                                                        *)
Recorded(f) ==
  files[f] # Absent /\ f \notin astray => files[f].frame = files["frame"].frame

FramesRight ==
  /\ files["kittyanim"] \in {Absent, Torn} \/ files["kittyanim"].frame = "animate"
  /\ ~Writing /\ files["mtime"].version # 0 => \A f \in Stills : Recorded(f)
  /\ Writing => \A f \in Stills \ Rendered :
       \/ Filling(f)
       \/ ~Filling("frame") /\ Recorded(f)
       \/ Filling("frame") /\ (files[f] # Absent /\ f \notin astray => files[f].frame = request.frame)
  /\ Writing /\ "frame" \in Left /\ files["mtime"].version = 0 =>
       \A f \in Stills \ Rendered : Filling(f) \/ files[f] = Absent

(* What was made is there.                                                      *)
PayloadOf(x) ==
  IF x.type = "kitty" THEN IF x.frame = "animate" THEN "kittyanim" ELSE StillFile
  ELSE x.type

There(x) ==
  /\ Filling(PayloadOf(x)) \/ files[PayloadOf(x)].state = "whole"
  /\ x.type # "chafa" => \A f \in {"width", "height"} : Filling(f) \/ files[f].version # 0

MadeThere ==
  /\ made \subseteq [type : {"sixel", "kitty", "chafa"}, frame : Frames, version : Nat]
  /\ files[IF scenario.zlib THEN "kittyu" ELSE "kittyc"] = Absent
  /\ pc # "clean" => \A x \in made : There(x) /\ (x.frame = "animate" => x.type = "kitty")
  /\ ~Writing /\ pc # "clean" => \A x \in made :
       /\ x.version = files["mtime"].version
       /\ x.frame = "animate" \/ x.frame = files["frame"].frame

CacheInv ==
  /\ ImageTypes /\ Progress /\ VersionsRight /\ FramesRight /\ MadeThere
  /\ ShownRight /\ MissesJustified

(* What is in two sequences, one behind the other.                              *)
LEMMA ConcatRange ==
  ASSUME NEW S, NEW s \in Seq(S), NEW t \in Seq(S),
         IsInjective(s), IsInjective(t), \A x \in Range(s) : x \notin Range(t)
  PROVE  /\ s \o t \in Seq(S)
         /\ Range(s \o t) = Range(s) \cup Range(t)
         /\ IsInjective(s \o t)
  <1>1. /\ s \o t \in Seq(S)
        /\ Len(s \o t) = Len(s) + Len(t)
        /\ \A i \in 1..Len(s) + Len(t) :
             (s \o t)[i] = IF i <= Len(s) THEN s[i] ELSE t[i - Len(s)]
    BY ConcatProperties
  <1>2. \A i \in 1..Len(s) : i \in 1..Len(s) + Len(t) /\ (s \o t)[i] = s[i]
    BY <1>1
  <1>3. \A i \in 1..Len(t) : /\ Len(s) + i \in 1..Len(s) + Len(t)
                             /\ (s \o t)[Len(s) + i] = t[i]
    BY <1>1
  <1>4. \A i \in 1..Len(s) + Len(t) : i \in 1..Len(s) \/ i - Len(s) \in 1..Len(t)
    OBVIOUS
  <1>5. DOMAIN (s \o t) = 1..Len(s) + Len(t) /\ DOMAIN s = 1..Len(s) /\ DOMAIN t = 1..Len(t)
    BY <1>1
  <1>6. Range(s \o t) \subseteq Range(s) \cup Range(t)
    BY <1>1, <1>4, <1>5 DEF Range
  <1>7. Range(s) \cup Range(t) \subseteq Range(s \o t)
    BY <1>2, <1>3, <1>5 DEF Range
  <1>8. ASSUME NEW i \in 1..Len(s) + Len(t), NEW j \in 1..Len(s) + Len(t),
               (s \o t)[i] = (s \o t)[j]
        PROVE  i = j
    <2>1. \A m \in 1..Len(s), n \in 1..Len(t) : s[m] # t[n]
      BY <1>5 DEF Range
    <2>2. /\ \A m, n \in 1..Len(s) : s[m] = s[n] => m = n
          /\ \A m, n \in 1..Len(t) : t[m] = t[n] => m = n
      BY <1>5 DEF IsInjective
    <2>3. CASE i <= Len(s) /\ j <= Len(s)
      BY <1>1, <1>8, <2>2, <2>3
    <2>4. CASE ~(i <= Len(s)) /\ ~(j <= Len(s))
      <3>1. i - Len(s) \in 1..Len(t) /\ j - Len(s) \in 1..Len(t)
        BY <2>4
      <3>2. t[i - Len(s)] = t[j - Len(s)]
        BY <1>1, <1>8, <2>4
      <3> QED BY <2>2, <3>1, <3>2
    <2>5. CASE i <= Len(s) /\ ~(j <= Len(s))
      BY <1>1, <1>4, <1>8, <2>1, <2>5
    <2>6. CASE ~(i <= Len(s)) /\ j <= Len(s)
      BY <1>1, <1>4, <1>8, <2>1, <2>6
    <2> QED BY <2>3, <2>4, <2>5, <2>6
  <1>9. IsInjective(s \o t)
    BY <1>1, <1>5, <1>8 DEF IsInjective
  <1> QED BY <1>1, <1>6, <1>7, <1>9

(* What is at the end of a sequence, and in it.                                 *)
LEMMA AppendLast ==
  ASSUME NEW S, NEW s \in Seq(S), NEW x \in S, x \notin Range(s), IsInjective(s)
  PROVE  /\ s \o <<x>> \in Seq(S) /\ s \o <<x>> # <<>>
         /\ Range(s \o <<x>>) = Range(s) \cup {x} /\ IsInjective(s \o <<x>>)
         /\ \A i \in DOMAIN (s \o <<x>>) : (s \o <<x>>)[i] = x <=> i = Len(s \o <<x>>)
  <1>1. <<x>> \in Seq(S) /\ Len(<<x>>) = 1 /\ <<x>>[1] = x /\ Range(<<x>>) = {x} /\ IsInjective(<<x>>)
    BY DEF Range, IsInjective
  <1> DEFINE t == <<x>>
  <1> HIDE DEF t
  <1>2. /\ s \o t \in Seq(S)
        /\ Len(s \o t) = Len(s) + 1
        /\ \A i \in 1..Len(s) + 1 : (s \o t)[i] = IF i <= Len(s) THEN s[i] ELSE t[i - Len(s)]
    BY <1>1, ConcatProperties DEF t
  <1>3. \A i \in 1..Len(s) : s[i] # x
    BY DEF Range
  <1>6. t \in Seq(S) /\ Range(t) = {x} /\ IsInjective(t) /\ \A y \in Range(s) : y \notin Range(t)
    BY <1>1 DEF t
  <1>4. \A i \in 1..Len(s) + 1 : (s \o t)[i] = x <=> i = Len(s) + 1
    BY <1>1, <1>2, <1>3 DEF t
  <1>5. Range(s \o t) = Range(s) \cup {x} /\ IsInjective(s \o t)
    BY <1>6, ConcatRange
  <1> QED BY <1>2, <1>4, <1>5 DEF t

(* The files of a rendering, each once, and the mtime behind them.              *)
LEMMA RenderingFiles ==
  ASSUME request \in Request, scenario \in Scenario,
         request.frame = "animate" => request.type = "kitty"
  PROVE  /\ Rendering \in Seq(Files) /\ Range(Rendering) = WriteSet \ {"mtime"}
         /\ IsInjective(Rendering)
  <1> DEFINE still == StillFile
  <1>1. still \in {"kittyc", "kittyu"}
    BY DEF StillFile
  <1>2. /\ Sizes \in Seq(Files) /\ Range(Sizes) = {"width", "height"}
        /\ <<"frame">> \in Seq(Files) /\ Range(<<"frame">>) = {"frame"}
        /\ IsInjective(Sizes) /\ IsInjective(<<"frame">>)
    BY DEF Sizes, Range, Files, IsInjective
  <1>3. ASSUME NEW f \in Payloads
        PROVE  /\ <<f>> \in Seq(Files) /\ Range(<<f>>) = {f} /\ IsInjective(<<f>>)
               /\ <<f>> \o Sizes \in Seq(Files)
               /\ Range(<<f>> \o Sizes) = {f, "width", "height"}
               /\ IsInjective(<<f>> \o Sizes)
    <2>1. <<f>> \in Seq(Files) /\ Range(<<f>>) = {f} /\ IsInjective(<<f>>)
      BY DEF Range, Files, IsInjective
    <2> DEFINE s == <<f>>
    <2>2. s \in Seq(Files) /\ Range(s) = {f} /\ IsInjective(s) /\ \A x \in Range(s) : x \notin Range(Sizes)
      BY <1>2, <2>1 DEF Payloads
    <2> HIDE DEF s
    <2>3. /\ s \o Sizes \in Seq(Files) /\ Range(s \o Sizes) = {f} \cup {"width", "height"}
          /\ IsInjective(s \o Sizes)
      BY <1>2, <2>2, ConcatRange
    <2> QED BY <2>1, <2>3 DEF s
  <1>4. ASSUME NEW f \in Payloads
        PROVE  /\ <<f>> \o Sizes \o <<"frame">> \in Seq(Files)
               /\ Range(<<f>> \o Sizes \o <<"frame">>) = {f, "width", "height"} \cup {"frame"}
               /\ IsInjective(<<f>> \o Sizes \o <<"frame">>)
    <2> DEFINE s == <<f>> \o Sizes  t == <<"frame">>
    <2>1. /\ s \in Seq(Files) /\ Range(s) = {f, "width", "height"} /\ IsInjective(s)
          /\ t \in Seq(Files) /\ Range(t) = {"frame"} /\ IsInjective(t)
      BY <1>2, <1>3
    <2> HIDE DEF s, t
    <2>2. \A x \in Range(s) : x \notin Range(t)
      BY <2>1 DEF Payloads
    <2>3. /\ s \o t \in Seq(Files) /\ Range(s \o t) = {f, "width", "height"} \cup {"frame"}
          /\ IsInjective(s \o t)
      BY <2>1, <2>2, ConcatRange
    <2> QED BY <2>3 DEF s, t
  <1>5. /\ KittyStill \in Seq(Files) /\ Range(KittyStill) = {still, "width", "height", "frame"}
        /\ IsInjective(KittyStill)
    BY <1>1, <1>4 DEF KittyStill, StillFile, Payloads
  <1> HIDE DEF still
  <1>6. CASE Animation(request) /\ scenario.animated
    <2>1. Rendering = <<"kittyanim">> \o Sizes
      BY <1>6 DEF Rendering, Animation
    <2>2. WriteSet \ {"mtime"} = {"kittyanim", "width", "height"}
      BY <1>6 DEF WriteSet, Animation
    <2> QED BY <1>3, <2>1, <2>2 DEF Payloads
  <1>7. CASE Animation(request) /\ ~scenario.animated
    <2>1. Rendering = <<"kittyanim">> \o KittyStill
      BY <1>7 DEF Rendering, Animation
    <2>2. WriteSet \ {"mtime"} = {"kittyanim", still, "width", "height", "frame"}
      BY <1>1, <1>7 DEF WriteSet, Animation, still
    <2>3. <<"kittyanim">> \in Seq(Files) /\ Range(<<"kittyanim">>) = {"kittyanim"}
          /\ IsInjective(<<"kittyanim">>)
      BY <1>3 DEF Payloads
    <2> DEFINE s == <<"kittyanim">>
    <2>5. /\ s \in Seq(Files) /\ Range(s) = {"kittyanim"} /\ IsInjective(s)
          /\ \A x \in Range(s) : x \notin Range(KittyStill)
      BY <1>1, <1>5, <2>3
    <2> HIDE DEF s
    <2>4. /\ s \o KittyStill \in Seq(Files)
          /\ Range(s \o KittyStill) = {"kittyanim"} \cup {still, "width", "height", "frame"}
          /\ IsInjective(s \o KittyStill)
      BY <1>5, <2>5, ConcatRange
    <2> QED BY <2>1, <2>2, <2>4 DEF s
  <1>8. CASE request.type = "kitty" /\ request.frame # "animate"
    <2>1. Rendering = KittyStill
      BY <1>8 DEF Rendering, Animation
    <2>2. WriteSet \ {"mtime"} = {still, "width", "height", "frame"}
      BY <1>1, <1>8 DEF WriteSet, Animation, still
    <2> QED BY <1>5, <2>1, <2>2
  <1>9. CASE request.type = "sixel"
    <2>1. Rendering = <<"sixel">> \o Sizes \o <<"frame">>
      BY <1>9 DEF Rendering, Animation
    <2>2. WriteSet \ {"mtime"} = {"sixel", "width", "height", "frame"}
      BY <1>9 DEF WriteSet, Animation
    <2> QED BY <1>4, <2>1, <2>2 DEF Payloads
  <1>10. CASE request.type = "chafa"
    <2>1. Rendering = <<"chafa", "frame">>
      BY <1>10 DEF Rendering, Animation
    <2>2. WriteSet \ {"mtime"} = {"chafa", "frame"}
      BY <1>10 DEF WriteSet, Animation
    <2> QED BY <2>1, <2>2 DEF Range, Files, Payloads, IsInjective
  <1> QED BY <1>6, <1>7, <1>8, <1>9, <1>10 DEF Animation, Request

(* The files are written in the order in which they stand, ...                  *)
LEMMA WriteOrder ==
  ASSUME request \in Request, scenario \in Scenario,
         request.frame = "animate" => request.type = "kitty"
  PROVE  /\ ToWrite \in Seq(Files) /\ ToWrite # <<>>
         /\ Range(ToWrite) = WriteSet /\ IsInjective(ToWrite)
         /\ \A i \in DOMAIN ToWrite : ToWrite[i] = "mtime" <=> i = Len(ToWrite)
  <1>1. "mtime" \in Files /\ "mtime" \in WriteSet
    BY DEF Files, WriteSet
  <1>2. /\ Rendering \in Seq(Files) /\ "mtime" \notin Range(Rendering) /\ IsInjective(Rendering)
        /\ Range(Rendering) \cup {"mtime"} = WriteSet
    BY <1>1, RenderingFiles
  <1>3. /\ Rendering \o <<"mtime">> \in Seq(Files) /\ Rendering \o <<"mtime">> # <<>>
        /\ Range(Rendering \o <<"mtime">>) = Range(Rendering) \cup {"mtime"}
        /\ IsInjective(Rendering \o <<"mtime">>)
        /\ \A i \in DOMAIN (Rendering \o <<"mtime">>) :
             (Rendering \o <<"mtime">>)[i] = "mtime" <=> i = Len(Rendering \o <<"mtime">>)
    BY <1>1, <1>2, AppendLast
  <1> QED BY <1>2, <1>3, Zenon DEF ToWrite

(* ... one after the other, ...                                                 *)
LEMMA NextFile ==
  ASSUME todo \in Seq(Files), todo # <<>>
  PROVE  /\ Head(todo) \in Files /\ Tail(todo) \in Seq(Files)
         /\ Left = {Head(todo)} \cup Range(Tail(todo))
         /\ Head(todo) = todo[1] /\ Len(todo) \in Nat \ {0}
         /\ Len(Tail(todo)) = Len(todo) - 1
         /\ \A i \in DOMAIN Tail(todo) : Tail(todo)[i] = todo[i + 1] /\ i + 1 \in DOMAIN todo
         /\ Tail(todo) = <<>> <=> Len(todo) = 1
  <1>1. /\ Head(todo) \in Files /\ Tail(todo) \in Seq(Files)
        /\ Head(todo) = todo[1] /\ Len(todo) \in Nat \ {0}
        /\ Len(Tail(todo)) = Len(todo) - 1
        /\ \A i \in 1..Len(todo) - 1 : Tail(todo)[i] = todo[i + 1]
    OBVIOUS
  <1>2. \A i \in 1..Len(todo) : i = 1 \/ (i - 1 \in 1..Len(todo) - 1 /\ (i - 1) + 1 = i)
    BY <1>1
  <1>3. DOMAIN todo = 1..Len(todo) /\ DOMAIN Tail(todo) = 1..Len(todo) - 1
    BY <1>1
  <1>4. \A i \in 1..Len(todo) : todo[i] = Head(todo) \/ \E j \in 1..Len(todo) - 1 : Tail(todo)[j] = todo[i]
    BY <1>1, <1>2
  <1>5. \A j \in 1..Len(todo) - 1 : j + 1 \in 1..Len(todo) /\ 1 \in 1..Len(todo)
    BY <1>1
  <1>6. Left \subseteq {Head(todo)} \cup Range(Tail(todo))
    BY <1>3, <1>4 DEF Left, Range
  <1>7. {Head(todo)} \cup Range(Tail(todo)) \subseteq Left
    BY <1>1, <1>3, <1>5 DEF Left, Range
  <1>8. \A i \in DOMAIN Tail(todo) : Tail(todo)[i] = todo[i + 1] /\ i + 1 \in DOMAIN todo
    BY <1>1, <1>3, <1>5
  <1>9. Tail(todo) = <<>> <=> Len(todo) = 1
    <2>1. Tail(todo) = <<>> <=> Len(Tail(todo)) = 0
      BY <1>1, EmptySeq
    <2> QED BY <1>1, <2>1
  <1> QED BY <1>1, <1>6, <1>7, <1>8, <1>9

(* ... and what a rendering removes are all of them.                            *)
LEMMA RemovalFiles ==
  /\ Removal \in Seq(Files) /\ Range(Removal) = Files /\ Head(Removal) = "mtime"
  /\ Removal # <<>>
  BY DEF Removal, Range, Files, Payloads

(* What is read of a file.                                                      *)
LEMMA ContentFacts ==
  /\ Absent # Torn /\ Absent.version = 0 /\ Torn.version = 0
  /\ Absent.state = "absent" /\ Torn.state = "torn"
  /\ Absent.frame = "first" /\ Torn.frame = "first"
  /\ \A v, fr : /\ Written(v, fr).state = "whole" /\ Written(v, fr).version = v
                /\ Written(v, fr).frame = fr
                /\ Written(v, fr) # Absent /\ Written(v, fr) # Torn
  /\ \A f : Content(f) => /\ f.version \in Nat /\ f.frame \in Frames
                          /\ f.state = "absent" <=> f = Absent
                          /\ f.state = "torn" <=> f = Torn
                          /\ f.state = "whole" <=> f \notin {Absent, Torn}
                          /\ f.state = "whole" => f = Written(f.version, f.frame)
  <1>1. /\ Absent # Torn /\ Absent.version = 0 /\ Torn.version = 0
        /\ Absent.state = "absent" /\ Torn.state = "torn"
        /\ Absent.frame = "first" /\ Torn.frame = "first"
    BY DEF Absent, Torn
  <1>2. \A v, fr : /\ Written(v, fr).state = "whole" /\ Written(v, fr).version = v
                   /\ Written(v, fr).frame = fr
                   /\ Written(v, fr) # Absent /\ Written(v, fr) # Torn
    BY DEF Written, Absent, Torn
  <1>3. ASSUME NEW f, Content(f)
        PROVE  /\ f.version \in Nat /\ f.frame \in Frames
               /\ f.state = "absent" <=> f = Absent
               /\ f.state = "torn" <=> f = Torn
               /\ f.state = "whole" <=> f \notin {Absent, Torn}
               /\ f.state = "whole" => f = Written(f.version, f.frame)
    <2>1. CASE f = Absent
      BY <1>1, <2>1 DEF Frames
    <2>2. CASE f = Torn
      BY <1>1, <2>2 DEF Frames
    <2>3. CASE \E v \in Nat, fr \in Frames : f = Written(v, fr)
      <3>1. PICK v \in Nat, fr \in Frames : f = Written(v, fr)
        BY <2>3
      <3> QED BY <1>2, <3>1
    <2> QED BY <1>3, <2>1, <2>2, <2>3 DEF Content
  <1> QED BY <1>1, <1>2, <1>3

(* The values of the files, and of the versions, that the steps start from.     *)
LEMMA FileFacts ==
  ASSUME ImageTypes
  PROVE  /\ \A f \in Files : /\ Content(files[f]) /\ files[f].version \in Nat
                             /\ files[f].frame \in Frames
         /\ Payloads \subseteq Files /\ Stills \subseteq Payloads
         /\ {"mtime", "width", "height", "frame"} \subseteq Files
         /\ "kittyanim" \in Payloads /\ {"mtime", "width", "height", "frame"} \cap Payloads = {}
  BY ContentFacts DEF ImageTypes, Files, Payloads, Stills

(* The cache is empty, and nothing was shown from it.                           *)
LEMMA CacheInitInv == ASSUME InitCache PROVE CacheInv
  <1> USE DEF InitCache
  <1>1. /\ scenario \in Scenario /\ request \in Request /\ scenario.requests \subseteq Request
    BY ScenariosAssumption DEF Scenario
  <1>2. DOMAIN files = Files /\ \A f \in Files : files[f] = Absent
    OBVIOUS
  <1>3. \A f \in Payloads \cup {"mtime", "width", "height", "frame"} : files[f] = Absent
    BY <1>2 DEF Files
  <1>4. Absent.version = 0
    BY DEF Absent
  <1>5. ImageTypes
    BY <1>1, <1>2, <1>3, <1>4 DEF ImageTypes, Content
  <1>6. Progress
    BY DEF Progress, Writing
  <1>7. VersionsRight
    BY <1>3, <1>4 DEF VersionsRight, Writing
  <1>8. FramesRight
    BY <1>3, <1>4 DEF FramesRight, Writing, Payloads
  <1>9. MadeThere
    BY <1>3 DEF MadeThere, Payloads
  <1> QED
    BY <1>5, <1>6, <1>7, <1>8, <1>9 DEF CacheInv, ShownRight, MissesJustified

(* The steps of a run, and what happens to the image meanwhile, keep CacheInv:  *)
(* a run starts, ...                                                            *)
LEMMA StartRunInv ==
  ASSUME CacheInv, NEW r \in scenario.requests, StartRun(r) PROVE CacheInv'
  <1> USE DEF CacheInv
  <1>1. /\ pc = "idle" /\ UNCHANGED <<scenario, source, files, astray, picture, made>>
        /\ request' = r /\ sourceMtime' \in {source, 0} /\ fromCache' = None
        /\ pc' \in {"look", "clean", "decode"}
    BY DEF StartRun, disk, ToClean, ToDecode
  <1>2. /\ pc' = "look" => r.cache = "on" /\ sourceMtime' # 0
        /\ pc' = "clean" => todo' = Removal /\ (r.cache = "on" => sourceMtime' = 0)
        /\ pc' = "decode" => r.cache = "off"
        /\ todo' \in {<<>>, Removal}
    BY DEF StartRun, ToClean, ToDecode
  <1>3. r \in Request /\ r.cache \in {"on", "off", "regen"}
    BY DEF ImageTypes, Request
  <1>4. ~Writing /\ ~Writing'
    BY <1>1 DEF Writing
  <1>5. ImageTypes'
    <2>1. <<>> \in Seq(Files) /\ Removal \in Seq(Files)
      BY RemovalFiles
    <2>3. todo' = <<>> \/ todo' = Removal
      BY <1>2
    <2>4. todo' \in Seq(Files)
      BY <2>1, <2>3, Zenon
    <2>2. sourceMtime' \in Nat /\ sourceMtime' <= source
      BY <1>1 DEF ImageTypes
    <2> QED BY <1>1, <1>2, <1>3, <2>4, <2>2 DEF ImageTypes
  <1>6. Progress'
    BY <1>1, <1>2, <1>4, RemovalFiles DEF Progress, Left
  <1>7. VersionsRight'
    BY <1>1, <1>2, <1>4 DEF VersionsRight, Right
  <1>8. FramesRight'
    BY <1>1, <1>4 DEF FramesRight, Recorded
  <1>9. MadeThere'
    BY <1>1, <1>4 DEF MadeThere, There, PayloadOf, StillFile, Filling
  <1>10. ShownRight' /\ MissesJustified'
    BY <1>1, <1>2 DEF ShownRight, MissesJustified
  <1> QED BY <1>5, <1>6, <1>7, <1>8, <1>9, <1>10

(* ... the image is replaced by another version, ...                            *)
LEMMA EditInv == ASSUME CacheInv, Edit PROVE CacheInv'
  <1> USE DEF CacheInv
  <1>1. /\ source' = source + 1
        /\ UNCHANGED <<scenario, files, astray, pc, request, sourceMtime, picture, todo,
                       fromCache, made>>
    BY DEF Edit, run
  <1>2. /\ source \in Nat /\ sourceMtime \in Nat /\ files["mtime"].version <= source
        /\ sourceMtime <= source /\ picture \in Nat /\ picture <= source
        /\ files["mtime"].version \in Nat
    BY FileFacts DEF ImageTypes
  <1>3. source' \in Nat \ {0} /\ files["mtime"].version # source' /\ sourceMtime # source'
        /\ sourceMtime <= source' /\ picture <= source' /\ files["mtime"].version <= source'
    BY <1>1, <1>2
  <1>4. Writing' = Writing /\ Left' = Left /\ \A f \in Files : Filling(f)' = Filling(f)
    BY <1>1 DEF Writing, Left, Filling
  <1>5. ImageTypes'
    BY <1>1, <1>3 DEF ImageTypes
  <1>6. Progress'
    BY <1>1, <1>4 DEF Progress, WriteSet, StillFile, Animation
  <1>7. VersionsRight'
    BY <1>1, <1>3 DEF VersionsRight, Right
  <1>8. FramesRight'
    BY <1>1, <1>4 DEF FramesRight, Recorded, Rendered, Filling, ToWrite, Rendering, KittyStill
  <1>9. MadeThere'
    BY <1>1, <1>4 DEF MadeThere, There, PayloadOf, StillFile, Filling
  <1>10. ShownRight' /\ MissesJustified'
    BY <1>1 DEF ShownRight, MissesJustified
  <1> QED BY <1>5, <1>6, <1>7, <1>8, <1>9, <1>10

(* What a run writes into the cache, and what is left of it.                    *)
LEMMA WritingFacts ==
  ASSUME ImageTypes, Progress, Writing
  PROVE  /\ Range(ToWrite) = WriteSet /\ "mtime" \in WriteSet
         /\ WriteSet \subseteq Files
         /\ (IF scenario.zlib THEN "kittyu" ELSE "kittyc") \notin WriteSet
         /\ "kittyanim" \in WriteSet => request.frame = "animate"
         /\ \A f \in Stills : f \in WriteSet => "frame" \in WriteSet
         /\ PayloadOf(request) \in WriteSet
         /\ request.type # "chafa" => {"width", "height"} \subseteq WriteSet
         /\ request.frame # "animate" => "frame" \in WriteSet
         /\ todo = <<>> => Left = {}
         /\ todo # <<>> => "mtime" \in Left
         /\ todo # <<>> /\ Head(todo) = "mtime" => Tail(todo) = <<>>
         /\ todo # <<>> => Head(todo) \notin Range(Tail(todo)) /\ Head(todo) \in WriteSet
         /\ Rendered \subseteq WriteSet /\ Rendered \cap Left = {}
         /\ \A f \in WriteSet \cap Payloads : f \in Left \/ f \in Rendered
  <1>1. request \in Request /\ scenario \in Scenario /\ todo \in Seq(Files)
    BY DEF ImageTypes
  <1>2. /\ request.frame = "animate" => request.type = "kitty"
        /\ IsInjective(todo) /\ Left \subseteq WriteSet
        /\ \A i \in DOMAIN todo : todo[i] = "mtime" <=> i = Len(todo)
    BY DEF Progress
  <1>3. /\ Range(ToWrite) = WriteSet /\ "mtime" \in WriteSet
    BY <1>1, <1>2, WriteOrder DEF WriteSet
  <1>4. request.type \in {"sixel", "kitty", "chafa"} /\ request.frame \in {"first", "other", "animate"}
    BY <1>1 DEF Request
  <1>5. /\ WriteSet \subseteq Files
        /\ (IF scenario.zlib THEN "kittyu" ELSE "kittyc") \notin WriteSet
        /\ "kittyanim" \in WriteSet => request.frame = "animate"
        /\ \A f \in Stills : f \in WriteSet => "frame" \in WriteSet
    BY <1>2, <1>4 DEF WriteSet, StillFile, Animation, Files, Payloads, Stills
  <1>6. /\ PayloadOf(request) \in WriteSet
        /\ request.type # "chafa" => {"width", "height"} \subseteq WriteSet
        /\ request.frame # "animate" => "frame" \in WriteSet
    BY <1>2, <1>4 DEF WriteSet, StillFile, Animation, PayloadOf
  <1>7. todo = <<>> => Left = {}
    BY DEF Left, Range
  <1>8. ASSUME todo # <<>>
        PROVE  /\ "mtime" \in Left
               /\ Head(todo) = "mtime" => Tail(todo) = <<>>
               /\ Head(todo) \notin Range(Tail(todo)) /\ Head(todo) \in WriteSet
    <2>1. /\ Head(todo) = todo[1] /\ Len(todo) \in Nat \ {0} /\ Left = {Head(todo)} \cup Range(Tail(todo))
          /\ \A i \in DOMAIN Tail(todo) : Tail(todo)[i] = todo[i + 1] /\ i + 1 \in DOMAIN todo
          /\ Tail(todo) = <<>> <=> Len(todo) = 1 /\ Len(Tail(todo)) = Len(todo) - 1
          /\ Tail(todo) \in Seq(Files)
      BY <1>1, <1>8, NextFile
    <2>2. DOMAIN todo = 1..Len(todo) /\ DOMAIN Tail(todo) = 1..Len(Tail(todo))
      BY <1>1, <2>1
    <2>3. Len(todo) \in DOMAIN todo /\ 1 \in DOMAIN todo
      BY <2>1, <2>2
    <2>4. todo[Len(todo)] = "mtime"
      BY <1>2, <2>3
    <2>5. "mtime" \in Left
      BY <2>3, <2>4 DEF Left, Range
    <2>6. Head(todo) = "mtime" => Len(todo) = 1
      BY <1>2, <2>1, <2>3
    <2>7. \A i \in DOMAIN Tail(todo) : i + 1 # 1
      BY <2>2, <2>1
    <2>8. \A i \in DOMAIN Tail(todo) : Tail(todo)[i] # Head(todo)
      BY <1>2, <2>1, <2>3, <2>7 DEF IsInjective
    <2>9. Head(todo) \notin Range(Tail(todo))
      BY <2>8 DEF Range
    <2> QED BY <1>2, <2>1, <2>5, <2>6, <2>9
  <1>9. /\ Rendered \subseteq WriteSet /\ Rendered \cap Left = {}
        /\ \A f \in WriteSet \cap Payloads : f \in Left \/ f \in Rendered
    BY <1>3 DEF Rendered, Left
  <1> QED BY <1>3, <1>5, <1>6, <1>7, <1>8, <1>9

(* What a payload may hold, of pixels and of characters.                        *)
LEMMA PayloadFacts ==
  ASSUME ImageTypes
  PROVE  /\ Payload \in Payloads
         /\ Animation(request) => Payload = "kittyanim"
         /\ ~Animation(request) => Payload \in Stills
         /\ request.type # "kitty" => Payload = request.type
         /\ request.type = "kitty" /\ ~Animation(request) =>
              Payload = IF files["kittyc"] # Absent THEN "kittyc" ELSE "kittyu"
  <1>1. request.type \in {"sixel", "kitty", "chafa"}
    BY DEF ImageTypes, Request
  <1>2. CASE Animation(request)
    BY <1>1, <1>2 DEF Payload, Animation, Payloads
  <1>3. CASE request.type = "kitty" /\ request.frame # "animate"
    BY <1>1, <1>3 DEF Payload, Animation, Payloads, Stills
  <1>4. CASE request.type # "kitty"
    <2>1. Payload = request.type
      BY <1>4 DEF Payload, Animation
    <2> QED BY <1>1, <1>4, <2>1 DEF Animation, Payloads, Stills
  <1> QED BY <1>2, <1>3, <1>4 DEF Animation

(* ... a run shows what the cache holds, ...                                    *)
LEMMA HitInv == ASSUME CacheInv, Hit PROVE CacheInv'
  <1> USE DEF CacheInv
  <1>1. /\ pc = "look" /\ pc' = "idle" /\ Entry /\ Usable
        /\ UNCHANGED <<scenario, source, files, astray, request, sourceMtime, picture, todo, made>>
        /\ fromCache' = [payload |-> files[Payload], astray |-> Payload \in astray,
                         request |-> request, mtime |-> sourceMtime]
    BY DEF Hit, disk, run
  <1>2. ~Writing /\ ~Writing' /\ Left' = Left
    BY <1>1 DEF Writing, Left
  <1>3. ImageTypes'
    BY <1>1 DEF ImageTypes
  <1>4. Progress'
    BY <1>1, <1>2 DEF Progress
  <1>5. VersionsRight'
    BY <1>1, <1>2 DEF VersionsRight, Right
  <1>6. FramesRight'
    BY <1>1, <1>2 DEF FramesRight, Recorded
  <1>7. MadeThere'
    BY <1>1, <1>2 DEF MadeThere, There, PayloadOf, StillFile, Filling
  <1>8. MissesJustified'
    BY <1>1 DEF MissesJustified
  <1>9. ShownRight'
    <2>1. Payload \in Payloads /\ Payload \in Files /\ Content(files[Payload])
      BY PayloadFacts, FileFacts
    <2>2. /\ files["mtime"].version = sourceMtime /\ sourceMtime # 0 /\ files[Payload] # Absent
          /\ Animation(request) \/ request.frame = files["frame"].frame
          /\ files[Payload] = Torn => ~Animation(request)
      BY <1>1 DEF Entry, Unchanged, FrameRight, Usable, ImageTypes
    <2>3. Payload \notin astray =>
            files[Payload].state = "whole" /\ files[Payload].version = sourceMtime
      BY <1>1, <2>1, <2>2 DEF VersionsRight, Right
    <2>4. Payload \notin astray => files[Payload].frame = request.frame
      <3>1. CASE Animation(request)
        BY <2>2, <3>1, PayloadFacts DEF FramesRight, Animation
      <3>2. CASE ~Animation(request)
        BY <1>2, <2>2, <3>2, PayloadFacts DEF FramesRight, Recorded
      <3> QED BY <3>1, <3>2
    <2>5. Payload \notin astray => files[Payload] = Written(sourceMtime, request.frame)
      BY <2>1, <2>3, <2>4, ContentFacts
    <2>6. /\ fromCache'.payload = files[Payload] /\ fromCache'.astray = (Payload \in astray)
          /\ fromCache'.request = request /\ fromCache'.mtime = sourceMtime
      BY <1>1
    <2> QED BY <2>5, <2>6 DEF ShownRight
  <1> QED BY <1>3, <1>4, <1>5, <1>6, <1>7, <1>8, <1>9

(* ... or finds nothing it may show, ...                                        *)
LEMMA MissInv == ASSUME CacheInv, Miss PROVE CacheInv'
  <1> USE DEF CacheInv
  <1>1. /\ pc = "look" /\ Rejected /\ pc' \in {"clean", "decode"}
        /\ UNCHANGED <<scenario, source, files, astray, request, sourceMtime, picture, fromCache, made>>
        /\ pc' = "clean" => todo' = Removal
        /\ pc' = "decode" => todo' = <<>> /\ files["mtime"].version = sourceMtime
    BY DEF Miss, disk, run, ToClean, ToDecode, Unchanged
  <1>2. ~Writing /\ ~Writing' /\ sourceMtime # 0
    BY <1>1 DEF Writing, ImageTypes
  <1>3. ImageTypes'
    <2>1. <<>> \in Seq(Files) /\ Removal \in Seq(Files)
      BY RemovalFiles
    <2>2. todo' = <<>> \/ todo' = Removal
      BY <1>1
    <2>3. todo' \in Seq(Files)
      BY <2>1, <2>2, Zenon
    <2> QED BY <1>1, <2>3 DEF ImageTypes
  <1>4. Progress'
    BY <1>1, <1>2, RemovalFiles DEF Progress, Left
  <1>5. VersionsRight'
    BY <1>1, <1>2 DEF VersionsRight, Right
  <1>6. FramesRight'
    BY <1>1, <1>2 DEF FramesRight, Recorded
  <1>7. MadeThere'
    BY <1>1, <1>2 DEF MadeThere, There, PayloadOf, StillFile, Filling
  <1>8. MissesJustified'
    <2> DEFINE x == [type |-> request.type, frame |-> request.frame, version |-> sourceMtime]
    <2>1. x.type = request.type /\ x.frame = request.frame /\ x.version = sourceMtime
      OBVIOUS
    <2> HIDE DEF x
    <2>2. SUFFICES ASSUME x \in made PROVE FALSE
      BY <1>1 DEF MissesJustified, x
    <2>3. /\ There(x) /\ (x.frame = "animate" => x.type = "kitty")
          /\ x.version = files["mtime"].version
          /\ x.frame = "animate" \/ x.frame = files["frame"].frame
      BY <1>1, <1>2, <2>2 DEF MadeThere
    <2>4. \A f : ~Filling(f)
      BY <1>1 DEF Filling
    <2>5. /\ files[PayloadOf(x)].state = "whole"
          /\ x.type # "chafa" => files["width"].version # 0 /\ files["height"].version # 0
      BY <2>3, <2>4 DEF There
    <2>6. PayloadOf(x) = Payload
      <3>1. CASE Animation(request)
        BY <2>1, <3>1, PayloadFacts DEF PayloadOf, Animation
      <3>2. CASE request.type = "kitty" /\ ~Animation(request)
        <4>1. PayloadOf(x) = StillFile
          BY <2>1, <3>2 DEF PayloadOf, Animation
        <4>2. Payload = IF files["kittyc"] # Absent THEN "kittyc" ELSE "kittyu"
          BY <3>2, PayloadFacts
        <4>3. files[IF scenario.zlib THEN "kittyu" ELSE "kittyc"] = Absent
          BY DEF MadeThere
        <4>4. files[StillFile] # Absent
          BY <2>5, <4>1, ContentFacts
        <4> QED BY <4>1, <4>2, <4>3, <4>4 DEF StillFile
      <3>3. CASE request.type # "kitty"
        BY <2>1, <3>3, PayloadFacts DEF PayloadOf
      <3> QED BY <3>1, <3>2, <3>3
    <2>7. files[Payload] \notin {Absent, Torn}
      BY <2>5, <2>6, ContentFacts
    <2>8. Entry
      BY <2>1, <2>3, <2>5, <2>7 DEF Entry, Unchanged, SizeKnown, FrameRight, Animation
    <2>9. Usable
      BY <2>7 DEF Usable
    <2> QED BY <1>1, <2>7, <2>8, <2>9 DEF Rejected
  <1>9. ShownRight'
    BY <1>1 DEF ShownRight
  <1> QED BY <1>3, <1>4, <1>5, <1>6, <1>7, <1>8, <1>9

(* ... removes what it will replace, ...                                        *)
LEMMA RemoveInv == ASSUME CacheInv, RemoveCachedFiles PROVE CacheInv'
  <1> USE DEF CacheInv
  <1>1. /\ pc = "clean" /\ ~Writing /\ ~Writing'
        /\ UNCHANGED <<scenario, source, request, sourceMtime, picture, fromCache>>
    BY DEF RemoveCachedFiles, run, Writing, ToDecode
  <1>2. ShownRight'
    BY <1>1 DEF ShownRight
  <1>3. CASE todo = <<>>
    <2>1. pc' = "decode" /\ todo' = <<>> /\ UNCHANGED <<files, astray, made>>
      BY <1>3 DEF RemoveCachedFiles, ToDecode
    <2>2. Left = {}
      BY <1>3 DEF Left, Range
    <2>3. made = {} /\ \A f \in Files : files[f] = Absent
      BY <1>1, <1>3, <2>2, RemovalFiles DEF Progress
    <2>4. ImageTypes'
      <3>1. todo' \in Seq(Files)
        BY <2>1
      <3> QED BY <1>1, <2>1, <3>1 DEF ImageTypes
    <2>5. Progress'
      BY <1>1, <2>1, <2>3 DEF Progress
    <2>6. VersionsRight' /\ FramesRight'
      BY <1>1, <2>1 DEF VersionsRight, Right, FramesRight, Recorded
    <2>7. MadeThere' /\ MissesJustified'
      BY <1>1, <2>1, <2>3 DEF MadeThere, MissesJustified
    <2> QED BY <1>2, <2>4, <2>5, <2>6, <2>7
  <1>4. CASE todo # <<>>
    <2> DEFINE h == Head(todo)
    <2>1. /\ files' = [files EXCEPT ![h] = Absent] /\ astray' = astray \ {h}
          /\ todo' = Tail(todo) /\ made' = {} /\ pc' = "clean"
      BY <1>1, <1>4 DEF RemoveCachedFiles
    <2>2. h \in Files /\ Tail(todo) \in Seq(Files) /\ Left = {h} \cup Range(Tail(todo))
      BY <1>4, NextFile DEF ImageTypes
    <2> HIDE DEF h
    <2>3. DOMAIN files' = Files /\ \A f \in Files : files'[f] = IF f = h THEN Absent ELSE files[f]
      BY <2>1, <2>2 DEF ImageTypes
    <2>4. h = "mtime" \/ files["mtime"] = Absent
      BY <1>1, RemovalFiles DEF Progress, h
    <2>5. files'["mtime"] = Absent /\ files'["mtime"].version = 0 /\ source # 0
      BY <2>3, <2>4, FileFacts, ContentFacts DEF ImageTypes
    <2>6. ImageTypes'
      <3>1. \A f \in Files : Content(files'[f])
        BY <2>3, FileFacts DEF Content
      <3>2. source \in Nat /\ 0 <= source
        BY DEF ImageTypes
      <3> QED BY <1>1, <2>1, <2>2, <2>3, <2>5, <3>1, <3>2 DEF ImageTypes
    <2>7. Progress'
      <3>1. \A f \in Files : files'[f] = Absent \/ f \in Left'
        BY <1>1, <2>1, <2>2, <2>3 DEF Progress, Left
      <3> QED BY <1>1, <2>1, <2>5, <3>1 DEF Progress
    <2>8. VersionsRight'
      BY <1>1, <2>1, <2>5 DEF VersionsRight
    <2>9. FramesRight'
      BY <1>1, <2>3, <2>5, FileFacts DEF FramesRight
    <2>10. MadeThere' /\ MissesJustified'
      BY <1>1, <2>1, <2>3 DEF MadeThere, MissesJustified, Files, Payloads
    <2> QED BY <1>2, <2>6, <2>7, <2>8, <2>9, <2>10
  <1> QED BY <1>3, <1>4

(* ... cannot read the image ...                                                *)
LEMMA DecodeFailsInv == ASSUME CacheInv, DecodeFails PROVE CacheInv'
  <1> USE DEF CacheInv
  <1>1. /\ pc = "decode" /\ pc' = "idle" /\ ~Writing /\ ~Writing'
        /\ UNCHANGED <<scenario, source, files, astray, request, sourceMtime, picture, todo,
                       fromCache, made>>
    BY DEF DecodeFails, disk, run, Writing
  <1>2. ImageTypes' /\ Progress'
    BY <1>1 DEF ImageTypes, Progress
  <1>3. VersionsRight' /\ FramesRight'
    BY <1>1 DEF VersionsRight, Right, FramesRight, Recorded
  <1>4. MadeThere'
    BY <1>1 DEF MadeThere, There, PayloadOf, StillFile, Filling
  <1>5. ShownRight' /\ MissesJustified'
    BY <1>1 DEF ShownRight, MissesJustified
  <1> QED BY <1>2, <1>3, <1>4, <1>5

(* ... or renders it, ...                                                       *)
LEMMA DecodeInv == ASSUME CacheInv, Decode PROVE CacheInv'
  <1> USE DEF CacheInv
  <1>1. /\ pc = "decode" /\ pc' = "write" /\ picture' = source /\ ~Writing
        /\ request.frame = "animate" => request.type = "kitty"
        /\ UNCHANGED <<scenario, source, files, astray, request, sourceMtime, fromCache, made>>
        /\ request.cache = "off" => todo' = <<>>
        /\ request.cache # "off" => todo' = ToWrite
    BY DEF Decode, disk, Writing
  <1>2. request \in Request /\ scenario \in Scenario
    BY DEF ImageTypes
  <1>3. /\ ToWrite \in Seq(Files) /\ ToWrite # <<>> /\ Range(ToWrite) = WriteSet
        /\ IsInjective(ToWrite)
        /\ \A i \in DOMAIN ToWrite : ToWrite[i] = "mtime" <=> i = Len(ToWrite)
    BY <1>1, <1>2, WriteOrder
  <1>4. source \in Nat \ {0} /\ sourceMtime \in Nat /\ sourceMtime <= source
    BY DEF ImageTypes
  <1>5. request.cache # "off" =>
          \/ files["mtime"].version = sourceMtime /\ sourceMtime # 0
          \/ made = {} /\ \A f \in Files : files[f] = Absent
    BY <1>1 DEF Progress
  <1>6. WriteSet' = WriteSet
    BY <1>1 DEF WriteSet, Animation, StillFile
  <1>7. ShownRight' /\ MissesJustified'
    BY <1>1 DEF ShownRight, MissesJustified
  <1>8. ImageTypes'
    <2>1. <<>> \in Seq(Files)
      OBVIOUS
    <2>2. todo' \in Seq(Files)
      BY <1>1, <1>3, <2>1
    <2>3. source <= source
      BY <1>4
    <2> QED BY <1>1, <1>4, <2>2, <2>3 DEF ImageTypes
  <1>9. MadeThere'
    BY <1>1 DEF MadeThere, There, PayloadOf, StillFile, Filling, Writing
  <1>10. CASE request.cache = "off"
    <2>1. ~Writing'
      BY <1>1, <1>10 DEF Writing
    <2>2. Progress'
      BY <1>1, <1>10, <2>1 DEF Progress
    <2>3. VersionsRight' /\ FramesRight'
      BY <1>1, <2>1 DEF VersionsRight, Right, FramesRight, Recorded
    <2> QED BY <1>7, <1>8, <1>9, <2>2, <2>3
  <1>11. CASE request.cache # "off"
    <2>1. Writing' /\ todo' = ToWrite /\ Left' = WriteSet
      BY <1>1, <1>3, <1>11 DEF Writing, Left
    <2>2. Progress'
      <3>1. files["mtime"].version \in {0, sourceMtime}
        BY <1>5, <1>11, FileFacts, ContentFacts
      <3>2. sourceMtime' <= picture' /\ picture' # 0
        BY <1>1, <1>4
      <3> QED BY <1>1, <1>3, <1>6, <1>11, <2>1, <3>1, <3>2 DEF Progress
    <2>3. VersionsRight'
      <3>1. ASSUME sourceMtime = source, NEW f \in Payloads PROVE Right(f, source)
        BY <1>1, <1>5, <1>11, <3>1, FileFacts DEF VersionsRight, Right
      <3> QED BY <1>1, <2>1, <3>1 DEF VersionsRight, Right
    <2>4. FramesRight'
      <3>1. ASSUME NEW f \in Stills PROVE Recorded(f)
        BY <1>1, <1>5, <1>11, FileFacts DEF FramesRight, Recorded
      <3>2. ASSUME NEW f \in Stills, files["mtime"].version = 0 PROVE files[f] = Absent
        BY <1>1, <1>5, <1>11, <3>2, FileFacts
      <3> QED BY <1>1, <2>1, <3>1, <3>2 DEF FramesRight, Filling, Recorded
    <2> QED BY <1>7, <1>8, <1>9, <2>2, <2>3, <2>4
  <1> QED BY <1>10, <1>11

(* ... empties a file ...                                                       *)
LEMMA TruncateInv == ASSUME CacheInv, Truncate PROVE CacheInv'
  <1> USE DEF CacheInv
  <1> DEFINE h == Head(todo)
  <1>1. /\ pc = "write" /\ pc' = "fill" /\ todo # <<>> /\ request.cache # "off"
        /\ files' = [files EXCEPT ![h] = Torn] /\ astray' = astray \cup Outdated
        /\ UNCHANGED <<scenario, source, request, sourceMtime, picture, todo, fromCache, made>>
    BY DEF Truncate, run, Progress
  <1>2. Writing /\ Writing' /\ Left' = Left /\ WriteSet' = WriteSet /\ Rendered' = Rendered
    BY <1>1 DEF Writing, Left, WriteSet, Animation, StillFile, Rendered, ToWrite, Rendering, KittyStill
  <1>3. h \in Files /\ h \in Left /\ h \in WriteSet
    BY <1>1, <1>2, NextFile, WritingFacts DEF ImageTypes
  <1>4. /\ \A f : ~Filling(f)
        /\ \A f : Filling(f)' <=> f = h
    BY <1>1 DEF Filling
  <1> HIDE DEF h
  <1>5. DOMAIN files' = Files /\ \A f \in Files : files'[f] = IF f = h THEN Torn ELSE files[f]
    BY <1>1, <1>3 DEF ImageTypes
  <1>6. files'["mtime"].version = IF h = "mtime" THEN 0 ELSE files["mtime"].version
    BY <1>5, FileFacts, ContentFacts
  <1>7. ShownRight' /\ MissesJustified'
    BY <1>1 DEF ShownRight, MissesJustified
  <1>8. ImageTypes'
    <2>1. \A f \in Files : Content(files'[f])
      BY <1>5, FileFacts DEF Content
    <2>2. files'["mtime"].version <= source
      BY <1>6 DEF ImageTypes
    <2> QED BY <1>1, <1>5, <2>1, <2>2 DEF ImageTypes
  <1>9. Progress'
    <2>1. files'[h] = Torn /\ \A f \in WriteSet \ Left : files'[f] = files[f]
      BY <1>2, <1>3, <1>5, WritingFacts
    <2>2. files'["mtime"].version \in {0, sourceMtime}
      BY <1>2, <1>6 DEF Progress
    <2> QED BY <1>1, <1>2, <2>1, <2>2 DEF Progress, h
  <1>10. VersionsRight'
    <2>1. ASSUME sourceMtime = source, NEW f \in Payloads PROVE Right(f, source)' \/ Filling(f)'
      BY <1>1, <1>2, <1>4, <1>5, <2>1, FileFacts DEF VersionsRight, Right
    <2> QED BY <1>1, <1>2, <2>1 DEF VersionsRight
  <1>11. FramesRight'
    <2>1. files'["kittyanim"] \in {Absent, Torn} \/ files'["kittyanim"].frame = "animate"
      BY <1>5, FileFacts DEF FramesRight
    <2>2. ASSUME NEW f \in Stills \ Rendered, f # h
          PROVE  Recorded(f) /\ files'[f] = files[f] /\ f \in Files
      BY <1>2, <1>4, <1>5, <2>2, FileFacts DEF FramesRight
    <2>3. ASSUME NEW f \in Stills \ Rendered, f # h, h # "frame" PROVE Recorded(f)'
      BY <1>1, <1>5, <2>2, <2>3, FileFacts DEF Recorded
    <2>4. ASSUME "frame" \in Left, files'["mtime"].version = 0, NEW f \in Stills \ Rendered, f # h
          PROVE  files'[f] = Absent
      <3>1. h # "mtime"
        <4>1. h = "mtime" => Left = {"mtime"}
          <5>1. h = "mtime" => Tail(todo) = <<>>
            BY <1>1, <1>2, WritingFacts DEF h
          <5>2. Left = {h} \cup Range(Tail(todo))
            BY <1>1, NextFile DEF ImageTypes, h
          <5>3. Range(<<>>) = {}
            BY DEF Range
          <5> QED BY <5>1, <5>2, <5>3
        <4> QED BY <2>4, <4>1
      <3> QED BY <1>2, <1>4, <1>6, <2>2, <2>4, <3>1 DEF FramesRight
    <2>5. ASSUME NEW f \in Stills \ Rendered, f # h, h = "frame",
                 files'[f] # Absent, f \notin astray'
          PROVE  files'[f].frame = request.frame
      <3>1. CASE OtherFrame
        <4>1. "frame" \in Left
          BY <1>3, <2>5
        <4>2. files["mtime"].version # 0
          BY <1>2, <1>4, <2>2, <2>5, <4>1 DEF FramesRight
        <4>3. "mtime" \in Left
          BY <1>1, <1>2, WritingFacts
        <4>4. f \in Outdated
          BY <2>5, <3>1, <4>2, <4>3 DEF Outdated, Beside, Left, h
        <4> QED BY <1>1, <2>5, <4>4
      <3>2. CASE ~OtherFrame
        <4>1. files["frame"].frame = request.frame
          BY <1>3, <2>5, <3>2 DEF OtherFrame, Left
        <4> QED BY <1>1, <2>2, <2>5, <4>1 DEF Recorded
      <3> QED BY <3>1, <3>2
    <2> QED BY <1>1, <1>2, <1>4, <2>1, <2>3, <2>4, <2>5 DEF FramesRight
  <1>12. MadeThere'
    <2>1. files'[IF scenario.zlib THEN "kittyu" ELSE "kittyc"] = Absent
      BY <1>2, <1>3, <1>5, WritingFacts DEF MadeThere, Files, Payloads
    <2>2. ASSUME NEW x \in made PROVE There(x)'
      <3>1. There(x) /\ x.type \in {"sixel", "kitty", "chafa"}
        BY <1>1, <2>2 DEF MadeThere
      <3>2. PayloadOf(x)' = PayloadOf(x) /\ PayloadOf(x) \in Files
        BY <1>1, <3>1 DEF PayloadOf, StillFile, Files, Payloads
      <3> QED BY <1>4, <1>5, <3>1, <3>2, FileFacts DEF There
    <2> QED BY <1>1, <1>2, <2>1, <2>2 DEF MadeThere
  <1> QED BY <1>7, <1>8, <1>9, <1>10, <1>11, <1>12

(* ... and fills it, ...                                                        *)
LEMMA FillInv == ASSUME CacheInv, Fill PROVE CacheInv'
  <1> USE DEF CacheInv
  <1> DEFINE h == Head(todo)
             version == IF h = "mtime" THEN sourceMtime ELSE picture
  <1>1. /\ pc = "fill" /\ pc' = "write" /\ todo # <<>> /\ request.cache # "off"
        /\ files' = [files EXCEPT ![h] = Written(version, request.frame)]
        /\ astray' = astray \ {h} /\ todo' = Tail(todo)
        /\ UNCHANGED <<scenario, source, request, sourceMtime, picture, fromCache, made>>
    BY DEF Fill, run, Progress
  <1>2. Writing /\ Writing' /\ WriteSet' = WriteSet /\ ToWrite' = ToWrite
    BY <1>1 DEF Writing, WriteSet, Animation, StillFile, ToWrite, Rendering, KittyStill
  <1>3. /\ h \in Files /\ h \in WriteSet /\ h \notin Left' /\ Left = {h} \cup Left'
        /\ Tail(todo) \in Seq(Files)
        /\ h = "mtime" => Left' = {}
    <2>1. h \in Files /\ Tail(todo) \in Seq(Files) /\ Left = {h} \cup Range(Tail(todo))
      BY <1>1, NextFile DEF ImageTypes
    <2>2. /\ h \in WriteSet /\ h \notin Range(Tail(todo))
          /\ h = "mtime" => Tail(todo) = <<>>
      BY <1>1, <1>2, WritingFacts
    <2>3. Range(<<>>) = {}
      BY DEF Range
    <2> QED BY <1>1, <2>1, <2>2, <2>3 DEF Left
  <1>4. /\ \A f : Filling(f) <=> f = h
        /\ \A f : ~Filling(f)'
    BY <1>1 DEF Filling
  <1>5. /\ version \in Nat /\ version <= source
        /\ sourceMtime <= picture /\ picture <= source /\ picture # 0
        /\ source \in Nat /\ sourceMtime \in Nat /\ picture \in Nat
        /\ h # "mtime" => version = picture
        /\ h = "mtime" => version = sourceMtime
    BY <1>2 DEF ImageTypes, Progress
  <1>6. Rendered' = Rendered \cup ({h} \cap Payloads)
    BY <1>1, <1>2, <1>3, WritingFacts DEF Rendered, Left
  <1>7. request.frame \in Frames
    BY DEF ImageTypes, Request, Frames
  <1> HIDE DEF h, version
  <1>8. /\ DOMAIN files' = Files
        /\ \A f \in Files : files'[f] = IF f = h THEN Written(version, request.frame) ELSE files[f]
    BY <1>1, <1>3 DEF ImageTypes
  <1>9. /\ files'[h].state = "whole" /\ files'[h].version = version
        /\ files'[h].frame = request.frame /\ files'[h] # Absent
    BY <1>3, <1>8, ContentFacts
  <1>10. files'["mtime"].version = IF h = "mtime" THEN sourceMtime ELSE files["mtime"].version
    BY <1>5, <1>8, <1>9, FileFacts
  <1>11. ShownRight' /\ MissesJustified'
    BY <1>1 DEF ShownRight, MissesJustified
  <1>12. ImageTypes'
    <2>1. \A f \in Files : Content(files'[f])
      BY <1>5, <1>7, <1>8, FileFacts DEF Content
    <2>2. files'["mtime"].version <= source
      BY <1>5, <1>10 DEF ImageTypes
    <2> QED BY <1>1, <1>3, <1>8, <2>1, <2>2 DEF ImageTypes
  <1>13. Progress'
    <2>1. \A f \in WriteSet \ Left' :
            files'[f] = Written(IF f = "mtime" THEN sourceMtime ELSE picture, request.frame)
      <3>1. ASSUME NEW f \in WriteSet, f \notin Left', f # h
            PROVE  files'[f] = Written(IF f = "mtime" THEN sourceMtime ELSE picture, request.frame)
        <4>1. f \in Files /\ f \notin Left
          BY <1>2, <1>3, <3>1, WritingFacts
        <4> QED BY <1>2, <1>8, <3>1, <4>1 DEF Progress
      <3>2. files'[h] = Written(IF h = "mtime" THEN sourceMtime ELSE picture, request.frame)
        BY <1>3, <1>5, <1>8
      <3> QED BY <3>1, <3>2
    <2>2. files'["mtime"].version \in {0, sourceMtime}
      BY <1>2, <1>10 DEF Progress
    <2>3. /\ IsInjective(Tail(todo))
          /\ \A i \in DOMAIN Tail(todo) : Tail(todo)[i] = "mtime" <=> i = Len(Tail(todo))
      <3>1. /\ IsInjective(todo)
            /\ \A i \in DOMAIN todo : todo[i] = "mtime" <=> i = Len(todo)
        BY <1>2 DEF Progress
      <3>2. /\ Len(todo) \in Nat \ {0} /\ Len(Tail(todo)) = Len(todo) - 1
            /\ \A i \in DOMAIN Tail(todo) : Tail(todo)[i] = todo[i + 1] /\ i + 1 \in DOMAIN todo
            /\ DOMAIN Tail(todo) = 1..Len(Tail(todo))
        BY <1>1, <1>3, NextFile DEF ImageTypes
      <3>3. \A i, j \in DOMAIN Tail(todo) : i + 1 = j + 1 => i = j
        BY <3>2
      <3>4. \A i \in DOMAIN Tail(todo) : i + 1 = Len(todo) <=> i = Len(Tail(todo))
        BY <3>2
      <3>5. IsInjective(Tail(todo))
        BY <3>1, <3>2, <3>3 DEF IsInjective
      <3> QED BY <3>1, <3>2, <3>4, <3>5
    <2>4. Left' \subseteq WriteSet /\ (request.frame = "animate" => request.type = "kitty")
      BY <1>2, <1>3 DEF Progress
    <2> QED BY <1>1, <1>2, <1>5, <2>1, <2>2, <2>3, <2>4 DEF Progress
  <1>14. VersionsRight'
    <2>1. ASSUME sourceMtime = source PROVE picture = source
      BY <1>5, <2>1
    <2>2. ASSUME sourceMtime = source, NEW f \in Payloads, f # h PROVE Right(f, source)'
      BY <1>1, <1>2, <1>4, <1>8, <2>2, FileFacts DEF VersionsRight, Right
    <2>3. ASSUME sourceMtime = source, NEW f \in Payloads, f = h PROVE Right(f, source)'
      BY <1>1, <1>5, <1>9, <2>1, <2>3, FileFacts DEF Right
    <2> QED BY <1>1, <1>2, <2>2, <2>3 DEF VersionsRight
  <1>15. FramesRight'
    <2>1. files'["kittyanim"] \in {Absent, Torn} \/ files'["kittyanim"].frame = "animate"
      BY <1>2, <1>3, <1>8, <1>9, WritingFacts, FileFacts DEF FramesRight
    <2>2. ASSUME NEW f \in Stills \ Rendered'
          PROVE  f # h /\ f \in Stills \ Rendered /\ files'[f] = files[f] /\ f \in Files
      BY <1>6, <1>8, FileFacts
    <2>3. ASSUME NEW f \in Stills \ Rendered' PROVE Recorded(f)'
      <3>1. CASE h = "frame"
        <4>1. files[f] # Absent /\ f \notin astray => files[f].frame = request.frame
          BY <1>2, <1>4, <2>2, <3>1 DEF FramesRight
        <4> QED BY <1>1, <1>9, <2>2, <3>1, <4>1 DEF Recorded
      <3>2. CASE h # "frame"
        <4>1. Recorded(f)
          BY <1>2, <1>4, <2>2, <3>2 DEF FramesRight
        <4> QED BY <1>1, <1>8, <2>2, <3>2, <4>1, FileFacts DEF Recorded
      <3> QED BY <3>1, <3>2
    <2>4. ASSUME "frame" \in Left', files'["mtime"].version = 0, NEW f \in Stills \ Rendered'
          PROVE  files'[f] = Absent
      <3>1. h # "mtime" /\ "frame" \in Left
        BY <1>3, <2>4
      <3> QED BY <1>2, <1>4, <1>10, <2>2, <2>4, <3>1 DEF FramesRight
    <2> QED BY <1>1, <1>2, <1>4, <2>1, <2>3, <2>4 DEF FramesRight
  <1>16. MadeThere'
    <2>1. files'[IF scenario.zlib THEN "kittyu" ELSE "kittyc"] = Absent
      BY <1>2, <1>3, <1>8, WritingFacts DEF MadeThere, Files, Payloads
    <2>2. ASSUME NEW x \in made PROVE There(x)'
      <3>1. There(x) /\ x.type \in {"sixel", "kitty", "chafa"}
        BY <1>1, <2>2 DEF MadeThere
      <3>2. PayloadOf(x)' = PayloadOf(x) /\ PayloadOf(x) \in Payloads
        BY <1>1, <3>1 DEF PayloadOf, StillFile, Files, Payloads
      <3>3. files'[PayloadOf(x)].state = "whole"
        BY <1>4, <1>8, <1>9, <3>1, <3>2, FileFacts DEF There
      <3>4. x.type # "chafa" => \A f \in {"width", "height"} : files'[f].version # 0
        BY <1>4, <1>5, <1>8, <1>9, <3>1, FileFacts DEF There
      <3> QED BY <3>2, <3>3, <3>4 DEF There
    <2> QED BY <1>1, <1>2, <2>1, <2>2 DEF MadeThere
  <1> QED BY <1>11, <1>12, <1>13, <1>14, <1>15, <1>16

(* What is there when everything was written.                                   *)
LEMMA WrittenFacts ==
  ASSUME ImageTypes, Progress, Writing, NEW f \in WriteSet, f \notin Left
  PROVE  /\ files[f].state = "whole" /\ files[f].frame = request.frame /\ files[f] # Absent
         /\ files[f].version = IF f = "mtime" THEN sourceMtime ELSE picture
  BY ContentFacts DEF Progress

(* ... ends, ...                                                                *)
LEMMA FinishRunInv == ASSUME CacheInv, FinishRun PROVE CacheInv'
  <1> USE DEF CacheInv
  <1>1. /\ pc = "write" /\ pc' = "idle" /\ todo = <<>> /\ ~Writing'
        /\ UNCHANGED <<scenario, source, files, astray, request, sourceMtime, picture, todo,
                       fromCache>>
    BY DEF FinishRun, disk, run, Writing
  <1>2. \A f : ~Filling(f) /\ ~Filling(f)'
    BY <1>1 DEF Filling
  <1>3. ImageTypes' /\ Progress'
    BY <1>1 DEF ImageTypes, Progress
  <1>4. ShownRight' /\ MissesJustified'
    BY <1>1 DEF ShownRight, MissesJustified
  <1>5. ASSUME NEW x PROVE There(x)' <=> There(x)
    BY <1>1, <1>2 DEF There, PayloadOf, StillFile
  <1>6. CASE request.cache = "off"
    <2>1. ~Writing
      BY <1>6 DEF Writing
    <2>2. made' = made
      BY <1>6 DEF FinishRun
    <2>3. VersionsRight' /\ FramesRight'
      BY <1>1, <2>1 DEF VersionsRight, Right, FramesRight, Recorded
    <2>4. MadeThere'
      BY <1>1, <1>5, <2>1, <2>2 DEF MadeThere
    <2> QED BY <1>3, <1>4, <2>3, <2>4
  <1>7. CASE request.cache # "off"
    <2>1. Writing /\ Left = {}
      BY <1>1, <1>7, WritingFacts DEF Writing
    <2>2. ASSUME NEW f \in WriteSet
          PROVE  /\ files[f].state = "whole" /\ files[f].frame = request.frame
                 /\ files[f] # Absent
                 /\ files[f].version = IF f = "mtime" THEN sourceMtime ELSE picture
      BY <2>1, <2>2, WrittenFacts
    <2>3. files["mtime"].version = sourceMtime /\ files["mtime"].frame = request.frame
      BY <2>1, <2>2, WritingFacts
    <2>4. VersionsRight'
      BY <1>1, <1>2, <2>1, <2>3 DEF VersionsRight, Right
    <2>5. FramesRight'
      <3>1. ASSUME NEW f \in Stills PROVE Recorded(f)
        <4>1. CASE f \in Rendered
          <5>1. f \in WriteSet /\ "frame" \in WriteSet
            BY <2>1, <4>1, WritingFacts
          <5> QED BY <2>2, <5>1 DEF Recorded
        <4>2. CASE f \notin Rendered
          BY <1>2, <2>1, <4>2 DEF FramesRight
        <4> QED BY <4>1, <4>2
      <3> QED BY <1>1, <3>1 DEF FramesRight, Recorded
    <2>6. MadeThere'
      <3> DEFINE x == [type |-> request.type, frame |-> request.frame, version |-> picture]
      <3>1. /\ x.type = request.type /\ x.frame = request.frame /\ x.version = picture
            /\ x \in [type : {"sixel", "kitty", "chafa"}, frame : Frames, version : Nat]
        BY DEF ImageTypes, Request, Frames
      <3> HIDE DEF x
      <3>2. There(x)
        <4>1. PayloadOf(x) = PayloadOf(request)
          BY <3>1 DEF PayloadOf
        <4>2. files[PayloadOf(x)].state = "whole"
          BY <2>1, <2>2, <4>1, WritingFacts
        <4>3. picture # 0
          BY <2>1 DEF Progress
        <4>4. x.type # "chafa" => \A f \in {"width", "height"} : files[f].version # 0
          BY <2>1, <2>2, <3>1, <4>3, WritingFacts
        <4> QED BY <4>2, <4>4 DEF There
      <3>3. x.frame = "animate" \/ x.frame = files["frame"].frame
        BY <2>1, <2>2, <3>1, WritingFacts
      <3>4. x.frame = "animate" => x.type = "kitty"
        BY <2>1, <3>1 DEF Progress
      <3>5. made' \in {{}, Keeps \cup {x}} /\ (made' # {} => picture = sourceMtime)
        <4>1. CASE picture = sourceMtime
          BY <1>7, <4>1 DEF FinishRun, x
        <4>2. CASE picture # sourceMtime
          BY <1>7, <4>2 DEF FinishRun
        <4> QED BY <4>1, <4>2
      <3>6. ASSUME NEW y \in made'
            PROVE  /\ y \in [type : {"sixel", "kitty", "chafa"}, frame : Frames, version : Nat]
                   /\ There(y) /\ (y.frame = "animate" => y.type = "kitty")
                   /\ y.version = files["mtime"].version
                   /\ y.frame = "animate" \/ y.frame = files["frame"].frame
        <4>1. y = x \/ y \in Keeps
          BY <3>5, <3>6
        <4>2. CASE y = x
          BY <2>3, <3>1, <3>2, <3>3, <3>4, <3>5, <3>6, <4>2
        <4>3. CASE y \in Keeps
          <5>1. y \in made /\ y.version = sourceMtime
                /\ (y.frame = "animate" \/ y.frame = files["frame"].frame)
            BY <4>3 DEF Keeps
          <5> QED BY <1>1, <2>3, <5>1 DEF MadeThere
        <4> QED BY <4>1, <4>2, <4>3
      <3> QED BY <1>1, <1>5, <3>6 DEF MadeThere
    <2> QED BY <1>3, <1>4, <2>4, <2>5, <2>6
  <1> QED BY <1>6, <1>7

(* ... or is cut off.                                                           *)
LEMMA InterruptInv == ASSUME CacheInv, Interrupt PROVE CacheInv'
  <1> USE DEF CacheInv
  <1>1. /\ pc # "idle" /\ pc' = "idle" /\ made' = {} /\ ~Writing'
        /\ UNCHANGED <<scenario, source, files, request, sourceMtime, picture, todo, fromCache>>
        /\ astray' = IF pc \in {"write", "fill"} /\ Beside THEN astray \cup Torso \cup Unrecorded
                     ELSE astray
    BY DEF Interrupt, run, Writing
  <1>2. astray \subseteq astray'
    BY <1>1
  <1>3. ImageTypes' /\ Progress'
    BY <1>1 DEF ImageTypes, Progress
  <1>4. ShownRight' /\ MissesJustified' /\ MadeThere'
    BY <1>1 DEF ShownRight, MissesJustified, MadeThere
  <1>5. CASE ~Writing
    BY <1>1, <1>2, <1>3, <1>4, <1>5 DEF VersionsRight, Right, FramesRight, Recorded
  <1>6. CASE Writing
    <2>1. /\ todo = <<>> => Left = {}
          /\ todo # <<>> => "mtime" \in Left
          /\ Rendered \subseteq WriteSet
          /\ \A f \in Stills : f \in WriteSet => "frame" \in WriteSet
          /\ Rendered \cap Left = {}
      BY <1>6, WritingFacts
    <2>2. todo # <<>> /\ files["mtime"].version # 0 =>
            Torso \subseteq astray' /\ Unrecorded \subseteq astray'
      BY <1>1, <1>6, <2>1 DEF Writing, Beside, Left
    <2>3. \A f \in Payloads : Filling(f) => f \in Torso /\ todo # <<>>
      BY DEF Filling, Torso, Progress
    <2>4. VersionsRight'
      <3>1. ASSUME files["mtime"].version = source, NEW f \in Payloads PROVE Right(f, source)'
        <4>1. sourceMtime = source /\ source # 0
          BY <1>6, <3>1 DEF Progress, ImageTypes
        <4>2. Right(f, source) \/ Filling(f)
          BY <1>6, <4>1 DEF VersionsRight
        <4> QED BY <1>1, <1>2, <2>2, <2>3, <3>1, <4>1, <4>2 DEF Right
      <3> QED BY <1>1, <3>1 DEF VersionsRight
    <2>5. FramesRight'
      <3>1. ASSUME files["mtime"].version # 0, NEW f \in Stills PROVE Recorded(f)'
        <4>1. Filling("frame") => /\ "frame" \in Left /\ todo # <<>>
                                  /\ files["frame"] = Torn
          BY NextFile DEF Filling, Progress, ImageTypes
        <4>2. CASE "frame" \in Left /\ OtherFrame
          <5>1. todo # <<>>
            BY <2>1, <4>2
          <5>2. CASE f \in Rendered \/ Filling("frame")
            BY <1>1, <2>2, <3>1, <4>1, <4>2, <5>1, <5>2 DEF Unrecorded, Recorded
          <5>3. CASE f \notin Rendered /\ ~Filling("frame")
            <6>1. Filling(f) \/ Recorded(f)
              BY <1>6, <5>3 DEF FramesRight
            <6> QED BY <1>1, <1>2, <2>2, <2>3, <3>1, <5>1, <6>1, FileFacts DEF Recorded
          <5> QED BY <5>2, <5>3
        <4>3. CASE ~("frame" \in Left /\ OtherFrame)
          <5>1. "frame" \in Left => files["frame"].frame = request.frame
            BY <4>3 DEF OtherFrame, Left
          <5>2. CASE f \in Rendered
            <6>1. f \in WriteSet /\ f \notin Left /\ "frame" \in WriteSet
              BY <2>1, <5>2
            <6>2. files[f].frame = request.frame
              BY <1>6, <6>1, WrittenFacts
            <6>3. "frame" \notin Left => files["frame"].frame = request.frame
              BY <1>6, <6>1, WrittenFacts
            <6> QED BY <1>1, <5>1, <6>2, <6>3 DEF Recorded
          <5>3. CASE f \notin Rendered
            <6>1. \/ Filling(f) \/ Recorded(f)
                  \/ Filling("frame") /\ (files[f] # Absent /\ f \notin astray => files[f].frame = request.frame)
              BY <1>6, <5>3 DEF FramesRight
            <6> QED BY <1>1, <1>2, <2>2, <2>3, <3>1, <4>1, <5>1, <6>1, FileFacts DEF Recorded
          <5> QED BY <5>2, <5>3
        <4> QED BY <4>2, <4>3
      <3> QED BY <1>1, <3>1 DEF FramesRight
    <2> QED BY <1>3, <1>4, <2>4, <2>5
  <1> QED BY <1>5, <1>6

(* Every step keeps it.                                                         *)
LEMMA NextCacheInv == ASSUME CacheInv, [NextCache]_cacheVars PROVE CacheInv'
  <1>1. CASE UNCHANGED cacheVars
    <2>1. UNCHANGED <<scenario, source, files, pc, request, sourceMtime, picture, todo, fromCache,
                      astray, made>>
      BY <1>1 DEF cacheVars, disk, run
    <2> USE DEF CacheInv
    <2>2. /\ Writing' = Writing /\ Left' = Left /\ WriteSet' = WriteSet /\ Rendered' = Rendered
          /\ \A f : Filling(f)' <=> Filling(f)
      BY <2>1 DEF Writing, Left, WriteSet, Animation, StillFile, Rendered, ToWrite, Rendering,
                  KittyStill, Filling
    <2>3. ImageTypes' /\ Progress'
      BY <2>1, <2>2 DEF ImageTypes, Progress
    <2>4. VersionsRight' /\ FramesRight'
      BY <2>1, <2>2 DEF VersionsRight, Right, FramesRight, Recorded
    <2>5. MadeThere'
      BY <2>1, <2>2 DEF MadeThere, There, PayloadOf, StillFile
    <2>6. ShownRight' /\ MissesJustified'
      BY <2>1 DEF ShownRight, MissesJustified
    <2> QED BY <2>3, <2>4, <2>5, <2>6
  <1>2. CASE \E r \in scenario.requests : StartRun(r)
    BY <1>2, StartRunInv
  <1> QED BY <1>1, <1>2, HitInv, MissInv, RemoveInv, DecodeFailsInv, DecodeInv, TruncateInv,
             FillInv, FinishRunInv, InterruptInv, EditInv DEF NextCache

(* The inductive invariant of the cache holds, wherever runs are cut off and    *)
(* however images are replaced.                                                 *)
THEOREM CacheSafe == CacheSpec => []CacheInv
  <1>1. InitCache => CacheInv
    BY CacheInitInv
  <1>2. CacheInv /\ [NextCache]_cacheVars => CacheInv'
    BY NextCacheInv
  <1> QED BY <1>1, <1>2, PTL DEF CacheSpec

(* What is shown from the cache is whole, of the image as it was when the run   *)
(* looked at its mtime, and of the frame that was asked for, but for the        *)
(* payloads that are known to go astray (image.c:477, :482), however many runs  *)
(* there are and wherever they are cut off.                                     *)
THEOREM ShownIsRight == CacheSpec => []ShownRight
  <1>1. CacheInv => ShownRight
    BY DEF CacheInv
  <1> QED BY <1>1, CacheSafe, PTL

(* The image is decoded again only if the cache does not have to hold a         *)
(* rendering of it, of that type and with that frame (image.c:474).             *)
THEOREM OnlyJustifiedMisses == CacheSpec => []MissesJustified
  <1>1. CacheInv => MissesJustified
    BY DEF CacheInv
  <1> QED BY <1>1, CacheSafe, PTL

-----------------------------------------------------------------------------
(* Where the logo and the keys end.                                             *)

(* In the first round there is the line of the shell above, unless the          *)
(* alternate screen was entered.                                                *)
Start == IF options.watch THEN 0 ELSE 1

(* Where the next key goes: what stdio holds ends with a move to the top.       *)
Here == IF buffered = <<>> THEN cursor[1] ELSE 0
Top == Here - Len(shown)

(* What EndsBelow names: nothing is known of where the logo ends.               *)
Free == drawn = 0 \/ options.position = "top" \/ HeightForgotten \/ OneRow
Reaches(row) == Free \/ origin[1] + Len(options.lines) <= row
Room(row) == row + logoHeight + options.keys + 2 <= Rows

(* A list of lines.                                                             *)
Listed(s) == Len(s) \in Nat /\ s = [i \in 1..Len(s) |-> s[i]]

(* What stdio may hold while keys are printed.                                  *)
Pending == {<<>>, <<"home">>, <<"space", "home">>}

Screened == cursor = <<cursor[1], cursor[2]>> /\ DOMAIN screen = 0..Rows - 1

(* The invariant, by where run() is. The screen has its rows, and the cursor is *)
(* on it.                                                                       *)
Screen ==
  /\ Screened /\ cursor[1] \in Nat /\ cursor[1] < Rows
  /\ logoHeight \in Nat /\ round \in Nat \ {0} /\ origin[1] \in Nat
  /\ Fits(options)

Unprinted == cache = <<>> /\ nextLine = 0 /\ shown = <<>> /\ keysHeight = 0

(* A logo is drawn below the line of the shell, or from the top on in a later   *)
(* round.                                                                       *)
AtLogo ==
  at \in {"logo", "measuring", "unmeasured"} =>
    /\ Unprinted
    /\ \/ buffered = <<>> /\ cursor[1] = Start /\ cursor[2] = 0 /\ drawn = 0
       \/ buffered = <<"home">> /\ options.type = "spin" /\ options.watch

(* An image of unknown size was drawn at the top, and the terminal says where   *)
(* it ends.                                                                     *)
AtCursor ==
  at = "cursor" =>
    /\ Unprinted /\ buffered = <<>>
    /\ call.kind = "cursor" /\ call.truth \in {<<>>, <<cursor[1] + 1, cursor[2] + 1>>}
    /\ origin[1] = options.top /\ cursor[1] = options.top + Len(options.lines) - 1

(* So many lines of the logo were printed as keys, ...                          *)
Printing ==
  /\ Listed(shown) /\ keysHeight = Len(shown) /\ Len(shown) <= options.keys
  /\ buffered \in Pending /\ (buffered # <<>> => shown = <<>>)
  /\ Listed(cache) /\ (cache # <<>> => Len(cache) = logoHeight + 1)
  /\ nextLine = Least(Len(shown), Len(cache))

(* ... one below the other, and there is room for the rest of both.             *)
Standing ==
  /\ Top \in Nat /\ Room(Top) /\ Reaches(Top + logoHeight + 1)
  /\ \A i \in 1..Len(shown) : shown[i][1] = Top + i - 1
  /\ buffered # <<>> \/ cursor[2] = 0 \/ (shown = <<>> /\ cache = <<>>)
  /\ options.watch => Free \/ Top = 0
AtKeys ==
  at \in {"keys", "asking"} => Printing /\ (excuse = "none" => Standing)

(* The next round begins at the top.                                            *)
AtSleep ==
  at = "asleep" =>
    /\ cache = <<>> /\ nextLine = 0 /\ buffered = <<>> /\ options.watch
    /\ excuse = "none" => Room(0) /\ Reaches(logoHeight + 1)

EndsInv == Alive => Screen /\ AtLogo /\ AtCursor /\ AtKeys /\ AtSleep

(* What is written moves the cursor, and leaves the screen its rows.            *)
IsTerminal(t) ==
  t = [screen |-> t.screen, row |-> t.row, column |-> t.column] /\ DOMAIN t.screen = 0..Rows - 1
Stays(t, u) == IsTerminal(u) /\ u.row = t.row
StaysAt(t, u) == Stays(t, u) /\ u.column = t.column
InFront(u, row) == IsTerminal(u) /\ u.row = row /\ u.column = 0

(* Of two numbers.                                                              *)
LEMMA MostIs ==
  ASSUME NEW a \in Int, NEW b \in Int
  PROVE  Most({a, b}) = IF a > b THEN a ELSE b
  <1> DEFINE c == IF a > b THEN a ELSE b
  <1>1. c \in {a, b} /\ \A m \in {a, b} : m <= c
    OBVIOUS
  <1>2. Most({a, b}) \in {a, b} /\ \A m \in {a, b} : m <= Most({a, b})
    BY <1>1, Zenon DEF Most
  <1>3. \A x, y \in {a, b} : (x <= y /\ y <= x) => x = y
    OBVIOUS
  <1> HIDE DEF c
  <1>4. Most({a, b}) = c
    BY <1>1, <1>2, <1>3, Zenon
  <1> QED BY <1>4 DEF c

(* A terminal by its parts, ...                                                 *)
IsThis(t, s, y, x) == IsTerminal(t) /\ t.screen = s /\ t.row = y /\ t.column = x
LEMMA This ==
  ASSUME NEW t, NEW s, NEW y, NEW x, t = [screen |-> s, row |-> y, column |-> x],
         DOMAIN s = 0..Rows - 1
  PROVE  IsThis(t, s, y, x)
  <1>1. t.screen = s /\ t.row = y /\ t.column = x
    OBVIOUS
  <1> QED BY <1>1, Zenon DEF IsThis, IsTerminal

(* ... and what a change of them leaves.                                        *)
LEMMA Altered ==
  ASSUME NEW t, IsTerminal(t), NEW s, NEW y, NEW x
  PROVE  /\ DOMAIN s = 0..Rows - 1 => IsThis([t EXCEPT !.screen = s], s, t.row, t.column)
         /\ DOMAIN s = 0..Rows - 1 => IsThis([t EXCEPT !.screen = s, !.column = x], s, t.row, x)
         /\ IsThis([t EXCEPT !.column = x], t.screen, t.row, x)
         /\ IsThis([t EXCEPT !.row = y, !.column = x], t.screen, y, x)
  <1>0. DOMAIN t.screen = 0..Rows - 1
    BY DEF IsTerminal
  <1> DEFINE a == t.screen
             b == t.row
             c == t.column
  <1>1. t = [screen |-> a, row |-> b, column |-> c]
    BY DEF IsTerminal
  <1> HIDE DEF a, b, c
  <1>2. [t EXCEPT !.screen = s] = [screen |-> s, row |-> b, column |-> c]
    BY <1>1
  <1>3. [t EXCEPT !.screen = s, !.column = x] = [screen |-> s, row |-> b, column |-> x]
    <2> DEFINE u == [t EXCEPT !.screen = s]
    <2>1. u = [screen |-> s, row |-> b, column |-> c]
      BY <1>2
    <2>2. [t EXCEPT !.screen = s, !.column = x] = [u EXCEPT !.column = x]
      OBVIOUS
    <2> HIDE DEF u
    <2>3. [u EXCEPT !.column = x] = [screen |-> s, row |-> b, column |-> x]
      BY <2>1
    <2> QED BY <2>2, <2>3, Zenon
  <1>4. [t EXCEPT !.column = x] = [screen |-> a, row |-> b, column |-> x]
    BY <1>1
  <1>5. [t EXCEPT !.row = y, !.column = x] = [screen |-> a, row |-> y, column |-> x]
    <2> DEFINE u == [t EXCEPT !.row = y]
    <2>1. u = [screen |-> a, row |-> y, column |-> c]
      BY <1>1
    <2>2. [t EXCEPT !.row = y, !.column = x] = [u EXCEPT !.column = x]
      OBVIOUS
    <2> HIDE DEF u
    <2>3. [u EXCEPT !.column = x] = [screen |-> a, row |-> y, column |-> x]
      BY <2>1
    <2> QED BY <2>2, <2>3, Zenon
  <1>6. DOMAIN s = 0..Rows - 1 => IsThis([t EXCEPT !.screen = s], s, b, c)
    BY <1>2, This
  <1>7. DOMAIN s = 0..Rows - 1 => IsThis([t EXCEPT !.screen = s, !.column = x], s, b, x)
    BY <1>3, This
  <1>8. DOMAIN a = 0..Rows - 1
    BY <1>0 DEF a
  <1>9. IsThis([t EXCEPT !.column = x], a, b, x) /\ IsThis([t EXCEPT !.row = y, !.column = x], a, y, x)
    BY <1>4, <1>5, <1>8, This
  <1> QED BY <1>6, <1>7, <1>9 DEF a, b, c

(* Text, a move to the right, and clearing a line leave the cursor in its row.  *)
LEMMA PutStays == ASSUME NEW t, IsTerminal(t), NEW text PROVE Stays(t, Put(t, text))
  <1> DEFINE s == [t.screen EXCEPT ![t.row] = With(@, t.column, text)]
             x == Least(t.column + Len(text), Columns - 1)
  <1>1. Put(t, text) = [t EXCEPT !.screen = s, !.column = x]
    BY DEF Put
  <1>2. DOMAIN s = 0..Rows - 1
    BY DEF IsTerminal
  <1> HIDE DEF s, x
  <1>3. IsThis([t EXCEPT !.screen = s, !.column = x], s, t.row, x)
    BY <1>2, Altered, Zenon
  <1>4. IsThis(Put(t, text), s, t.row, x)
    BY <1>1, <1>3, Zenon
  <1> QED BY <1>4 DEF Stays, IsThis
LEMMA ForwardStays == ASSUME NEW t, IsTerminal(t), NEW n PROVE Stays(t, Forward(t, n))
  BY DEF IsTerminal, Stays, Forward
LEMMA FromRightStays == ASSUME NEW t, IsTerminal(t), NEW n PROVE Stays(t, FromRight(t, n))
  BY DEF IsTerminal, Stays, FromRight
LEMMA ClearLineStays == ASSUME NEW t, IsTerminal(t) PROVE StaysAt(t, ClearLine(t))
  <1> DEFINE s == [t.screen EXCEPT ![t.row] = [c \in 1..Columns |-> IF c <= t.column THEN @[c] ELSE Blank]]
  <1>1. ClearLine(t) = [t EXCEPT !.screen = s]
    BY DEF ClearLine
  <1>2. DOMAIN s = 0..Rows - 1
    BY DEF IsTerminal
  <1> HIDE DEF s
  <1>3. IsThis(ClearLine(t), s, t.row, t.column)
    BY <1>1, <1>2, Altered, Zenon
  <1> QED BY <1>3 DEF StaysAt, Stays, IsThis
LEMMA ClearAllStays == ASSUME NEW t, IsTerminal(t) PROVE StaysAt(t, ClearAll(t))
  <1>1. DOMAIN Empty = 0..Rows - 1
    BY DEF Empty
  <1> QED BY <1>1, Altered DEF StaysAt, Stays, ClearAll, IsThis

(* Where the other moves lead.                                                  *)
LEMMA MoveToIs ==
  ASSUME NEW t, IsTerminal(t), NEW row, NEW column
  PROVE  IsTerminal(MoveTo(t, row, column)) /\ MoveTo(t, row, column).row = row
         /\ MoveTo(t, row, column).column = column
  <1>1. MoveTo(t, row, column) = [t EXCEPT !.row = row, !.column = column]
    BY DEF MoveTo
  <1>2. IsThis([t EXCEPT !.row = row, !.column = column], t.screen, row, column)
    BY Altered, Zenon
  <1>3. IsThis(MoveTo(t, row, column), t.screen, row, column)
    BY <1>1, <1>2, Zenon
  <1> QED BY <1>3 DEF IsThis
LEMMA NewLineIs ==
  ASSUME NEW t, IsTerminal(t)
  PROVE  InFront(NewLine(t), Least(t.row + 1, Rows - 1))
  <1> DEFINE y == Least(t.row + 1, Rows - 1)
  <1>1. NewLine(t) = [t EXCEPT !.row = y, !.column = 0]
    BY DEF NewLine
  <1> HIDE DEF y
  <1>2. IsThis([t EXCEPT !.row = y, !.column = 0], t.screen, y, 0)
    BY Altered, Zenon
  <1>3. IsThis(NewLine(t), t.screen, y, 0)
    BY <1>1, <1>2, Zenon
  <1>4. InFront(NewLine(t), y)
    BY <1>3 DEF InFront, IsThis
  <1> QED BY <1>4 DEF y
LEMMA NewLinesIs ==
  ASSUME NEW t, IsTerminal(t), NEW n
  PROVE  IF n = 0 THEN NewLines(t, n) = t ELSE InFront(NewLines(t, n), Least(t.row + n, Rows - 1))
  <1>1. IsTerminal(NewLine(t)) /\ NewLine(t).column = 0
    BY NewLineIs DEF InFront
  <1>2. CASE n = 0
    BY <1>2 DEF NewLines
  <1>3. CASE n # 0
    <2>1. NewLines(t, n) = [NewLine(t) EXCEPT !.row = Least(t.row + n, Rows - 1)]
      BY <1>3 DEF NewLines
    <2> DEFINE u == NewLine(t)
               r == Least(t.row + n, Rows - 1)
    <2>2. NewLines(t, n) = [u EXCEPT !.row = r] /\ IsTerminal(u) /\ u.column = 0
      BY <1>1, <2>1
    <2> HIDE DEF u, r
    <2>3. InFront(NewLines(t, n), r)
      BY <2>2 DEF IsTerminal, InFront
    <2> QED BY <1>3, <2>3 DEF r
  <1> QED BY <1>2, <1>3
LEMMA UpByIs ==
  ASSUME NEW t, IsTerminal(t), NEW n \in Int, t.row \in Int
  PROVE  /\ IsTerminal(UpBy(t, n)) /\ UpBy(t, n).column = t.column
         /\ UpBy(t, n).row = Minus(t.row, IF n > 1 THEN n ELSE 1)
  <1>1. Most({n, 1}) = IF n > 1 THEN n ELSE 1
    BY MostIs
  <1> DEFINE r == Minus(t.row, Most({n, 1}))
  <1>2. UpBy(t, n) = [t EXCEPT !.row = r]
    BY DEF UpBy
  <1> HIDE DEF r
  <1>3. IsTerminal(UpBy(t, n)) /\ UpBy(t, n).column = t.column /\ UpBy(t, n).row = r
    BY <1>2 DEF IsTerminal
  <1> QED BY <1>1, <1>3 DEF r

(* Lines lead below themselves.                                                 *)
LEMMA PutLinesIs ==
  ASSUME NEW t, IsTerminal(t), NEW column, NEW texts
  PROVE  /\ IsTerminal(PutLines(t, column, texts))
         /\ PutLines(t, column, texts).row = Least(t.row + Len(texts), Rows - 1)
         /\ PutLines(t, column, texts).column = IF texts = <<>> THEN t.column ELSE 0
  <1> DEFINE s == [r \in 0..Rows - 1 |-> IF r - t.row + 1 \in DOMAIN texts
                                         THEN With(t.screen[r], column, texts[r - t.row + 1])
                                         ELSE t.screen[r]]
             y == Least(t.row + Len(texts), Rows - 1)
             x == IF texts = <<>> THEN t.column ELSE 0
  <1>1. PutLines(t, column, texts) = [t EXCEPT !.screen = s, !.row = y, !.column = x]
    BY DEF PutLines
  <1>2. DOMAIN s = 0..Rows - 1
    OBVIOUS
  <1> HIDE DEF s, y, x
  <1>3. /\ IsTerminal(PutLines(t, column, texts)) /\ PutLines(t, column, texts).row = y
        /\ PutLines(t, column, texts).column = x
    BY <1>1, <1>2 DEF IsTerminal
  <1> QED BY <1>3 DEF y, x

(* From the beginning of a line on, all is blank.                               *)
LEMMA ClearBelowIs ==
  ASSUME NEW t, IsTerminal(t), t.row \in 0..Rows - 1, t.column = 0
  PROVE  /\ StaysAt(t, ClearBelow(t))
         /\ \A row \in t.row..Rows - 1 : \A c \in 1..Columns : ClearBelow(t).screen[row][c] = Blank
  <1> DEFINE u == ClearLine(t)
             s == [r \in 0..Rows - 1 |-> IF r <= t.row THEN u.screen[r] ELSE Cells(Columns, Blank)]
  <1>1. StaysAt(t, u)
    BY ClearLineStays
  <1>2. u.screen[t.row] = [c \in 1..Columns |-> IF c <= t.column THEN t.screen[t.row][c] ELSE Blank]
    BY DEF ClearLine, IsTerminal
  <1>3. ClearBelow(t) = [u EXCEPT !.screen = s]
    BY DEF ClearBelow
  <1>4. DOMAIN s = 0..Rows - 1
    OBVIOUS
  <1>5. \A row \in t.row..Rows - 1 : \A c \in 1..Columns : s[row][c] = Blank
    <2> SUFFICES ASSUME NEW row \in t.row..Rows - 1, NEW c \in 1..Columns PROVE s[row][c] = Blank
      OBVIOUS
    <2>1. row \in 0..Rows - 1 /\ Rows \in Int /\ Columns \in Nat
      BY LogoAssumption
    <2>2. s[row] = IF row <= t.row THEN u.screen[row] ELSE Cells(Columns, Blank)
      BY <2>1
    <2>3. CASE row = t.row
      <3>1. s[row] = u.screen[t.row]
        BY <2>1, <2>2, <2>3
      <3>2. u.screen[t.row][c] = IF c <= t.column THEN t.screen[t.row][c] ELSE Blank
        <4> HIDE DEF u
        <4> QED BY <1>2
      <3>3. ~(c <= t.column)
        BY <2>1
      <3> QED BY <3>1, <3>2, <3>3
    <2>4. CASE row # t.row
      <3>1. s[row] = Cells(Columns, Blank)
        BY <2>1, <2>2, <2>4
      <3>2. Cells(Columns, Blank)[c] = Blank
        BY DEF Cells
      <3> QED BY <3>1, <3>2
    <2> QED BY <2>3, <2>4
  <1> HIDE DEF u, s
  <1>6. StaysAt(t, ClearBelow(t)) /\ ClearBelow(t).screen = s
    BY <1>1, <1>3, <1>4 DEF StaysAt, Stays, IsTerminal
  <1> QED BY <1>5, <1>6

(* What stdio holds ends with a move to the top, if it holds anything.          *)
Moves == {"home", "clear", "space"}

(* What is on the screen is a terminal, ...                                     *)
LEMMA TerminalIs ==
  ASSUME Screened
  PROVE  IsTerminal(Terminal) /\ Terminal.row = cursor[1] /\ Terminal.column = cursor[2]
  BY This DEF Screened, Terminal, IsThis

(* ... a move leads to one, ...                                                 *)
LEMMA ApplyIs ==
  ASSUME NEW t, IsTerminal(t), NEW move \in Moves
  PROVE  IsTerminal(Apply(t, move)) /\ (move = "home" => InFront(Apply(t, move), 0))
  <1>1. CASE move = "home"
    <2>1. Apply(t, move) = MoveTo(t, 0, 0)
      BY <1>1 DEF Apply
    <2> QED BY <2>1, MoveToIs DEF InFront
  <1>2. CASE move = "clear"
    <2>1. Apply(t, move) = ClearAll(t)
      BY <1>2 DEF Apply
    <2>2. move # "home"
      BY <1>2
    <2> QED BY <2>1, <2>2, ClearAllStays DEF StaysAt, Stays
  <1>3. CASE move = "space"
    <2>1. Apply(t, move) = Put(t, <<Blank>>)
      BY <1>3 DEF Apply
    <2>2. move # "home"
      BY <1>3
    <2> QED BY <2>1, <2>2, PutStays DEF Stays
  <1> QED BY <1>1, <1>2, <1>3 DEF Moves

(* ... they are done one after the other, ...                                   *)
LEMMA AppliedIs ==
  ASSUME NEW moves, Len(moves) \in Nat
  PROVE  \E after : /\ after[0] = Terminal /\ Applied(moves) = after[Len(moves)]
                    /\ \A k \in 1..Len(moves) : after[k] = Apply(after[k - 1], moves[k])
  <1> DEFINE top == Len(moves)
             first == Terminal
             Does(t, k) == Apply(t, moves[k])
             Reached(f, j) == f[0] = first /\ \A k \in 1..j : f[k] = Does(f[k - 1], k)
             T == {j \in Nat : \E f : Reached(f, j)}
  <1> HIDE DEF first, Does
  <1>1. 0 \in T
    <2> DEFINE f == [k \in 0..0 |-> first]
    <2>1. Reached(f, 0)
      <3>1. f[0] = first
        OBVIOUS
      <3>2. 1..0 = {}
        OBVIOUS
      <3> QED BY <3>1, <3>2
    <2> HIDE DEF f, Reached
    <2> QED BY <2>1
  <1>2. ASSUME NEW j \in Nat, j \in T PROVE j + 1 \in T
    <2>1. PICK f : Reached(f, j)
      BY <1>2
    <2> DEFINE g == [k \in 0..j + 1 |-> IF k <= j THEN f[k] ELSE Does(f[j], j + 1)]
    <2>2. \A k \in 0..j : g[k] = f[k]
      OBVIOUS
    <2>3. g[j + 1] = Does(f[j], j + 1)
      OBVIOUS
    <2> HIDE DEF g
    <2>4. g[0] = first
      BY <2>1, <2>2
    <2>5. ASSUME NEW k \in 1..(j + 1) PROVE g[k] = Does(g[k - 1], k)
      <3>1. CASE k <= j
        <4>1. k \in 1..j /\ k \in 0..j /\ k - 1 \in 0..j
          BY <3>1
        <4> QED BY <2>1, <2>2, <4>1
      <3>2. CASE k = j + 1
        <4>1. j \in 0..j /\ k - 1 = j
          BY <3>2
        <4> QED BY <2>2, <2>3, <3>2, <4>1
      <3> QED BY <3>1, <3>2
    <2>6. Reached(g, j + 1)
      BY <2>4, <2>5
    <2> HIDE DEF Reached
    <2> QED BY <2>6
  <1>3. top \in T
    <2> HIDE DEF T
    <2> QED BY <1>1, <1>2, Upward
  <1>4. PICK f : Reached(f, top)
    BY <1>3
  <1> DEFINE g == [n \in 0..top |-> f[n]]
             Turn(h, n) == IF n = 0 THEN first ELSE Does(h[n - 1], n)
             after[n \in 0..Len(moves)] == IF n = 0 THEN Terminal ELSE Apply(after[n - 1], moves[n])
  <1>5. \A n \in 0..top : g[n] = Turn(g, n)
    <2> SUFFICES ASSUME NEW n \in 0..top PROVE g[n] = Turn(g, n)
      OBVIOUS
    <2>1. CASE n = 0
      BY <1>4, <2>1
    <2>2. CASE n # 0
      <3>1. n \in 1..top /\ n - 1 \in 0..top
        BY <2>2
      <3>2. g[n] = f[n] /\ g[n - 1] = f[n - 1] /\ f[n] = Does(f[n - 1], n)
        BY <1>4, <3>1
      <3> QED BY <2>2, <3>2
    <2> QED BY <2>1, <2>2
  <1>6. g = [n \in 0..top |-> Turn(g, n)]
    <2> HIDE DEF Turn
    <2> QED BY <1>5
  <1>7. after = [n \in 0..top |-> Turn(after, n)]
    <2> HIDE DEF g
    <2>1. \E h : h = [n \in 0..top |-> Turn(h, n)]
      BY <1>6
    <2> QED BY <2>1 DEF first, Does
  <1>8. Applied(moves) = after[Len(moves)]
    BY DEF Applied
  <1> HIDE DEF after
  <1>9. \A n \in 0..top : after[n] = Turn(after, n)
    <2> HIDE DEF Turn
    <2> QED BY <1>7
  <1>10. after[0] = Terminal
    <2>1. 0 \in 0..top
      OBVIOUS
    <2> QED BY <1>9, <2>1 DEF first
  <1>11. \A k \in 1..top : after[k] = Apply(after[k - 1], moves[k])
    <2>1. \A k \in 1..top : k \in 0..top /\ k # 0
      OBVIOUS
    <2> QED BY <1>9, <2>1 DEF Does
  <1> QED BY <1>8, <1>10, <1>11

(* ... so the last one tells where they lead, ...                               *)
LEMMA AppliedEnds ==
  ASSUME Screened, NEW moves \in Seq(Moves)
  PROVE  /\ IsTerminal(Applied(moves))
         /\ moves = <<>> => Applied(moves) = Terminal
         /\ moves # <<>> /\ moves[Len(moves)] = "home" => InFront(Applied(moves), 0)
  <1>0. Len(moves) \in Nat /\ \A k \in 1..Len(moves) : moves[k] \in Moves
    OBVIOUS
  <1>1. PICK after : /\ after[0] = Terminal /\ Applied(moves) = after[Len(moves)]
                     /\ \A k \in 1..Len(moves) : after[k] = Apply(after[k - 1], moves[k])
    BY <1>0, AppliedIs
  <1> DEFINE T == {k \in Nat : k <= Len(moves) => IsTerminal(after[k])}
  <1>2. 0 \in T
    BY <1>1, TerminalIs
  <1>3. ASSUME NEW k \in Nat, k \in T PROVE k + 1 \in T
    <2> SUFFICES ASSUME k + 1 <= Len(moves) PROVE IsTerminal(after[k + 1])
      OBVIOUS
    <2>1. k + 1 \in 1..Len(moves) /\ k + 1 - 1 = k /\ k <= Len(moves)
      BY <1>0
    <2>2. after[k + 1] = Apply(after[k], moves[k + 1])
      BY <1>1, <2>1
    <2> QED BY <1>0, <1>3, <2>1, <2>2, ApplyIs
  <1>4. ASSUME NEW k \in Nat PROVE k \in T
    <2> HIDE DEF T
    <2> QED BY <1>2, <1>3, Upward
  <1>5. \A k \in 0..Len(moves) : IsTerminal(after[k])
    BY <1>4
  <1>6. IsTerminal(Applied(moves))
    BY <1>0, <1>1, <1>5
  <1>7. moves = <<>> => Applied(moves) = Terminal
    BY <1>1
  <1>8. ASSUME moves # <<>>, moves[Len(moves)] = "home" PROVE InFront(Applied(moves), 0)
    <2>1. Len(moves) \in 1..Len(moves) /\ Len(moves) - 1 \in 0..Len(moves)
      BY <1>8
    <2>2. Applied(moves) = Apply(after[Len(moves) - 1], moves[Len(moves)])
      BY <1>1, <2>1
    <2> QED BY <1>0, <1>5, <1>8, <2>1, <2>2, ApplyIs
  <1> QED BY <1>6, <1>7, <1>8


(* ... and what is held while keys are printed leads to the top.                *)
LEMMA FlushedIs ==
  ASSUME Screened, buffered \in Pending
  PROVE  /\ IsTerminal(Flushed)
         /\ buffered = <<>> => Flushed = Terminal
         /\ buffered # <<>> => InFront(Flushed, 0)
  <1>1. buffered \in Seq(Moves) /\ (buffered # <<>> => buffered[Len(buffered)] = "home")
    <2>1. /\ "home" \in Moves /\ "space" \in Moves
      BY DEF Moves
    <2>2. CASE buffered = <<>>
      BY <2>2
    <2>3. CASE buffered = <<"home">>
      <3>1. <<"home">> \in Seq(Moves)
        BY <2>1
      <3>2. Len(<<"home">>) = 1 /\ <<"home">>[1] = "home"
        OBVIOUS
      <3> QED BY <2>3, <3>1, <3>2
    <2>4. CASE buffered = <<"space", "home">>
      <3>1. <<"space", "home">> \in Seq(Moves)
        BY <2>1
      <3>2. Len(<<"space", "home">>) = 2 /\ <<"space", "home">>[2] = "home"
        OBVIOUS
      <3> QED BY <2>4, <3>1, <3>2
    <2> QED BY <2>2, <2>3, <2>4 DEF Pending
  <1> QED BY <1>1, AppliedEnds DEF Flushed

(* A line of a logo is as wide as its entry says.                               *)
LEMMA WidthOfLine ==
  ASSUME NEW s \in Seq(Nat), NEW k \in 1..Len(s)
  PROVE  s[k] \in Nat
  OBVIOUS

(* The options keep their types, and what fits goes on to fit.                  *)
LEMMA FitsFields ==
  ASSUME NEW o, Fits(o)
  PROVE  /\ o \in LogoOptions
         /\ o.width \in Nat /\ o.height \in Nat /\ o.left \in Nat /\ o.right \in Nat
         /\ o.top \in Nat /\ o.bottom \in Nat /\ o.keys \in Nat
         /\ o.lines \in Seq(Nat) /\ Len(o.lines) \in Nat /\ o.watch \in BOOLEAN
         /\ o.detected \in Seq(Nat) /\ o.frames \subseteq Seq(Nat)
         /\ o.mistaken \subseteq Nat \X Nat /\ o.type \in Types /\ o.next \in Seq(Types)
         /\ o.position \in {"left", "right", "top", "auto"}
  <1>1. o \in LogoOptions
    BY DEF Fits
  <1>2. /\ o.width \in Nat /\ o.height \in Nat /\ o.left \in Nat /\ o.right \in Nat
        /\ o.top \in Nat /\ o.bottom \in Nat /\ o.keys \in Nat /\ o.watch \in BOOLEAN
        /\ o.lines \in Seq(Nat) /\ o.detected \in Seq(Nat) /\ o.frames \in SUBSET Seq(Nat)
        /\ o.mistaken \in SUBSET (Nat \X Nat) /\ o.type \in Types /\ o.next \in Seq(Types)
        /\ o.position \in {"left", "right", "top", "auto"}
    BY <1>1 DEF LogoOptions
  <1> QED BY <1>1, <1>2

(* What there is room for: n lines, the keys, and what is around them.          *)
LEMMA RoomIs ==
  ASSUME NEW o, Fits(o), NEW n \in Heights(o), n \in Int
  PROVE  /\ o.top + o.height + o.bottom + o.right + o.keys + 4 <= Rows
         /\ o.top + n + o.bottom + o.right + o.keys + 4 <= Rows
  <1>1. o.height \in Nat
    BY FitsFields
  <1>2. Most({o.height, n}) >= o.height /\ Most({o.height, n}) >= n /\ Most({o.height, n}) \in Int
    BY <1>1, MostIs
  <1>3. o.top + Most({o.height, n}) + o.bottom + o.right + o.keys + 4 <= Rows
    BY DEF Fits
  <1>4. o.top \in Nat /\ o.bottom \in Nat /\ o.right \in Nat /\ o.keys \in Nat /\ Rows \in Int
    BY FitsFields, LogoAssumption
  <1> QED BY <1>1, <1>2, <1>3, <1>4

(* The heights it was reckoned with.                                            *)
LEMMA HeightsAre ==
  ASSUME NEW o, Fits(o)
  PROVE  /\ Len(o.lines) \in Heights(o) /\ Len(o.detected) \in Heights(o)
         /\ \A frame \in o.frames : Len(frame) \in Heights(o)
         /\ \A cells \in o.mistaken : cells[2] \in Heights(o)
         /\ Heights(o) \subseteq Nat
  BY FitsFields DEF Heights

(* The widths it was reckoned with.                                             *)
LEMMA WidthsAre ==
  ASSUME NEW o, NEW w
  PROVE  w \in Widths(o) <=>
           \/ w = 1 \/ w = o.width
           \/ \E i \in 1..Len(o.lines) : w = o.lines[i]
           \/ \E i \in 1..Len(o.detected) : w = o.detected[i]
           \/ \E frame \in o.frames : \E i \in 1..Len(frame) : w = frame[i]
           \/ \E cells \in o.mistaken : w = cells[1]
  <1> DEFINE Texts == {o.lines, o.detected} \union o.frames
             Of(text) == {text[i] : i \in 1..Len(text)}
             All == {Of(text) : text \in Texts}
             Others == {cells[1] : cells \in o.mistaken}
  <1>1. w \in Widths(o) <=> w = 1 \/ w = o.width \/ w \in UNION All \/ w \in Others
    <2> DEFINE Two == {1, o.width}
               Union == UNION All
    <2>1. Widths(o) = Two \union Others \union Union
      BY DEF Widths
    <2>2. w \in Two <=> w = 1 \/ w = o.width
      OBVIOUS
    <2> HIDE DEF Two, Union, Others
    <2>3. w \in Widths(o) <=> w \in Two \/ w \in Union \/ w \in Others
      BY <2>1
    <2> QED BY <2>2, <2>3 DEF Union
  <1>2. w \in UNION All <=> \E text \in Texts : w \in Of(text)
    <2> HIDE DEF Texts, Of
    <2>1. w \in UNION All <=> \E A \in All : w \in A
      OBVIOUS
    <2> QED BY <2>1
  <1>3. w \in Others <=> \E cells \in o.mistaken : w = cells[1]
    OBVIOUS
  <1>4. \A text : w \in Of(text) <=> \E i \in 1..Len(text) : w = text[i]
    OBVIOUS
  <1>5. (\E text \in Texts : w \in Of(text)) <=>
          w \in Of(o.lines) \/ w \in Of(o.detected) \/ \E frame \in o.frames : w \in Of(frame)
    <2> HIDE DEF Of
    <2> QED OBVIOUS
  <1> HIDE DEF All, Texts, Of, Others
  <1> QED BY <1>1, <1>2, <1>3, <1>4, <1>5, Zenon

(* The same options with other lines, of a size that was reckoned with.         *)
Redrawn(o, p, lines, position) == p = [o EXCEPT !.lines = lines, !.position = position]
Reckoned(o, lines) ==
  /\ lines \in Seq(Nat) /\ Len(lines) \in Heights(o)
  /\ \A i \in 1..Len(lines) : lines[i] \in Widths(o)
  /\ \/ lines = o.lines
     \/ o.type \notin Sent \union Decoded
     \/ o.type \in Decoded /\ Len(lines) > 0 /\ \A i \in 1..Len(lines) : lines[i] = lines[1]
LEMMA FitsLines ==
  ASSUME NEW o, Fits(o), NEW p, NEW lines, Reckoned(o, lines),
         NEW position \in {"left", "right", "top", "auto"},
         Redrawn(o, p, lines, position)
  PROVE  /\ Fits(p) /\ p.type = o.type /\ p.top = o.top /\ p.watch = o.watch
         /\ p.lines = lines /\ p.position = position /\ p.height = o.height /\ p.keys = o.keys
         /\ p.bottom = o.bottom /\ p.right = o.right /\ p.width = o.width /\ p.left = o.left
  <1>0. lines \in Seq(Nat) /\ Len(lines) \in Heights(o)
    BY DEF Reckoned
  <1>1. o \in LogoOptions
    BY FitsFields
  <1>2. p \in LogoOptions
    BY <1>0, <1>1 DEF LogoOptions, Redrawn
  <1>3. /\ p.type = o.type /\ p.top = o.top /\ p.watch = o.watch
        /\ p.lines = lines /\ p.position = position /\ p.height = o.height /\ p.keys = o.keys
        /\ p.bottom = o.bottom /\ p.right = o.right /\ p.width = o.width /\ p.left = o.left
        /\ p.detected = o.detected /\ p.frames = o.frames /\ p.mistaken = o.mistaken
    BY <1>1 DEF LogoOptions, Redrawn
  <1>4. Heights(p) \subseteq Heights(o)
    BY <1>0, <1>3 DEF Heights
  <1>5. Sent \cap Decoded = {}
    BY DEF Sent, Decoded
  <1>6. \A w \in Widths(p) : w \in Widths(o)
    <2> SUFFICES ASSUME NEW w \in Widths(p) PROVE w \in Widths(o)
      OBVIOUS
    <2>1. \/ w = 1 \/ w = o.width
          \/ \E i \in 1..Len(lines) : w = lines[i]
          \/ \E i \in 1..Len(o.detected) : w = o.detected[i]
          \/ \E frame \in o.frames : \E i \in 1..Len(frame) : w = frame[i]
          \/ \E cells \in o.mistaken : w = cells[1]
      BY <1>3, WidthsAre
    <2>2. CASE \E i \in 1..Len(lines) : w = lines[i]
      BY <2>2 DEF Reckoned
    <2> QED BY <2>1, <2>2, WidthsAre
  <1>7. FitsAcross(p)
    BY <1>3, <1>6 DEF FitsAcross, Fits
  <1>8. p.type \in Sent \union Decoded => Len(p.lines) > 0 /\ Rectangle(p) /\ \A cells \in p.mistaken : cells[2] > 0
    <2> SUFFICES ASSUME o.type \in Sent \union Decoded
                 PROVE  Len(p.lines) > 0 /\ Rectangle(p) /\ \A cells \in p.mistaken : cells[2] > 0
      BY <1>3
    <2>1. Len(o.lines) > 0 /\ Rectangle(o) /\ \A cells \in o.mistaken : cells[2] > 0
      BY DEF Fits
    <2>2. Len(lines) > 0 /\ Rectangle(p)
      BY <1>3, <1>5, <2>1 DEF Reckoned, Rectangle
    <2> QED BY <1>3, <2>1, <2>2
  <1>9. p.type \in Sent /\ p.width > 0 /\ p.height > 0 => Len(p.lines) = p.height
    BY <1>3, <1>5 DEF Reckoned, Fits
  <1>10. \A n \in Heights(p) : p.top + Most({p.height, n}) + p.bottom + p.right + p.keys + 4 <= Rows
    <2>1. \A n \in Heights(o) : o.top + Most({o.height, n}) + o.bottom + o.right + o.keys + 4 <= Rows
      BY DEF Fits
    <2> QED BY <1>3, <1>4, <2>1
  <1> QED BY <1>2, <1>3, <1>7, <1>8, <1>9, <1>10 DEF Fits

(* A position that is known.                                                    *)
LEMMA FitsPlaced ==
  ASSUME NEW o, Fits(o), NEW position \in {"left", "right", "top", "auto"},
         NEW p, p = [o EXCEPT !.position = position]
  PROVE  /\ Fits(p) /\ p.type = o.type /\ p.top = o.top /\ p.watch = o.watch
         /\ p.lines = o.lines /\ p.position = position /\ p.height = o.height /\ p.keys = o.keys
         /\ p.bottom = o.bottom /\ p.right = o.right /\ p.width = o.width /\ p.left = o.left
  <1>1. o \in LogoOptions
    BY FitsFields
  <1>2. Redrawn(o, p, o.lines, position)
    BY <1>1 DEF LogoOptions, Redrawn
  <1>3. o.lines \in Seq(Nat) /\ Len(o.lines) \in Heights(o)
    BY FitsFields, HeightsAre
  <1>4. \A i \in 1..Len(o.lines) : o.lines[i] \in Widths(o)
    BY WidthsAre
  <1>5. Reckoned(o, o.lines)
    BY <1>3, <1>4 DEF Reckoned
  <1> QED BY <1>2, <1>5, FitsLines

LEMMA PositionIs ==
  ASSUME NEW o, Fits(o), NEW width
  PROVE  Position(o, width) \in {"left", "right", "top"}
  <1>1. o.position \in {"left", "right", "top", "auto"}
    BY FitsFields
  <1> QED BY <1>1 DEF Position

(* A list of n lines, ...                                                       *)
LEMMA ListedIs ==
  ASSUME NEW n \in Nat, NEW s, s = [i \in 1..n |-> s[i]]
  PROVE  Len(s) = n /\ Listed(s) /\ s \in Seq({s[i] : i \in 1..n})
  <1> DEFINE S == {s[i] : i \in 1..n}
  <1>1. s \in [1..n -> S]
    <2>1. \A i \in 1..n : s[i] \in S
      OBVIOUS
    <2> HIDE DEF S
    <2> QED BY <2>1
  <1>2. s \in Seq(S)
    <2> HIDE DEF S
    <2> QED BY <1>1, SeqDef
  <1>3. DOMAIN s = 1..n
    OBVIOUS
  <1>4. Len(s) \in Nat /\ DOMAIN s = 1..Len(s)
    <2> HIDE DEF S
    <2> QED BY <1>2, LenProperties
  <1>5. Len(s) = n
    BY <1>3, <1>4
  <1> QED BY <1>2, <1>5 DEF Listed

(* ... and what is left of it.                                                  *)
LEMMA RestIs ==
  ASSUME NEW s, Listed(s), NEW n \in 0..Len(s)
  PROVE  Len(Rest(s, n)) = Len(s) - n /\ (Rest(s, n) = <<>> => n = Len(s))
  <1> DEFINE S == {s[i] : i \in 1..Len(s)}
  <1>1. s \in Seq(S) /\ Len(s) \in Nat
    BY ListedIs DEF Listed
  <1> HIDE DEF S
  <1>2. Len(Rest(s, n)) = Len(s) - n
    BY <1>1 DEF Rest
  <1>3. Rest(s, n) = <<>> => Len(s) - n = 0
    BY <1>2
  <1> QED BY <1>1, <1>2, <1>3

(* There is room for the lines of the cache, ...                                *)
LEMMA HeightIs ==
  ASSUME NEW o, Fits(o)
  PROVE  /\ Height(o) \in Nat /\ o.top + Len(o.lines) <= Height(o) + 1
         /\ Height(o) + o.bottom + o.keys + 4 <= Rows
  <1> DEFINE tp == o.top
             n == Len(o.lines)
             a == IF o.type = "chafa" THEN 0 ELSE o.height
             b == Minus(n, 1)
             c == Most({a, b})
             m == o.bottom
             k == o.keys
             g == o.right
             e == o.height
             R == Rows
             H == Height(o)
  <1>1. tp \in Nat /\ n \in Nat /\ m \in Nat /\ k \in Nat /\ g \in Nat /\ e \in Nat /\ R \in Nat
    BY FitsFields, LogoAssumption
  <1>2. tp + e + m + g + k + 4 <= R /\ tp + n + m + g + k + 4 <= R
    BY HeightsAre, RoomIs, FitsFields
  <1>3. H = tp + c
    BY DEF Height
  <1>4. a \in Nat /\ (a = 0 \/ a = e)
    BY <1>1
  <1>5. b = Minus(n, 1)
    OBVIOUS
  <1>6. a \in Int /\ b \in Int => c = IF a > b THEN a ELSE b
    BY MostIs
  <1> HIDE DEF tp, n, a, b, c, m, k, g, e, R, H
  <1>7. b \in Nat /\ b <= n /\ n <= b + 1
    BY <1>1, <1>5 DEF Minus
  <1>8. c \in Nat /\ b <= c /\ (c <= e \/ c <= n)
    BY <1>1, <1>4, <1>6, <1>7
  <1>9. H \in Nat /\ tp + n <= H + 1 /\ H + m + k + 4 <= R
    BY <1>1, <1>2, <1>3, <1>7, <1>8
  <1> QED BY <1>9 DEF tp, n, m, k, R, H

(* ... which are as many as the height says, and one.                           *)
LEMMA LinesAre ==
  ASSUME NEW o, Fits(o)
  PROVE  Len(Lines(o)) = Height(o) + 1 /\ Listed(Lines(o)) /\ Lines(o) # <<>>
  <1>1. Height(o) + 1 \in Nat
    BY HeightIs
  <1>2. Lines(o) = [i \in 1..Height(o) + 1 |-> Lines(o)[i]]
    BY DEF Lines
  <1>3. Len(Lines(o)) = Height(o) + 1 /\ Listed(Lines(o))
    BY <1>1, <1>2, ListedIs, Zenon
  <1>4. Len(<<>>) = 0 /\ Height(o) + 1 # 0
    BY HeightIs
  <1> QED BY <1>3, <1>4

(* What a step shows.                                                           *)
LEMMA ShowsIs ==
  ASSUME NEW t, Shows(t)
  PROVE  /\ cursor' = <<t.row, t.column>> /\ cursor'[1] = t.row /\ cursor'[2] = t.column
         /\ screen' = t.screen /\ cursor' = <<cursor'[1], cursor'[2]>>
         /\ IsTerminal(t) => DOMAIN screen' = 0..Rows - 1
  BY DEF Shows, IsTerminal

(* A logo of lines: above the keys the cursor goes behind it, else it stays.    *)
LEMMA CharsAbove ==
  ASSUME NEW o, Fits(o), NEW t, IsTerminal(t), t.row \in Nat, t.row <= 1
  PROVE  InFront(NewLines(PutLines(t, t.column, Lines(o)), o.bottom),
               t.row + Height(o) + 1 + o.bottom)
  <1> DEFINE low == PutLines(t, t.column, Lines(o))
             top == NewLines(low, o.bottom)
             h == Height(o)
             r == t.row
             m == o.bottom
             R == Rows
             y == low.row
             z == top.row
  <1>1. h \in Nat /\ m \in Nat /\ R \in Nat /\ o.keys \in Nat /\ h + m + o.keys + 4 <= R
    BY FitsFields, LogoAssumption, HeightIs
  <1>2. Len(Lines(o)) = h + 1 /\ Lines(o) # <<>>
    BY LinesAre
  <1>3. IsTerminal(low) /\ y = Least(r + (h + 1), R - 1) /\ low.column = 0
    BY <1>2, PutLinesIs
  <1>4. IF m = 0 THEN top = low ELSE InFront(top, Least(y + m, R - 1))
    BY <1>3, NewLinesIs
  <1>5. IsTerminal(top) /\ top.column = 0
    BY <1>3, <1>4 DEF InFront
  <1>6. IF m = 0 THEN z = y ELSE z = Least(y + m, R - 1)
    BY <1>4 DEF InFront
  <1> DEFINE k == o.keys
  <1>7. r \in Nat /\ r <= 1 /\ k \in Nat /\ h + m + k + 4 <= R
    BY <1>1
  <1> HIDE DEF low, top, h, r, m, R, y, z, k
  <1>8. y = r + h + 1
    BY <1>1, <1>3, <1>7 DEF Least
  <1>9. z = r + h + 1 + m
    BY <1>1, <1>6, <1>7, <1>8 DEF Least
  <1> QED BY <1>5, <1>9 DEF InFront, z, r, h, m, top, low

(* What ffLogoPrintChars leaves when it begins in this row, ...                 *)
Chars(o, row) ==
  /\ DOMAIN screen' = 0..Rows - 1 /\ cursor' = <<cursor'[1], cursor'[2]>>
  /\ cursor'[2] = 0 /\ nextLine' = 0
  /\ Fits(options') /\ options'.type = o.type /\ options'.watch = o.watch
  /\ options'.lines = o.lines /\ options'.keys = o.keys
  /\ drawn' = round /\ origin'[1] = row + o.top /\ origin'[1] \in Nat
  /\ logoHeight' \in Nat /\ Listed(cache')
  /\ cache' # <<>> => Len(cache') = logoHeight' + 1
  /\ cursor'[1] \in Nat /\ cursor'[1] + logoHeight' + o.keys + 2 <= Rows
  /\ \/ options'.position = "top"
     \/ cursor'[1] = row /\ origin'[1] + Len(o.lines) <= row + logoHeight' + 1

(* ... as it does.                                                              *)
LEMMA CharsIs ==
  ASSUME NEW o, Fits(o), NEW t, IsTerminal(t), t.row \in Nat, t.row <= 1, t.column = 0,
         LogoPrintChars(o, t)
  PROVE  Chars(o, t.row)
  <1> DEFINE position == Position(o, MaxWidth(o) + o.right)
             top == NewLines(PutLines(t, t.column, Lines(o)), o.bottom)
             h == Height(o)
             n == Len(o.lines)
             r == t.row
             m == o.bottom
             k == o.keys
             tp == o.top
             R == Rows
             x == IF position = "right" THEN FromRight(t, MaxWidth(o) + o.right - 1).column ELSE o.left
             y == cursor'[1]
             g == logoHeight'
             l == Len(cache')
             z == origin'[1]
  <1>0. /\ tp \in Nat /\ m \in Nat /\ k \in Nat /\ R \in Nat /\ n \in Nat
        /\ h \in Nat /\ tp + n <= h + 1 /\ h + m + k + 4 <= R
        /\ r \in Nat /\ r <= 1
    BY FitsFields, LogoAssumption, HeightIs
  <1>1. position \in {"left", "right", "top"}
    BY PositionIs
  <1>2. /\ options' = [o EXCEPT !.position = position] /\ drawn' = round
        /\ origin' = <<r + tp, x>> /\ nextLine' = 0
        /\ position = "top" => Shows(top) /\ cache' = <<>> /\ logoHeight' = 0
        /\ position # "top" => Shows(t) /\ cache' = Lines(o) /\ logoHeight' = h
    BY DEF LogoPrintChars, DrawnAt
  <1>3. z = r + tp /\ z \in Nat
    BY <1>0, <1>2
  <1>4. InFront(top, r + h + 1 + m)
    BY CharsAbove
  <1> HIDE DEF position, top, h, x
  <1>5. /\ Fits(options') /\ options'.type = o.type /\ options'.watch = o.watch
        /\ options'.lines = o.lines /\ options'.keys = o.keys /\ options'.position = position
    BY <1>1, <1>2, FitsPlaced
  <1>6. CASE position = "top"
    <2>1. /\ DOMAIN screen' = 0..Rows - 1 /\ cursor' = <<cursor'[1], cursor'[2]>>
          /\ cursor'[2] = 0 /\ y = r + h + 1 + m
      BY <1>2, <1>4, <1>6, ShowsIs DEF InFront
    <2>2. cache' = <<>> /\ g = 0
      BY <1>2, <1>6
    <2>3. Listed(cache')
      BY <2>2 DEF Listed
    <2>4. g \in Nat /\ y \in Nat /\ y + g + k + 2 <= R
      <3> HIDE DEF r, m, k, R, y, g
      <3> QED
        <4>1. y = r + h + 1 + m /\ g = 0
          BY <2>1, <2>2
        <4>2. /\ r \in Nat /\ h \in Nat /\ m \in Nat /\ k \in Nat /\ R \in Nat
              /\ r <= 1 /\ h + m + k + 4 <= R
          BY <1>0
        <4> HIDE DEF tp, n
        <4> QED BY <4>1, <4>2
    <2> QED BY <1>2, <1>3, <1>5, <1>6, <2>1, <2>2, <2>3, <2>4, Zenon DEF Chars, r, k, R, y, g, z, tp
  <1>7. CASE position # "top"
    <2>1. /\ DOMAIN screen' = 0..Rows - 1 /\ cursor' = <<cursor'[1], cursor'[2]>>
          /\ cursor'[2] = 0 /\ y = r
      BY <1>2, <1>7, ShowsIs
    <2>2. l = g + 1 /\ Listed(cache') /\ g = h
      BY <1>2, <1>7, LinesAre DEF h
    <2>3. g \in Nat /\ y \in Nat /\ y + g + k + 2 <= R /\ z + n <= r + g + 1
      <3> HIDE DEF r, m, k, R, y, g, z, n, tp
      <3>1. g \in Nat /\ y \in Nat /\ y + g + k + 2 <= R
        BY <1>0, <2>1, <2>2
      <3>2. z + n <= r + g + 1
        <4>1. g = h /\ z = r + tp
          BY <1>3, <2>2
        <4> QED BY <1>0, <4>1
      <3> QED BY <3>1, <3>2
    <2> QED BY <1>2, <1>3, <1>5, <2>1, <2>2, <2>3, Zenon DEF Chars, r, k, R, y, g, z, n, l, tp
  <1> QED BY <1>6, <1>7

(* What is drawn first, and then printed beside.                                *)
Drawn ==
  /\ Screen /\ shown = <<>> /\ keysHeight = 0 /\ nextLine = 0
  /\ buffered \in Pending /\ Listed(cache) /\ (cache # <<>> => Len(cache) = logoHeight + 1)
  /\ excuse = "none" =>
       /\ Room(Here) /\ Reaches(Here + logoHeight + 1)
       /\ buffered # <<>> \/ cursor[2] = 0 \/ cache = <<>>
       /\ options.watch => Free \/ Here = 0

(* No lines.                                                                    *)
LEMMA EmptyIs == Listed(<<>>) /\ Len(<<>>) = 0
  BY DEF Listed

(* So it is right to begin with the keys.                                       *)
LEMMA DrawnIs ==
  ASSUME Drawn, at = "keys"
  PROVE  EndsInv
  <1>1. Listed(shown) /\ Len(shown) = 0 /\ Screen /\ at = "keys" /\ options.keys \in Nat
    BY EmptyIs, FitsFields DEF Drawn, Screen
  <1>2. Here \in Nat
    BY <1>1 DEF Here, Screen
  <1>3. Top = Here
    BY <1>1, <1>2 DEF Top
  <1>4. nextLine = Least(Len(shown), Len(cache))
    <2>1. Len(cache) \in Nat /\ Len(shown) = 0 /\ nextLine = 0
      BY <1>1 DEF Drawn, Listed
    <2> QED BY <2>1 DEF Least
  <1>5. Printing
    <2>1. Len(shown) <= options.keys
      BY <1>1
    <2> QED BY <1>1, <1>4, <2>1 DEF Printing, Drawn
  <1>6. excuse = "none" => Standing
    <2>1. \A i \in 1..Len(shown) : shown[i][1] = Top + i - 1
      BY <1>1
    <2>2. excuse = "none" => Room(Top) /\ Reaches(Top + logoHeight + 1) /\ (options.watch => Free \/ Top = 0)
      BY <1>3, Zenon DEF Drawn
    <2> QED BY <1>2, <1>3, <2>1, <2>2, Zenon DEF Standing, Drawn
  <1>7. AtKeys
    BY <1>5, <1>6 DEF AtKeys
  <1> QED BY <1>1, <1>7 DEF EndsInv, AtLogo, AtCursor, AtSleep

(* The first thing of a logo.                                                   *)
LEMMA AtLogoIs ==
  ASSUME EndsInv, at \in {"logo", "measuring", "unmeasured"}, options.type # "spin"
  PROVE  /\ Screen /\ Screened /\ Unprinted
         /\ buffered = <<>> /\ cursor[1] = Start /\ cursor[2] = 0 /\ drawn = 0
         /\ Flushed = Terminal
         /\ IsTerminal(Terminal) /\ Terminal.row = Start /\ Terminal.column = 0
         /\ Fits(options) /\ Start \in Nat /\ Start <= 1 /\ (options.watch => Start = 0)
  <1>1. Screen /\ AtLogo /\ Screened /\ Fits(options)
    BY DEF EndsInv, Alive, Screen
  <1>2. Unprinted /\ buffered = <<>> /\ cursor[1] = Start /\ cursor[2] = 0 /\ drawn = 0
    BY <1>1 DEF AtLogo
  <1>3. IsTerminal(Terminal) /\ Terminal.row = Start /\ Terminal.column = 0
    BY <1>1, <1>2, TerminalIs, Zenon
  <1>4. Flushed = Terminal
    BY <1>1, <1>2, FlushedIs DEF Pending
  <1> QED BY <1>1, <1>2, <1>3, <1>4 DEF Start

(* A logo of lines was drawn.                                                   *)
LEMMA CharsDrawn ==
  ASSUME NEW o, NEW r, r \in Nat, Chars(o, r), o.keys \in Nat, shown' = <<>>, keysHeight' = 0, buffered' = <<>>,
         round' \in Nat \ {0}, o.watch => r = 0
  PROVE  Drawn'
  <1> DEFINE y == cursor'[1]
             g == logoHeight'
             k == o.keys
             R == Rows
  <1>1. y \in Nat /\ g \in Nat /\ k \in Nat /\ y + g + k + 2 <= R /\ R \in Nat
    BY LogoAssumption DEF Chars
  <1>2. y < R
    <2> HIDE DEF y, g, k, R
    <2> QED BY <1>1
  <1>3. Screen'
    BY <1>1, <1>2 DEF Screen, Screened, Chars
  <1>4. Here' = y
    BY DEF Here
  <1>5. Room(Here)'
    <2>1. options'.keys = k
      BY DEF Chars
    <2> QED BY <1>1, <1>4, <2>1, Zenon DEF Room
  <1>6. options'.position = "top" => Free'
    BY DEF Free
  <1>7. options'.position # "top" => Reaches(Here + logoHeight + 1)' /\ Here' = r
    <2>1. options'.position # "top" => y = r /\ origin'[1] + Len(options'.lines) <= r + g + 1
      BY DEF Chars
    <2> QED BY <1>4, <2>1, Zenon DEF Reaches
  <1>8. Reaches(Here + logoHeight + 1)' /\ (options'.watch => Free' \/ Here' = 0)
    <2>1. options'.watch = o.watch
      BY DEF Chars
    <2>2. CASE options'.position = "top"
      BY <1>6, <2>2, Zenon DEF Reaches
    <2>3. CASE options'.position # "top"
      BY <1>7, <2>1, <2>3, Zenon
    <2> QED BY <2>2, <2>3
  <1>9. buffered' \in Pending /\ nextLine' = 0 /\ Listed(cache') /\ (cache' # <<>> => Len(cache') = logoHeight' + 1)
        /\ cursor'[2] = 0
    BY DEF Pending, Chars
  <1> QED BY <1>3, <1>5, <1>8, <1>9, Zenon DEF Drawn

(* The steps that draw one: lines, ...                                          *)
LEMMA LogoLinesEnd ==
  ASSUME EndsInv, LogoPrintLines
  PROVE  Drawn'
  <1>1. at = "logo" /\ options.type = "lines" /\ LogoPrintChars(options, Terminal)
        /\ UNCHANGED <<keysHeight, buffered, round, shown>>
    BY DEF LogoPrintLines
  <1>2. options.type # "spin"
    BY <1>1
  <1> DEFINE r == Start
  <1>3. Unprinted /\ buffered = <<>> /\ (options.watch => r = 0) /\ r \in Nat /\ round \in Nat \ {0}
        /\ options.keys \in Nat
    BY <1>1, <1>2, AtLogoIs, FitsFields DEF Screen
  <1>4. Chars(options, r)
    BY <1>1, <1>2, AtLogoIs, CharsIs
  <1> HIDE DEF r
  <1> QED BY <1>1, <1>3, <1>4, CharsDrawn DEF Unprinted

(* ... none, ...                                                                *)
LEMMA LogoNoneEnds ==
  ASSUME EndsInv, LogoPrintNone
  PROVE  Drawn'
  <1>1. /\ at = "logo" /\ options.type = "none" /\ logoHeight' = 0
        /\ UNCHANGED <<options, cache, nextLine, keysHeight, screen, cursor, buffered, round, drawn, origin,
                       shown>>
    BY DEF LogoPrintNone
  <1>2. options.type # "spin"
    BY <1>1
  <1>3. /\ Screen /\ Unprinted /\ buffered = <<>> /\ cursor[1] = Start /\ cursor[2] = 0 /\ drawn = 0
        /\ (options.watch => Start = 0) /\ Start \in Nat /\ Start <= 1
    BY <1>1, <1>2, AtLogoIs
  <1>4. Screen'
    BY <1>1, <1>3 DEF Screen, Screened
  <1>5. Here' = Start
    BY <1>1, <1>3 DEF Here
  <1>6. Room(Here)'
    <2> DEFINE k == options.keys
               q == Start
               H == Height(options)
               m == options.bottom
               R == Rows
    <2>1. k \in Nat /\ q \in Nat /\ q <= 1 /\ H \in Nat /\ m \in Nat /\ H + m + k + 4 <= R /\ R \in Nat
      BY <1>3, HeightIs, FitsFields, LogoAssumption DEF Screen
    <2> HIDE DEF k, q, H, m, R
    <2>2. q + 0 + k + 2 <= R
      BY <2>1
    <2> QED BY <1>1, <1>5, <2>2 DEF Room, k, q, R
  <1>7. Free'
    BY <1>1, <1>3 DEF Free
  <1>8. cache' = <<>> /\ Listed(cache') /\ buffered' \in Pending
    BY <1>1, <1>3, EmptyIs DEF Pending, Unprinted
  <1> QED BY <1>1, <1>3, <1>4, <1>6, <1>7, <1>8, Zenon DEF Drawn, Unprinted, Reaches

(* Of a logo that spins: it is drawn where the last one was.                     *)
LEMMA SpinBegins ==
  ASSUME EndsInv, at = "logo", options.type = "spin", NEW more, more \in {<<>>, <<"clear", "home">>},
         drawn = 0 => more = <<>>, NEW t, t = Applied(buffered \o more)
  PROVE  IsTerminal(t) /\ t.row = Start /\ t.column = 0
  <1> DEFINE moves == buffered \o more
  <1>1. Screen /\ AtLogo /\ Screened
    BY DEF EndsInv, Alive, Screen
  <1>2. \/ buffered = <<>> /\ cursor[1] = Start /\ cursor[2] = 0 /\ drawn = 0
        \/ buffered = <<"home">> /\ options.watch
    BY <1>1 DEF AtLogo
  <1>3. CASE buffered = <<>> /\ cursor[1] = Start /\ cursor[2] = 0 /\ drawn = 0
    <2>1. moves = <<>> /\ <<>> \in Seq(Moves)
      BY <1>3
    <2>2. t = Terminal
      BY <1>1, <2>1, AppliedEnds
    <2> QED BY <1>1, <1>3, <2>2, TerminalIs
  <1>4. CASE buffered = <<"home">> /\ options.watch
    <2>2. moves \in Seq(Moves) /\ moves # <<>> /\ moves[Len(moves)] = "home"
      <3>1. CASE more = <<>>
        <4>1. moves = <<"home">>
          BY <1>4, <3>1
        <4> QED BY <4>1 DEF Moves
      <3>2. CASE more = <<"clear", "home">>
        <4>1. <<"home">> \in Seq(Moves) /\ <<"clear", "home">> \in Seq(Moves)
          BY DEF Moves
        <4>2. moves = <<"home">> \o <<"clear", "home">>
          BY <1>4, <3>2
        <4>3. Len(<<"home">>) = 1 /\ Len(<<"clear", "home">>) = 2 /\ <<"clear", "home">>[2] = "home"
          OBVIOUS
        <4> DEFINE a == <<"home">>
                   b == <<"clear", "home">>
        <4>4. b[2] = "home"
          OBVIOUS
        <4> HIDE DEF a, b, moves
        <4>5. a \in Seq(Moves) /\ b \in Seq(Moves) /\ Len(a) = 1 /\ Len(b) = 2 /\ moves = a \o b
          BY <4>1, <4>2, <4>3 DEF a, b
        <4>6. a \o b \in Seq(Moves) /\ Len(a \o b) = 3 /\ (a \o b)[3] = b[2]
          <5>1. Len(a \o b) = 1 + 2 /\ a \o b \in Seq(Moves)
            BY <4>5, ConcatProperties
          <5>2. \A i \in 1..Len(a) + Len(b) : (a \o b)[i] = IF i <= Len(a) THEN a[i] ELSE b[i - Len(a)]
            BY <4>5, ConcatProperties
          <5>3. 3 \in 1..Len(a) + Len(b) /\ ~(3 <= Len(a)) /\ 3 - Len(a) = 2
            BY <4>5
          <5> QED BY <5>1, <5>2, <5>3
        <4>7. moves \in Seq(Moves) /\ Len(moves) = 3 /\ moves[3] = "home"
          BY <4>4, <4>5, <4>6
        <4> QED BY <4>7
      <3> QED BY <3>1, <3>2
    <2>3. IsTerminal(t) /\ InFront(t, 0)
      <3> HIDE DEF moves
      <3>1. t = Applied(moves)
        BY DEF moves
      <3> QED BY <1>1, <2>2, <3>1, AppliedEnds
    <2> QED BY <1>4, <2>3 DEF InFront, Start
  <1> QED BY <1>2, <1>3, <1>4

(* A frame fits as the logo does.                                               *)
LEMMA FitsFrame ==
  ASSUME NEW o, Fits(o), o.type = "spin", NEW frame \in o.frames, NEW p, p = [o EXCEPT !.lines = frame]
  PROVE  Fits(p) /\ p.watch = o.watch /\ p.keys = o.keys
  <1>1. o \in LogoOptions /\ frame \in Seq(Nat) /\ Len(frame) \in Heights(o)
        /\ o.position \in {"left", "right", "top", "auto"}
    BY FitsFields, HeightsAre
  <1>2. p = [o EXCEPT !.lines = frame, !.position = o.position]
    BY <1>1 DEF LogoOptions
  <1>3. Redrawn(o, p, frame, o.position)
    BY <1>2, Zenon DEF Redrawn
  <1>4. o.type \notin Sent \union Decoded
    BY DEF Sent, Decoded
  <1>5. \A i \in 1..Len(frame) : frame[i] \in Widths(o)
    BY WidthsAre
  <1>6. Reckoned(o, frame)
    BY <1>1, <1>4, <1>5 DEF Reckoned
  <1> QED BY <1>1, <1>3, <1>6, FitsLines

(* A logo that spins ...                                                        *)
LEMMA LogoSpinEnds ==
  ASSUME EndsInv, LogoPrintSpin
  PROVE  Drawn'
  <1>1. at = "logo" /\ options.type = "spin" /\ UNCHANGED <<keysHeight, round, shown>>
    BY DEF LogoPrintSpin
  <1>2. Screen /\ AtLogo /\ Fits(options) /\ round \in Nat \ {0}
    BY <1>1 DEF EndsInv, Alive, Screen
  <1>3. Unprinted /\ (drawn = 0 \/ options.watch)
    BY <1>1, <1>2 DEF AtLogo
  <1>4. PICK frame \in options.frames :
          LET resized == drawn # 0 /\ frame # options.lines
              flushed == Flush(buffered \o (IF resized THEN <<"clear", "home">> ELSE <<>>))
          IN /\ LogoPrintChars([options EXCEPT !.lines = frame], flushed.terminal)
             /\ buffered' = flushed.held
    BY DEF LogoPrintSpin
  <1> DEFINE resized == drawn # 0 /\ frame # options.lines
             more == IF resized THEN <<"clear", "home">> ELSE <<>>
             t == Applied(buffered \o more)
             p == [options EXCEPT !.lines = frame]
             r == Start
  <1>5. LogoPrintChars(p, t) /\ buffered' = <<>>
    BY <1>4 DEF Flush
  <1>6. more \in {<<>>, <<"clear", "home">>} /\ (drawn = 0 => more = <<>>)
    OBVIOUS
  <1>7. IsTerminal(t) /\ t.row = r /\ t.column = 0
    <2> HIDE DEF more
    <2> QED BY <1>1, <1>6, SpinBegins
  <1>8. r \in Nat /\ r <= 1 /\ (options.watch => r = 0)
    BY DEF Start
  <1>9. Fits(p) /\ p.watch = options.watch /\ p.keys = options.keys /\ p.keys \in Nat
    BY <1>1, <1>2, FitsFrame, FitsFields
  <1> HIDE DEF t, p, r
  <1>10. Chars(p, r)
    <2>1. Chars(p, t.row)
      BY <1>5, <1>7, <1>8, <1>9, CharsIs
    <2> QED BY <1>7, <2>1, Zenon
  <1> QED BY <1>1, <1>2, <1>3, <1>5, <1>8, <1>9, <1>10, CharsDrawn DEF Unprinted

(* ... or is lost.                                                              *)
LEMMA LogoSpinFailsEnds ==
  ASSUME EndsInv, LogoPrintSpinFails
  PROVE  Drawn'
  <1>1. /\ at = "logo" /\ options.type = "spin" /\ logoHeight' = 0 /\ excuse' = "lost"
        /\ UNCHANGED <<options, cache, nextLine, keysHeight, screen, cursor, buffered, round, drawn, origin,
                       shown>>
    BY DEF LogoPrintSpinFails
  <1>2. Screen /\ AtLogo
    BY <1>1 DEF EndsInv, Alive
  <1>3. Unprinted /\ buffered \in Pending
    BY <1>1, <1>2 DEF AtLogo, Pending
  <1>4. Screen'
    BY <1>1, <1>2 DEF Screen, Screened
  <1> QED BY <1>1, <1>3, <1>4, EmptyIs DEF Drawn, Unprinted

(* An image: the cursor is left where the code puts it.                          *)
LeftAt(row) ==
  excuse' = "none" =>
    /\ row + logoHeight' + options'.keys + 2 <= Rows
    /\ \/ Free'
       \/ /\ origin'[1] + Len(options'.lines) <= row + logoHeight' + 1
          /\ options'.watch => row = 0

(* An image was drawn.                                                          *)
LEMMA ImageDrawn ==
  ASSUME Unprinted, round \in Nat \ {0}, UNCHANGED <<cache, nextLine, keysHeight, shown, round>>,
         NEW u, Shows(u), IsTerminal(u), u.row \in Nat, u.row < Rows, buffered' = <<>>,
         Fits(options'), logoHeight' \in Nat, origin'[1] \in Nat, LeftAt(u.row)
  PROVE  Drawn'
  <1>1. /\ cursor' = <<cursor'[1], cursor'[2]>> /\ cursor'[1] = u.row /\ DOMAIN screen' = 0..Rows - 1
    BY ShowsIs
  <1>2. Screen'
    BY <1>1 DEF Screen, Screened
  <1>3. Here' = u.row
    BY <1>1 DEF Here
  <1>4. cache' = <<>> /\ nextLine' = 0 /\ shown' = <<>> /\ keysHeight' = 0
    BY DEF Unprinted
  <1>5. buffered' \in Pending /\ Listed(cache')
    BY <1>4, EmptyIs DEF Pending
  <1>6. excuse' = "none" => /\ Room(Here)' /\ Reaches(Here + logoHeight + 1)'
                            /\ (options'.watch => Free' \/ Here' = 0)
    BY <1>3, Zenon DEF LeftAt, Room, Reaches
  <1> QED BY <1>2, <1>4, <1>5, <1>6, Zenon DEF Drawn

(* Nothing was held, so write(2) and stdio do the same.                         *)
LEMMA DrawsIs ==
  ASSUME buffered = <<>>, NEW o, NEW t, Draws(o, t) \/ Prints(t)
  PROVE  Shows(t) /\ buffered' = <<>>
  BY DEF Draws, Writes, Prints

(* Past the padding.                                                            *)
LEMMA DownIs ==
  ASSUME NEW o, Fits(o), NEW t, IsTerminal(t), t.row \in Nat, t.row <= 1
  PROVE  IsTerminal(NewLines(t, o.top)) /\ NewLines(t, o.top).row = t.row + o.top
  <1> DEFINE down == NewLines(t, o.top)
             r == t.row
             y == down.row
             tp == o.top
             n == Height(o)
             m == o.bottom
             k == o.keys
             R == Rows
  <1>1. tp \in Nat /\ R \in Nat /\ r \in Nat /\ r <= 1 /\ n \in Nat /\ tp <= n + 1 /\ m \in Nat /\ k \in Nat
        /\ n + m + k + 4 <= R
    <2> DEFINE l == Len(o.lines)
    <2>1. l \in Nat /\ tp \in Nat /\ n \in Nat /\ tp + l <= n + 1
      BY FitsFields, HeightIs
    <2> HIDE DEF l, tp, n
    <2>2. tp <= n + 1
      BY <2>1
    <2> QED BY <2>2, FitsFields, LogoAssumption, HeightIs DEF tp, n
  <1>2. IF tp = 0 THEN down = t ELSE InFront(down, Least(r + tp, R - 1))
    BY NewLinesIs
  <1>3. IsTerminal(down) /\ y = IF tp = 0 THEN r ELSE Least(r + tp, R - 1)
    BY <1>2 DEF InFront
  <1> HIDE DEF down, r, y, tp, n, m, k, R
  <1>4. y = r + tp
    BY <1>1, <1>3 DEF Least
  <1> QED BY <1>3, <1>4 DEF down, y, r, tp

(* An image leaves the cursor in its last row.                                  *)
LEMMA ImageIs ==
  ASSUME NEW o, NEW t, IsTerminal(t)
  PROVE  IsTerminal(Image(o, t)) /\ Image(o, t).row = t.row + Len(o.lines) - 1
  <1> DEFINE last == Len(o.lines)
             texts == [i \in 1..last |-> Cells(o.lines[i], LogoCell(i))]
             low == PutLines(t, t.column, texts)
  <1>1. Image(o, t) = MoveTo(low, t.row + last - 1, t.column + o.lines[last])
    BY DEF Image
  <1>2. IsTerminal(low)
    BY PutLinesIs
  <1> HIDE DEF low
  <1> QED BY <1>1, <1>2, MoveToIs

(* What the rows of an image add up to.                                          *)
RowsFit(o) ==
  /\ o.top \in Nat /\ o.height \in Nat /\ o.right \in Nat /\ o.keys \in Nat /\ Len(o.lines) \in Nat /\ Rows \in Nat
  /\ o.top + o.height + o.right + o.keys + 4 <= Rows
  /\ o.top + Len(o.lines) + o.right + o.keys + 4 <= Rows
LEMMA SizesAre == ASSUME NEW o, Fits(o) PROVE RowsFit(o)
  <1> DEFINE tp == o.top
             n == Len(o.lines)
             m == o.bottom
             k == o.keys
             g == o.right
             e == o.height
             R == Rows
  <1>1. tp \in Nat /\ n \in Nat /\ m \in Nat /\ k \in Nat /\ g \in Nat /\ e \in Nat /\ R \in Nat
    BY FitsFields, LogoAssumption
  <1>2. tp + e + m + g + k + 4 <= R /\ tp + n + m + g + k + 4 <= R
    BY HeightsAre, RoomIs, FitsFields
  <1> HIDE DEF tp, n, m, k, g, e, R
  <1>3. tp + e + g + k + 4 <= R /\ tp + n + g + k + 4 <= R
    BY <1>1, <1>2
  <1> QED BY <1>1, <1>3 DEF RowsFit, tp, n, k, g, e, R

(* What holds when an image is sent to the terminal.                            *)
SentAs(o) ==
  /\ options' = o /\ Fits(o) /\ o.type \in Sent /\ o.position \in {"left", "right", "top"}
  /\ Unprinted /\ round \in Nat \ {0} /\ buffered = <<>> /\ (o.watch => Start = 0) /\ Start \in Nat /\ Start <= 1
  /\ UNCHANGED <<cache, nextLine, keysHeight, shown, round>>
AtStart(t) == IsTerminal(t) /\ t.row = Start

(* The moves after an image of a size that is known, ...                        *)
LEMMA SizedRows ==
  ASSUME NEW o, SentAs(o), o.width > 0, o.height > 0, NEW t, AtStart(t),
         NEW start, IsTerminal(start), start.row = t.row + o.top
  PROVE  LET below == NewLine(Image(o, start)) n == Len(o.lines)
         IN /\ IsTerminal(below) /\ below.row = Start + o.top + n
            /\ IsTerminal(UpBy(below, o.top + o.height)) /\ UpBy(below, o.top + o.height).row = Start
            /\ IsTerminal(UpBy(below, o.height)) /\ UpBy(below, o.height).row = Start + o.top
            /\ IsTerminal(NewLines(below, o.right))
            /\ NewLines(below, o.right).row = Start + o.top + n + o.right
  <1> DEFINE drawing == Image(o, start)
             below == NewLine(drawing)
             u == UpBy(below, o.top + o.height)
             v == UpBy(below, o.height)
             w == NewLines(below, o.right)
             r == Start
             s == start.row
             d == drawing.row
             b == below.row
             ur == u.row
             vr == v.row
             wr == w.row
             n == Len(o.lines)
             tp == o.top
             g == o.right
             e == o.height
             k == o.keys
             R == Rows
  <1>1. /\ tp \in Nat /\ e \in Nat /\ g \in Nat /\ k \in Nat /\ n \in Nat /\ R \in Nat
        /\ tp + n + g + k + 4 <= R /\ r \in Nat /\ r <= 1
    BY SizesAre DEF SentAs, RowsFit
  <1>2. n = e /\ e > 0
    BY DEF SentAs, Fits
  <1>3. s = r + tp
    BY DEF AtStart
  <1>4. IsTerminal(drawing) /\ d = s + n - 1
    BY ImageIs
  <1>5. IsTerminal(below) /\ b = Least(d + 1, R - 1)
    BY <1>4, NewLineIs DEF InFront
  <1>6. b = r + tp + n
    <2> HIDE DEF s, d, b, r, tp, n, R, k, g, e
    <2>1. d + 1 = r + tp + n /\ d + 1 <= R - 1
      BY <1>1, <1>3, <1>4
    <2> QED BY <1>1, <1>5, <2>1 DEF Least
  <1>7. tp + e \in Int /\ e \in Int /\ b \in Int
    BY <1>1, <1>6
  <1>8. IsTerminal(u) /\ ur = Minus(b, IF tp + e > 1 THEN tp + e ELSE 1)
    <2> HIDE DEF below
    <2> QED BY <1>5, <1>7, UpByIs DEF b
  <1>9. IsTerminal(v) /\ vr = Minus(b, IF e > 1 THEN e ELSE 1)
    <2> HIDE DEF below
    <2> QED BY <1>5, <1>7, UpByIs DEF b
  <1>10. IF g = 0 THEN w = below ELSE InFront(w, Least(b + g, R - 1))
    <2> HIDE DEF below
    <2> QED BY <1>5, NewLinesIs DEF b
  <1>11. IsTerminal(w) /\ wr = IF g = 0 THEN b ELSE Least(b + g, R - 1)
    <2> HIDE DEF below
    <2> QED BY <1>5, <1>10 DEF InFront, b
  <1>12. ur = r /\ vr = r + tp /\ wr = r + tp + n + g
    <2> HIDE DEF s, d, b, r, tp, n, R, k, g, e, ur, vr, wr
    <2> QED BY <1>1, <1>2, <1>6, <1>8, <1>9, <1>11 DEF Minus, Least
  <1> QED BY <1>5, <1>6, <1>8, <1>9, <1>11, <1>12

(* ... so the keys begin in its first row, ...                                  *)
LEMMA SizedEnds ==
  ASSUME NEW o, SentAs(o), o.width > 0, o.height > 0, NEW t, AtStart(t), ImageSized(o, t)
  PROVE  Drawn'
  <1> DEFINE down == NewLines(t, o.top)
             start == IF o.position = "right" THEN FromRight(down, o.right + o.width)
                      ELSE Forward(down, o.left)
             below == NewLine(Image(o, start))
             left == UpBy(below, o.top + o.height)
             right == UpBy(below, o.height)
             top == NewLines(below, o.right)
             r == Start
             n == Len(o.lines)
             tp == o.top
             g == o.right
             e == o.height
             k == o.keys
             R == Rows
             h == logoHeight'
  <1>1. /\ tp \in Nat /\ e \in Nat /\ g \in Nat /\ k \in Nat /\ n \in Nat /\ R \in Nat
        /\ tp + n + g + k + 4 <= R /\ r \in Nat /\ r <= 1 /\ n = e
    BY SizesAre DEF SentAs, RowsFit, Fits
  <1>2. IsTerminal(down) /\ down.row = t.row + o.top
    BY DownIs DEF SentAs, AtStart
  <1>3. IsTerminal(start) /\ start.row = t.row + o.top
    BY <1>2, FromRightStays, ForwardStays DEF Stays
  <1>4. /\ DrawnAt(start.row, start.column)
        /\ o.position = "left" => Draws(o, left) /\ h = o.top + o.height
        /\ o.position = "top" => Draws(o, top) /\ h = 0
        /\ o.position = "right" => Draws(o, right) /\ h = 0
    BY DEF ImageSized
  <1> HIDE DEF start
  <1>5. /\ IsTerminal(below)
        /\ IsTerminal(left) /\ left.row = r
        /\ IsTerminal(right) /\ right.row = r + tp
        /\ IsTerminal(top) /\ top.row = r + tp + n + g
    BY <1>3, SizedRows
  <1> HIDE DEF below, left, right, top
  <1>6. options' = o /\ buffered = <<>> /\ Fits(o) /\ Unprinted /\ round \in Nat \ {0} /\ (o.watch => r = 0)
        /\ UNCHANGED <<cache, nextLine, keysHeight, shown, round>>
    BY DEF SentAs
  <1>7. origin'[1] = r + tp /\ origin'[1] \in Nat
    BY <1>1, <1>3, <1>4 DEF DrawnAt, AtStart
  <1>8. ASSUME NEW u, Draws(o, u), IsTerminal(u), u.row \in Nat, h \in Nat, u.row + h + k + 2 <= R,
               Free' \/ (r + tp + n <= u.row + h + 1 /\ u.row = r)
        PROVE  Drawn'
    <2>1. Shows(u) /\ buffered' = <<>>
      BY <1>6, <1>8, DrawsIs
    <2>2. u.row < R
      <3> DEFINE y == u.row
      <3>1. y \in Nat /\ h \in Nat /\ y + h + k + 2 <= R
        BY <1>8
      <3> HIDE DEF y, h, k, R
      <3>2. y < R
        BY <1>1, <3>1
      <3> QED BY <3>2 DEF y
    <2>3. LeftAt(u.row)
      <3>1. options'.keys = k /\ options'.lines = o.lines /\ options'.watch = o.watch
        BY <1>6
      <3> QED BY <1>6, <1>7, <1>8, <3>1, Zenon DEF LeftAt, k, R, h, n
    <2> QED BY <1>6, <1>7, <1>8, <2>1, <2>2, <2>3, ImageDrawn
  <1>9. CASE o.position = "left"
    <2>1. left.row \in Nat /\ h \in Nat /\ left.row + h + k + 2 <= R /\ r + tp + n <= left.row + h + 1
      <3> DEFINE y == left.row
      <3>1. y = r /\ h = tp + e
        BY <1>4, <1>5, <1>9
      <3> HIDE DEF y, h, r, tp, n, g, e, k, R
      <3>2. y \in Nat /\ h \in Nat /\ y + h + k + 2 <= R /\ r + tp + n <= y + h + 1
        BY <1>1, <3>1
      <3> QED BY <3>2 DEF y
    <2> QED BY <1>4, <1>5, <1>8, <1>9, <2>1
  <1>10. CASE o.position = "top"
    <2>1. top.row \in Nat /\ h \in Nat /\ top.row + h + k + 2 <= R
      <3> DEFINE y == top.row
      <3>1. y = r + tp + n + g /\ h = 0
        BY <1>4, <1>5, <1>10
      <3> HIDE DEF y, h, r, tp, n, g, e, k, R
      <3>2. y \in Nat /\ h \in Nat /\ y + h + k + 2 <= R
        BY <1>1, <3>1
      <3> QED BY <3>2 DEF y
    <2>2. Free'
      BY <1>6, <1>10 DEF Free
    <2> QED BY <1>4, <1>5, <1>8, <1>10, <2>1, <2>2
  <1>11. CASE o.position = "right"
    <2>1. right.row \in Nat /\ h \in Nat /\ right.row + h + k + 2 <= R
      <3> DEFINE y == right.row
      <3>1. y = r + tp /\ h = 0
        BY <1>4, <1>5, <1>11
      <3> HIDE DEF y, h, r, tp, n, g, e, k, R
      <3>2. y \in Nat /\ h \in Nat /\ y + h + k + 2 <= R
        BY <1>1, <3>1
      <3> QED BY <3>2 DEF y
    <2>2. Free'
      BY <1>6, <1>11 DEF Free, HeightForgotten, SentAs
    <2> QED BY <1>4, <1>5, <1>8, <1>11, <2>1, <2>2
  <1> QED BY <1>9, <1>10, <1>11 DEF SentAs

(* ... or below it, ...                                                         *)
LEMMA AtTopEnds ==
  ASSUME NEW o, SentAs(o), o.position = "top", NEW t, AtStart(t), NEW column, ImageAtTop(o, t, column)
  PROVE  Drawn'
  <1> DEFINE start == Forward(NewLines(t, o.top), column)
             drawing == Image(o, start)
             u == NewLines(drawing, o.right)
             r == Start
             n == Len(o.lines)
             tp == o.top
             g == o.right
             k == o.keys
             R == Rows
             d == drawing.row
             y == u.row
  <1>1. /\ tp \in Nat /\ g \in Nat /\ k \in Nat /\ n \in Nat /\ R \in Nat
        /\ tp + n + g + k + 4 <= R /\ r \in Nat /\ r <= 1 /\ n > 0
    BY SizesAre DEF SentAs, RowsFit, Fits
  <1>2. IsTerminal(start) /\ start.row = r + tp
    BY DownIs, ForwardStays DEF SentAs, AtStart, Stays
  <1> HIDE DEF start
  <1>3. IsTerminal(drawing) /\ d = r + tp + n - 1
    BY <1>2, ImageIs
  <1>4. Prints(u) /\ logoHeight' = 0 /\ origin'[1] = t.row + tp
    BY DEF ImageAtTop, start, DrawnAt
  <1>5. IF g = 0 THEN u = drawing ELSE InFront(u, Least(d + g, R - 1))
    <2> HIDE DEF drawing
    <2> QED BY <1>3, NewLinesIs DEF d
  <1> HIDE DEF drawing
  <1>6. IsTerminal(u) /\ y = IF g = 0 THEN d ELSE Least(d + g, R - 1)
    BY <1>3, <1>5 DEF InFront, d
  <1> HIDE DEF u
  <1>7. y \in Nat /\ y < R /\ y + 0 + k + 2 <= R
    <2> HIDE DEF r, tp, n, g, k, R, d, y
    <2> QED BY <1>1, <1>3, <1>6 DEF Least
  <1>8. options' = o /\ buffered = <<>> /\ Fits(o) /\ Unprinted /\ round \in Nat \ {0}
        /\ UNCHANGED <<cache, nextLine, keysHeight, shown, round>>
    BY DEF SentAs
  <1>9. Shows(u) /\ buffered' = <<>>
    BY <1>4, <1>8, DrawsIs
  <1>10. LeftAt(u.row)
    <2>1. options'.keys = k /\ Free'
      BY <1>8 DEF Free
    <2> QED BY <1>4, <1>7, <2>1 DEF LeftAt
  <1>11. u.row \in Nat /\ u.row < Rows /\ logoHeight' \in Nat
    BY <1>4, <1>7
  <1>12. origin'[1] \in Nat
    BY <1>1, <1>4 DEF AtStart
  <1> QED BY <1>6, <1>8, <1>9, <1>10, <1>11, <1>12, ImageDrawn

(* What is right to begin with, after a step.                                   *)
LEMMA DrawnNext == (Drawn /\ at = "keys")' => EndsInv'
  <1>1. Drawn /\ at = "keys" => EndsInv
    BY DrawnIs
  <1> QED BY <1>1, PTL

(* ... or its end is asked for.                                                 *)
LEMMA AskedEnds ==
  ASSUME NEW o, SentAs(o), NEW t, AtStart(t), NEW column, ImageAsked(o, t, column)
  PROVE  EndsInv'
  <1> DEFINE start == MoveTo(ClearAll(t), o.top, column)
             drawing == Image(o, start)
             n == Len(o.lines)
             tp == o.top
             k == o.keys
             g == o.right
             R == Rows
             d == drawing.row
  <1>1. /\ tp \in Nat /\ k \in Nat /\ g \in Nat /\ n \in Nat /\ R \in Nat
        /\ tp + n + g + k + 4 <= R /\ n > 0
    BY SizesAre DEF SentAs, RowsFit, Fits
  <1>2. IsTerminal(start) /\ start.row = tp
    BY ClearAllStays, MoveToIs DEF AtStart, StaysAt, Stays
  <1> HIDE DEF start
  <1>3. IsTerminal(drawing) /\ d = tp + n - 1
    BY <1>2, ImageIs
  <1>4. /\ Draws(o, drawing) /\ logoHeight' = 0 /\ at' = "cursor" /\ Ask("cursor") /\ DrawnAt(tp, column)
    BY DEF ImageAsked, start
  <1> HIDE DEF drawing
  <1>5. d \in Nat /\ d < R
    <2> HIDE DEF n, tp, k, g, R, d
    <2> QED BY <1>1, <1>3
  <1>6. options' = o /\ buffered = <<>> /\ Fits(o) /\ Unprinted /\ round \in Nat \ {0}
        /\ UNCHANGED <<cache, nextLine, keysHeight, shown, round>>
    BY DEF SentAs
  <1>7. Shows(drawing) /\ buffered' = <<>>
    BY <1>4, <1>6, DrawsIs
  <1>8. cursor' = <<cursor'[1], cursor'[2]>> /\ cursor'[1] = d /\ DOMAIN screen' = 0..Rows - 1
    BY <1>3, <1>7, ShowsIs
  <1>11. origin'[1] = tp
    BY <1>4 DEF DrawnAt
  <1>9. Screen'
    BY <1>1, <1>4, <1>5, <1>6, <1>8, <1>11 DEF Screen, Screened
  <1>10. call'.kind = "cursor" /\ call'.truth = <<>>
    BY <1>4 DEF Ask, Idle
  <1>12. Unprinted'
    BY <1>6 DEF Unprinted
  <1>13. AtCursor'
    BY <1>3, <1>6, <1>7, <1>8, <1>10, <1>11, <1>12 DEF AtCursor
  <1> QED BY <1>4, <1>9, <1>13 DEF EndsInv, AtLogo, AtKeys, AtSleep

(* The position "auto" is resolved.                                             *)
LEMMA ResolvedIs ==
  ASSUME Fits(options)
  PROVE  /\ Fits(Resolved) /\ Resolved.type = options.type /\ Resolved.watch = options.watch
         /\ Resolved.position \in {"left", "right", "top"}
  BY PositionIs, FitsPlaced DEF Resolved

LEMMA SentAsIs ==
  ASSUME EndsInv, at = "logo", options.type \in Sent, options' = Resolved,
         UNCHANGED <<cache, nextLine, keysHeight, shown, round>>
  PROVE  SentAs(Resolved) /\ AtStart(Terminal) /\ Flushed = Terminal /\ buffered = <<>>
  <1>1. options.type # "spin"
    BY DEF Sent
  <1> QED BY <1>1, AtLogoIs, ResolvedIs DEF SentAs, AtStart, Screen, Start

(* All images that are sent to the terminal.                                    *)
LEMMA SentEnds ==
  ASSUME EndsInv, LogoPrintRaw \/ PrintImageIterm \/ PrintImageKittyDirect \/ PrintImageKittyIcat
  PROVE  EndsInv'
  <1>1. ASSUME NEW o, SentAs(o), NEW t, AtStart(t), NEW column,
               \/ ImageSized(o, t) /\ o.width > 0 /\ o.height > 0
               \/ ImageAtTop(o, t, column) /\ o.position = "top"
               \/ ImageAsked(o, t, column)
        PROVE  EndsInv'
    <2>1. CASE ImageSized(o, t) /\ o.width > 0 /\ o.height > 0
      <3>1. at' = "keys" /\ Drawn'
        BY <1>1, <2>1, SizedEnds DEF ImageSized
      <3> QED BY <3>1, DrawnNext
    <2>2. CASE ImageAtTop(o, t, column) /\ o.position = "top"
      <3>1. at' = "keys" /\ Drawn'
        BY <1>1, <2>2, AtTopEnds DEF ImageAtTop
      <3> QED BY <3>1, DrawnNext
    <2>3. CASE ImageAsked(o, t, column)
      BY <1>1, <2>3, AskedEnds
    <2> QED BY <1>1, <2>1, <2>2, <2>3
  <1>2. ASSUME NEW t, PrintSent(Resolved, t), t = Terminal, options.type \in Sent
        PROVE  EndsInv'
    <2> DEFINE o == Resolved
    <2>1. at = "logo" /\ options' = o /\ UNCHANGED <<cache, nextLine, keysHeight, shown, round>>
      BY <1>2 DEF PrintSent
    <2>2. SentAs(o) /\ AtStart(t)
      BY <1>2, <2>1, SentAsIs
    <2>3. \E column :
               \/ ImageSized(o, t) /\ o.width > 0 /\ o.height > 0
               \/ ImageAtTop(o, t, column) /\ o.position = "top"
               \/ ImageAsked(o, t, column)
      BY <1>2 DEF PrintSent
    <2> HIDE DEF o
    <2> QED BY <1>1, <2>2, <2>3
  <1>3. CASE LogoPrintRaw
    <2>1. PrintSent(Resolved, Begun(options)) /\ options.type \in Sent /\ Begun(options) = Terminal
      BY <1>3 DEF LogoPrintRaw, Sent, Begun
    <2> QED BY <1>2, <2>1
  <1>4. CASE PrintImageIterm \/ PrintImageKittyDirect
    <2>1. PrintSent(Resolved, Begun(options)) /\ options.type \in Sent /\ Begun(options) = Flushed /\ at = "logo"
      BY <1>4 DEF PrintImageIterm, PrintImageKittyDirect, Sent, Begun, PrintSent
    <2>2. Flushed = Terminal
      <3>1. options.type # "spin"
        BY <2>1 DEF Sent
      <3> QED BY <2>1, <3>1, AtLogoIs
    <2> QED BY <1>2, <2>1, <2>2
  <1>5. CASE PrintImageKittyIcat
    <2> DEFINE o == Resolved
               t == Flushed
    <2>1. /\ at = "logo" /\ options.type \in Sent /\ options' = o
          /\ UNCHANGED <<cache, nextLine, keysHeight, shown, round>>
          /\ \E column : \/ ImageAtTop(o, t, column) /\ o.position = "top"
                         \/ ImageAsked(o, t, column)
      BY <1>5 DEF PrintImageKittyIcat, Sent
    <2>2. SentAs(o) /\ AtStart(t)
      BY <2>1, SentAsIs
    <2> HIDE DEF o, t
    <2> QED BY <1>1, <2>1, <2>2
  <1> QED BY <1>3, <1>4, <1>5

(* Moves that are held after none.                                              *)
LEMMA HomeAppended == \A s \in {<<"space", "home">>, <<"home">>} : <<>> \o s = s
  <1>1. \A s \in Seq(Moves) : <<>> \o s = s
    OBVIOUS
  <1>2. <<"space", "home">> \in Seq(Moves) /\ <<"home">> \in Seq(Moves)
    BY DEF Moves
  <1> QED BY <1>1, <1>2

(* The terminal says where the image ended: the keys go back to the top.        *)
LEMMA PlacedStand ==
  ASSUME HeardInv, EndsInv, ImagePlaced
  PROVE  Drawn'
  <1> DEFINE c == cursor[1]
             tp == options.top
             n == Len(options.lines)
             k == options.keys
             g == options.right
             R == Rows
             h == logoHeight'
  <1>1. /\ at = "cursor" /\ call.step = "done" /\ at' = "keys"
        /\ UNCHANGED <<options, cache, nextLine, keysHeight, screen, cursor, round, drawn, origin, shown>>
        /\ excuse' = IF call.values # <<>> /\ call.values = call.truth THEN "none" ELSE "misplaced"
        /\ call.values = <<>> => logoHeight' = logoHeight /\ buffered' = buffered
        /\ call.values # <<>> => /\ logoHeight' = call.values[1]
                                 /\ buffered' = buffered \o <<"space", "home">> \/ buffered' = buffered \o <<"home">>
    BY DEF ImagePlaced
  <1>2. Screen /\ AtCursor /\ Fits(options) /\ AnswersRight /\ Talking
    BY <1>1 DEF EndsInv, Alive, HeardInv, Talk, Screen
  <1>3. /\ Unprinted /\ buffered = <<>> /\ origin[1] = tp /\ c = tp + n - 1
        /\ call.truth \in {<<>>, <<cursor[1] + 1, cursor[2] + 1>>}
    BY <1>1, <1>2 DEF AtCursor
  <1>4. tp \in Nat /\ k \in Nat /\ n \in Nat /\ g \in Nat /\ R \in Nat /\ tp + n + g + k + 4 <= R
    BY <1>2, SizesAre DEF RowsFit
  <1>5. buffered' \in Pending /\ (call.values # <<>> => buffered' # <<>>)
    <2>1. <<"space", "home">> # <<>> /\ <<"home">> # <<>>
      OBVIOUS
    <2>2. call.values = <<>> => buffered' = <<>>
      BY <1>1, <1>3
    <2>3. call.values # <<>> => buffered' = <<>> \o <<"space", "home">> \/ buffered' = <<>> \o <<"home">>
      BY <1>1, <1>3, Zenon
    <2>4. call.values # <<>> => buffered' = <<"space", "home">> \/ buffered' = <<"home">>
      BY <2>3, HomeAppended, Zenon
    <2> QED BY <2>1, <2>2, <2>4, Zenon DEF Pending
  <1>6. excuse' = "none" => call.values # <<>> /\ h = c + 1
    <2>1. excuse' = "none" => call.values # <<>> /\ call.values = call.truth
      BY <1>1
    <2>2. excuse' = "none" => call.values = <<cursor[1] + 1, cursor[2] + 1>>
      BY <1>3, <2>1
    <2> QED BY <1>1, <2>1, <2>2
  <1>7. h \in Nat
    <2>1. CASE call.values = <<>>
      BY <1>1, <1>2, <2>1 DEF Screen
    <2>2. CASE call.values # <<>> /\ call.values = call.truth
      <3>1. excuse' = "none"
        BY <1>1, <2>2
      <3>2. c \in Nat
        BY <1>2 DEF Screen
      <3> HIDE DEF c, h
      <3> QED BY <1>6, <3>1, <3>2
    <2>3. CASE call.values # <<>> /\ call.values # call.truth
      <3>1. call.values \in Seq(Nat)
        BY <1>2 DEF Talking
      <3>2. call.values[1] \in Nat
        BY <2>3, <3>1
      <3> QED BY <1>1, <2>3, <3>2
    <2> QED BY <2>1, <2>2, <2>3
  <1>8. Screen'
    BY <1>1, <1>2, <1>7 DEF Screen, Screened
  <1>9. excuse' = "none" => /\ Room(Here)' /\ Reaches(Here + logoHeight + 1)' /\ Here' = 0 /\ buffered' # <<>>
    <2> SUFFICES ASSUME excuse' = "none"
                 PROVE  Room(Here)' /\ Reaches(Here + logoHeight + 1)' /\ Here' = 0 /\ buffered' # <<>>
      OBVIOUS
    <2>1. h = c + 1 /\ buffered' # <<>>
      BY <1>5, <1>6
    <2>2. Here' = 0
      BY <2>1 DEF Here
    <2>3. 0 + h + k + 2 <= R /\ tp + n <= 0 + h + 1
      <3> HIDE DEF c, h, tp, n, k, g, R
      <3> QED BY <1>3, <1>4, <2>1
    <2>4. Room(Here)'
      BY <1>1, <2>2, <2>3 DEF Room
    <2>5. Reaches(Here + logoHeight + 1)'
      BY <1>1, <1>3, <2>2, <2>3 DEF Reaches
    <2> QED BY <2>1, <2>2, <2>4, <2>5
  <1>10. cache' = <<>> /\ nextLine' = 0 /\ shown' = <<>> /\ keysHeight' = 0 /\ Listed(cache')
    BY <1>1, <1>3, EmptyIs DEF Unprinted
  <1> QED BY <1>5, <1>8, <1>9, <1>10, Zenon DEF Drawn
LEMMA PlacedEnds ==
  ASSUME HeardInv, EndsInv, ImagePlaced
  PROVE  EndsInv'
  <1>1. at' = "keys"
    BY DEF ImagePlaced
  <1> QED BY <1>1, PlacedStand, DrawnNext

(* Nothing is drawn while it is measured.                                       *)
LEMMA MeasureEnds ==
  ASSUME HeardInv, EndsInv, Measure \/ MeasureOn
  PROVE  EndsInv'
  <1>1. /\ at \in {"logo", "measuring"} /\ at' \in {"measuring", "unmeasured"}
        /\ UNCHANGED <<options, cache, nextLine, logoHeight, keysHeight, screen, cursor, buffered, round, drawn,
                       origin, shown>>
    BY DEF Measure, MeasureOn
  <1>2. Screen /\ AtLogo /\ Screen' /\ Unprinted
    BY <1>1 DEF EndsInv, Alive, Screen, Screened, AtLogo
  <1>3. AtLogo'
    BY <1>1, <1>2 DEF AtLogo, Unprinted, Start
  <1> QED BY <1>1, <1>2, <1>3 DEF EndsInv, AtCursor, AtKeys, AtSleep

(* The widest line.                                                             *)
LEMMA MostOf ==
  ASSUME NEW s \in Seq(Nat), Len(s) > 0
  PROVE  /\ Most({s[i] : i \in 1..Len(s)}) \in Nat
         /\ \E i \in 1..Len(s) : Most({s[j] : j \in 1..Len(s)}) = s[i]
         /\ \A i \in 1..Len(s) : s[i] <= Most({s[j] : j \in 1..Len(s)})
  <1> DEFINE n == Len(s)
             T == {k \in Nat : k > 0 /\ k <= n => \E i \in 1..k : \A j \in 1..k : s[j] <= s[i]}
             S == {s[i] : i \in 1..n}
  <1>1. n \in Nat /\ \A i \in 1..n : s[i] \in Nat
    OBVIOUS
  <1> HIDE DEF n
  <1>2. 0 \in T
    OBVIOUS
  <1>3. \A k \in Nat : k \in T => k + 1 \in T
    <2> SUFFICES ASSUME NEW k \in Nat, k \in T, k + 1 <= n
                 PROVE  \E i \in 1..k + 1 : \A j \in 1..k + 1 : s[j] <= s[i]
      <3>1. \A k \in Nat : k + 1 \in Nat
        OBVIOUS
      <3> QED BY <3>1, Zenon
    <2>1. CASE k = 0
      <3>1. 1 \in 1..k + 1 /\ \A j \in 1..k + 1 : j = 1
        BY <2>1
      <3>2. s[1] \in Nat
        BY <1>1, <2>1
      <3>3. \A j \in 1..k + 1 : s[j] <= s[1]
        BY <3>1, <3>2
      <3> QED BY <3>1, <3>3
    <2>2. CASE k # 0
      <3>1. PICK i \in 1..k : \A j \in 1..k : s[j] <= s[i]
        BY <1>1, <2>2
      <3>2. \A j \in 1..k + 1 : j \in 1..k \/ j = k + 1
        OBVIOUS
      <3>3. i \in 1..k + 1 /\ k + 1 \in 1..k + 1 /\ s[i] \in Nat /\ s[k + 1] \in Nat
            /\ \A j \in 1..k + 1 : s[j] \in Nat
        BY <1>1
      <3>4. CASE s[k + 1] <= s[i]
        <4>1. \A j \in 1..k + 1 : s[j] <= s[i]
          BY <3>1, <3>2, <3>4
        <4> QED BY <3>3, <4>1
      <3>5. CASE ~(s[k + 1] <= s[i])
        <4>1. \A j \in 1..k : s[j] \in Nat /\ s[j] <= s[i]
          BY <3>1, <3>3
        <4>2. s[i] \in Nat /\ s[k + 1] \in Nat /\ s[i] < s[k + 1]
          BY <3>3, <3>5
        <4>3. \A j \in 1..k : s[j] <= s[k + 1]
          BY <4>1, <4>2
        <4>4. s[k + 1] <= s[k + 1]
          BY <4>2
        <4>5. \A j \in 1..k + 1 : s[j] <= s[k + 1]
          BY <3>2, <4>3, <4>4, Zenon
        <4> QED BY <3>3, <4>5
      <3> QED BY <3>4, <3>5
    <2> QED BY <2>1, <2>2
  <1> HIDE DEF T
  <1>4. n \in T
    BY <1>1, <1>2, <1>3, Upward
  <1>5. \E i \in 1..n : \A j \in 1..n : s[j] <= s[i]
    <2>1. n > 0
      BY DEF n
    <2> QED BY <1>1, <1>4, <2>1 DEF T
  <1>6. \E x \in S : \A y \in S : y <= x
    <2>1. PICK i \in 1..n : \A j \in 1..n : s[j] <= s[i]
      BY <1>5
    <2> QED BY <2>1
  <1>7. Most(S) \in S /\ \A x \in S : x <= Most(S)
    BY <1>6, Zenon DEF Most
  <1>8. \A x \in S : x \in Nat
    BY <1>1
  <1>9. \E i \in 1..n : Most(S) = s[i]
    BY <1>7
  <1>10. \A i \in 1..n : s[i] <= Most(S)
    BY <1>7
  <1> QED BY <1>7, <1>8, <1>9, <1>10 DEF n

LEMMA WidestIs ==
  ASSUME NEW o, Fits(o), Len(o.lines) > 0
  PROVE  /\ Widest(o) \in Nat /\ Widest(o) \in Widths(o)
         /\ \A i \in 1..Len(o.lines) : o.lines[i] <= Widest(o)
  <1>1. o.lines \in Seq(Nat)
    BY FitsFields
  <1>2. /\ Widest(o) \in Nat
        /\ \E i \in 1..Len(o.lines) : Widest(o) = o.lines[i]
        /\ \A i \in 1..Len(o.lines) : o.lines[i] <= Widest(o)
    BY <1>1, MostOf DEF Widest
  <1>3. Widest(o) \in Widths(o)
    BY <1>2, WidthsAre
  <1> QED BY <1>2, <1>3

(* An image of pixels has columns and rows, however they were counted, ...      *)
LEMMA CharacterSizesAre ==
  ASSUME Fits(options), options.type \in Decoded, NEW cells \in CharacterSizes
  PROVE  /\ cells[1] \in Nat /\ cells[2] \in Nat /\ cells[2] > 0 /\ cells[2] \in Heights(options)
         /\ cells[1] \in Widths(options) /\ Len(options.lines) > 0 /\ Len(options.lines) \in Nat
  <1>1. Len(options.lines) > 0 /\ Len(options.lines) \in Nat /\ \A c \in options.mistaken : c[2] > 0
    BY FitsFields DEF Fits
  <1>2. Widest(options) \in Nat /\ Widest(options) \in Widths(options)
    BY <1>1, WidestIs
  <1>3. cells = <<Widest(options), Len(options.lines)>> \/ cells \in options.mistaken
    BY DEF CharacterSizes
  <1>4. CASE cells = <<Widest(options), Len(options.lines)>>
    BY <1>1, <1>2, <1>4, HeightsAre
  <1>5. CASE cells \in options.mistaken
    <2>1. cells \in Nat \X Nat
      BY <1>5, FitsFields
    <2>2. cells[1] \in Widths(options)
      BY <1>5, WidthsAre
    <2> QED BY <1>1, <1>5, <2>1, <2>2, HeightsAre
  <1> QED BY <1>3, <1>4, <1>5

(* ... at a position, ...                                                       *)
LEMMA AtIs ==
  ASSUME Fits(options), NEW width
  PROVE  /\ Fits(At(width)) /\ At(width).type = options.type /\ At(width).watch = options.watch
         /\ At(width).lines = options.lines /\ At(width).keys = options.keys
         /\ At(width).top = options.top
         /\ At(width).position \in {"left", "right", "top"}
  BY PositionIs, FitsPlaced DEF At

(* ... and begins where a logo begins.                                          *)
LEMMA MeasuredIs ==
  ASSUME EndsInv, Measured, options.type \in Decoded
  PROVE  /\ Screen /\ Unprinted /\ buffered = <<>> /\ Flushed = Terminal
         /\ AtStart(Terminal) /\ Terminal.column = 0
         /\ Fits(options) /\ Start \in Nat /\ Start <= 1 /\ (options.watch => Start = 0)
  <1>1. at \in {"logo", "measuring"} /\ options.type # "spin"
    BY DEF Measured, Sized, Decoded
  <1> QED BY <1>1, AtLogoIs DEF AtStart

(* Characters for it are a logo of lines.                                       *)
LEMMA ChafaDrawn ==
  ASSUME EndsInv, PrintImageChafa
  PROVE  Drawn' /\ \E p : Fits(p) /\ p.watch = options.watch /\ LogoPrintChars(p, Terminal)
  <1>1. /\ Measured /\ options.type = "chafa" /\ at' = "keys" /\ UNCHANGED <<keysHeight, buffered, round, shown>>
    BY DEF PrintImageChafa
  <1>2. PICK cells \in CharacterSizes :
          LogoPrintChars([At(cells[1]) EXCEPT !.lines = [i \in 1..cells[2] |-> cells[1]]], Terminal)
    BY DEF PrintImageChafa
  <1> DEFINE q == At(cells[1])
             lines == [i \in 1..cells[2] |-> cells[1]]
             p == [q EXCEPT !.lines = lines]
             r == Start
  <1>3. /\ Screen /\ Unprinted /\ buffered = <<>> /\ AtStart(Terminal) /\ Terminal.column = 0
        /\ Fits(options) /\ r \in Nat /\ r <= 1 /\ (options.watch => r = 0) /\ options.type \in Decoded
    BY <1>1, MeasuredIs DEF Decoded
  <1>4. cells[1] \in Nat /\ cells[2] \in Nat /\ cells[2] > 0 /\ cells[2] \in Heights(options)
        /\ cells[1] \in Widths(options)
    BY <1>3, CharacterSizesAre
  <1>5. Len(lines) = cells[2] /\ lines \in Seq(Nat) /\ \A i \in 1..Len(lines) : lines[i] = cells[1]
    <2> DEFINE a == cells[1]
               b == cells[2]
    <2>1. a \in Nat /\ b \in Nat
      BY <1>4
    <2> HIDE DEF a, b
    <2>2. Len([i \in 1..b |-> a]) = b /\ [i \in 1..b |-> a] \in Seq(Nat) /\ \A i \in 1..b : [j \in 1..b |-> a][i] = a
      BY <2>1
    <2> QED BY <2>2 DEF a, b
  <1> HIDE DEF lines
  <1>6. Fits(q) /\ q.type = options.type /\ q.watch = options.watch /\ q.keys = options.keys
        /\ q.position \in {"left", "right", "top", "auto"} /\ Heights(q) = Heights(options) /\ q \in LogoOptions
        /\ cells[1] \in Widths(q)
    <2>1. Fits(q) /\ q.type = options.type /\ q.watch = options.watch /\ q.keys = options.keys
        /\ q.position \in {"left", "right", "top"}
      BY <1>3, AtIs
    <2>2. Heights(q) = Heights(options) /\ Widths(q) = Widths(options)
      <3>1. q.lines = options.lines /\ q.detected = options.detected /\ q.frames = options.frames
            /\ q.mistaken = options.mistaken /\ q.width = options.width
        <4>1. options \in LogoOptions
          BY <1>3 DEF Fits
        <4> QED BY <4>1 DEF At, LogoOptions
      <3> QED BY <3>1 DEF Heights, Widths
    <2> QED BY <1>4, <2>1, <2>2, FitsFields
  <1> HIDE DEF q
  <1>7. Redrawn(q, p, lines, q.position)
    BY <1>6 DEF Redrawn, LogoOptions
  <1>8. Fits(p) /\ p.watch = options.watch /\ p.keys = options.keys /\ p.keys \in Nat
    <2>1. Len(lines) \in Heights(q) /\ Len(lines) > 0 /\ q.type \in Decoded
      BY <1>3, <1>4, <1>5, <1>6
    <2>2. \A i \in 1..Len(lines) : lines[i] = lines[1] /\ lines[i] \in Widths(q)
      BY <1>4, <1>5, <1>6
    <2>3. Reckoned(q, lines)
      BY <1>5, <2>1, <2>2 DEF Reckoned
    <2> HIDE DEF p
    <2> QED BY <1>6, <1>7, <2>3, FitsLines, FitsFields
  <1>9. LogoPrintChars(p, Terminal)
    BY <1>2 DEF lines, q
  <1> HIDE DEF p, r
  <1>10. Chars(p, r)
    <2>1. Terminal.row = r /\ IsTerminal(Terminal)
      BY <1>3 DEF AtStart, r
    <2>2. Chars(p, Terminal.row)
      BY <1>3, <1>8, <1>9, <2>1, CharsIs
    <2> QED BY <2>1, <2>2, Zenon
  <1>11. round \in Nat \ {0}
    BY <1>3 DEF Screen
  <1>12. Drawn'
    BY <1>1, <1>3, <1>8, <1>10, <1>11, CharsDrawn DEF Unprinted
  <1> QED BY <1>8, <1>9, <1>12
LEMMA ChafaEnds ==
  ASSUME EndsInv, PrintImageChafa
  PROVE  EndsInv'
  <1>1. at' = "keys"
    BY DEF PrintImageChafa
  <1> QED BY <1>1, ChafaDrawn, DrawnNext

(* Sixel and kitty: up to the first row again, which is one more for an image   *)
(* of one row.                                                                  *)
LEMMA PixelsStand ==
  ASSUME EndsInv, PrintImagePixels
  PROVE  Drawn'
  <1>1. Measured /\ options.type = "pixels" /\ at' = "keys"
        /\ UNCHANGED <<cache, nextLine, keysHeight, round, shown>>
    BY DEF PrintImagePixels
  <1>2. PICK cells \in CharacterSizes :
          /\ options' = At(cells[1])
          /\ PixelsDrawn(At(cells[1]), cells[1], cells[2], Flushed)
          /\ excuse' = IF cells = <<Widest(options), Len(options.lines)>> THEN "none" ELSE "misplaced"
    BY DEF PrintImagePixels
  <1> DEFINE q == At(cells[1])
             t == Terminal
             down == NewLines(t, q.top)
             start == IF q.position = "right" THEN FromRight(down, q.right + cells[1])
                      ELSE Forward(down, q.left)
             drawing == Image(q, start)
             L == cells[2] + q.top - 1
             up == UpBy(drawing, L)
             u == [up EXCEPT !.column = 0]
             r == Start
             c == cells[2]
             tp == q.top
             n == Len(q.lines)
             k == q.keys
             g == q.right
             R == Rows
             d == drawing.row
             y == up.row
             h == logoHeight'
  <1>3. /\ Screen /\ Unprinted /\ buffered = <<>> /\ Flushed = t /\ AtStart(t)
        /\ Fits(options) /\ r \in Nat /\ r <= 1 /\ (options.watch => r = 0) /\ options.type \in Decoded
    BY <1>1, MeasuredIs DEF Decoded
  <1>4. c \in Nat /\ c > 0 /\ Len(options.lines) > 0
    BY <1>3, CharacterSizesAre
  <1>5. /\ Fits(q) /\ q.type = "pixels" /\ q.watch = options.watch /\ q.lines = options.lines
        /\ q.position \in {"left", "right", "top"} /\ options' = q
    BY <1>1, <1>2, <1>3, AtIs
  <1>6. PixelsDrawn(q, cells[1], cells[2], t)
    BY <1>2, <1>3
  <1> HIDE DEF q
  <1>7. /\ tp \in Nat /\ k \in Nat /\ g \in Nat /\ n \in Nat /\ R \in Nat
        /\ tp + n + g + k + 4 <= R
    BY <1>5, SizesAre DEF RowsFit
  <1>8. n > 0 /\ (excuse' = "none" => c = n)
    BY <1>2, <1>4, <1>5
  <1>9. IsTerminal(start) /\ start.row = r + tp
    <2>1. IsTerminal(down) /\ down.row = r + tp
      BY <1>3, <1>5, DownIs DEF AtStart
    <2> HIDE DEF down
    <2> QED BY <2>1, FromRightStays, ForwardStays DEF Stays
  <1>10. /\ DrawnAt(start.row, start.column)
         /\ Prints(IF q.position = "top" THEN drawing ELSE u)
         /\ h = IF q.position = "left" THEN L ELSE 0
    BY <1>6 DEF PixelsDrawn
  <1> HIDE DEF start
  <1>11. IsTerminal(drawing) /\ d = r + tp + n - 1
    BY <1>9, ImageIs
  <1>12. d \in Nat /\ L \in Nat /\ L = c + tp - 1 /\ d < R /\ d + 0 + k + 2 <= R
    <2>1. L = c + tp - 1
      OBVIOUS
    <2> HIDE DEF r, c, tp, n, k, g, R, d, L
    <2> QED BY <1>3, <1>4, <1>7, <1>8, <1>11, <2>1
  <1> HIDE DEF drawing, L
  <1>13. IsTerminal(up) /\ y = Minus(d, IF L > 1 THEN L ELSE 1)
    BY <1>11, <1>12, UpByIs DEF d
  <1> HIDE DEF up
  <1>14. IsTerminal(u) /\ u.row = y
    BY <1>13 DEF IsTerminal
  <1> HIDE DEF u
  <1>15. y \in Nat /\ y < R
    <2> HIDE DEF d, R, y
    <2> QED BY <1>7, <1>12, <1>13 DEF Minus
  <1>16. origin'[1] = r + tp /\ origin'[1] \in Nat
    BY <1>3, <1>7, <1>9, <1>10 DEF DrawnAt
  <1>17. ASSUME NEW v, Prints(v), IsTerminal(v), v.row \in Nat, v.row < R, LeftAt(v.row), h \in Nat
         PROVE  Drawn'
    <2>1. Shows(v) /\ buffered' = <<>>
      BY <1>17 DEF Prints
    <2>2. Fits(options') /\ round \in Nat \ {0}
      BY <1>3, <1>5 DEF Screen
    <2> QED BY <1>1, <1>3, <1>16, <1>17, <2>1, <2>2, ImageDrawn
  <1>18. CASE q.position = "top"
    <2>1. h = 0 /\ Prints(drawing) /\ Free'
      BY <1>5, <1>10, <1>18 DEF Free
    <2>2. LeftAt(drawing.row)
      <3>1. options'.keys = k /\ d + 0 + k + 2 <= R
        BY <1>5, <1>12
      <3> QED BY <2>1, <3>1, Zenon DEF LeftAt, d, R, h
    <2> QED BY <1>11, <1>12, <1>17, <2>1, <2>2
  <1>19. CASE q.position # "top"
    <2>1. h = (IF q.position = "left" THEN L ELSE 0) /\ Prints(u)
      BY <1>10, <1>19
    <2>2. h \in Nat
      BY <1>12, <2>1
    <2>3. excuse' = "none" /\ L # 0 => y = r /\ y + h + k + 2 <= R /\ r + tp + n = r + L + 1
      <3> HIDE DEF r, c, tp, n, k, g, R, d, L, y, h
      <3> QED BY <1>3, <1>4, <1>7, <1>8, <1>11, <1>12, <1>13, <2>1 DEF Minus
    <2>4. excuse' = "none" /\ L = 0 => y = 0 /\ h = 0 /\ y + h + k + 2 <= R /\ tp = 0 /\ n = 1
      <3> HIDE DEF r, c, tp, n, k, g, R, d, L, y, h
      <3> QED BY <1>3, <1>4, <1>7, <1>8, <1>11, <1>12, <1>13, <2>1 DEF Minus
    <2>5. q.position = "right" => Free'
      BY <1>5 DEF Free, HeightForgotten
    <2>6. tp = 0 /\ n = 1 => Free'
      BY <1>5, <1>19 DEF Free, OneRow
    <2>7. q.position # "right" => h = L
      BY <1>5, <1>19, <2>1
    <2>8. LeftAt(y)
      <3>1. options'.keys = k /\ options'.lines = q.lines /\ (options'.watch => r = 0)
        BY <1>3, <1>5
      <3> SUFFICES ASSUME excuse' = "none"
                   PROVE  y + h + k + 2 <= R /\ (Free' \/ (r + tp + n <= y + h + 1 /\ (options'.watch => y = 0)))
        BY <1>16, <3>1 DEF LeftAt
      <3>2. CASE L = 0
        BY <2>4, <2>6, <3>2
      <3>3. CASE L # 0 /\ q.position = "right"
        BY <2>3, <2>5, <3>3
      <3>4. CASE L # 0 /\ q.position # "right"
        <4>1. y = r /\ h = L /\ y + h + k + 2 <= R /\ r + tp + n = r + L + 1
          BY <2>3, <2>7, <3>4
        <4>2. r + tp + n <= y + h + 1
          <5> HIDE DEF r, tp, n, k, R, L, y, h
          <5> QED BY <1>3, <1>7, <1>12, <4>1
        <4> QED BY <3>1, <4>1, <4>2
      <3> QED BY <3>2, <3>3, <3>4
    <2> QED BY <1>14, <1>15, <1>17, <2>1, <2>2, <2>8
  <1> QED BY <1>18, <1>19
LEMMA PixelsEnd ==
  ASSUME EndsInv, PrintImagePixels
  PROVE  EndsInv'
  <1>1. at' = "keys"
    BY DEF PrintImagePixels
  <1> QED BY <1>1, PixelsStand, DrawnNext

(* What comes next in the order fits as well, ...                               *)
Retyped(o, p, type, next, lines) == p = [o EXCEPT !.type = type, !.next = next, !.lines = lines]
LEMMA FitsRetyped ==
  ASSUME NEW o, Fits(o), NEW type \in Types, NEW next \in Seq(Types), NEW lines, NEW p,
         Retyped(o, p, type, next, lines), lines = o.lines \/ lines = o.detected,
         type \in Sent \union Decoded => lines = o.lines /\ o.type \in Sent \union Decoded,
         type \in Sent => o.type \in Sent
  PROVE  Fits(p) /\ p.watch = o.watch
  <1>1. o \in LogoOptions /\ lines \in Seq(Nat)
    BY FitsFields
  <1>2. p \in LogoOptions
    BY <1>1 DEF LogoOptions, Retyped
  <1>3. /\ p.type = type /\ p.top = o.top /\ p.watch = o.watch
        /\ p.lines = lines /\ p.height = o.height /\ p.keys = o.keys
        /\ p.bottom = o.bottom /\ p.right = o.right /\ p.width = o.width /\ p.left = o.left
        /\ p.detected = o.detected /\ p.frames = o.frames /\ p.mistaken = o.mistaken
    BY <1>1 DEF LogoOptions, Retyped
  <1>4. Heights(p) \subseteq Heights(o)
    BY <1>3 DEF Heights
  <1>5. \A n \in Heights(p) :
          p.top + Most({p.height, n}) + p.bottom + p.right + p.keys + 4 <= Rows
    <2>1. \A n \in Heights(o) :
            o.top + Most({o.height, n}) + o.bottom + o.right + o.keys + 4 <= Rows
      BY DEF Fits
    <2> QED BY <1>3, <1>4, <2>1
  <1>6. p.type \in Sent \union Decoded => Len(p.lines) > 0 /\ Rectangle(p) /\ \A cells \in p.mistaken : cells[2] > 0
    BY <1>3 DEF Fits, Rectangle
  <1>7. p.type \in Sent /\ p.width > 0 /\ p.height > 0 => Len(p.lines) = p.height
    BY <1>3 DEF Fits
  <1>8. \A w \in Widths(p) : w \in Widths(o)
    <2> SUFFICES ASSUME NEW w \in Widths(p) PROVE w \in Widths(o)
      OBVIOUS
    <2>1. \/ w = 1 \/ w = o.width
          \/ \E i \in 1..Len(lines) : w = lines[i]
          \/ \E i \in 1..Len(o.detected) : w = o.detected[i]
          \/ \E frame \in o.frames : \E i \in 1..Len(frame) : w = frame[i]
          \/ \E cells \in o.mistaken : w = cells[1]
      BY <1>3, WidthsAre
    <2>2. CASE \E i \in 1..Len(lines) : w = lines[i]
      <3>1. CASE lines = o.lines
        BY <2>2, <3>1, WidthsAre
      <3>2. CASE lines = o.detected
        BY <2>2, <3>2, WidthsAre
      <3> QED BY <3>1, <3>2
    <2> QED BY <2>1, <2>2, WidthsAre
  <1>9. FitsAcross(p)
    BY <1>3, <1>8 DEF FitsAcross, Fits
  <1> QED BY <1>2, <1>3, <1>5, <1>6, <1>7, <1>9 DEF Fits

(* ... so an image that fails leaves another one to be drawn in its place.      *)
LEMMA FailsEnds ==
  ASSUME HeardInv, EndsInv, ImageFails
  PROVE  EndsInv'
  <1>1. /\ \/ at = "logo" /\ options.type \in Sent
           \/ Measured /\ options.type \in Decoded
           \/ Unmeasured
        /\ at' = "logo"
        /\ UNCHANGED <<cache, nextLine, logoHeight, keysHeight, screen, cursor, buffered, round, drawn, origin, shown>>
    BY DEF ImageFails
  <1>2. at \in {"logo", "measuring", "unmeasured"} /\ Alive
    BY <1>1 DEF Measured, Unmeasured, Sized, Alive
  <1>3. {"type", "next"} \subseteq DOMAIN options /\ InOrder(options) /\ Pictures
    BY <1>2 DEF HeardInv, Pictures
  <1>4. options.type \in Sent \union Decoded
    BY <1>1, <1>3 DEF Pictures, Unmeasured, Sized
  <1>5. options.type # "spin"
    BY <1>4 DEF Sent, Decoded
  <1>6. Screen /\ Unprinted /\ buffered = <<>> /\ cursor[1] = Start /\ cursor[2] = 0 /\ drawn = 0 /\ Fits(options)
    BY <1>2, <1>5, AtLogoIs
  <1>7. PICK o \in {options} \union
              (CASE options.type \in Sent -> {Resolved}
                 [] Measured -> {At(cells[1]) : cells \in CharacterSizes}
                 [] Unmeasured -> {}) :
       options' = [o EXCEPT !.type = Head(o.next), !.next = Tail(o.next),
                            !.lines = IF Head(o.next) = "lines" THEN o.detected ELSE o.lines]
    BY DEF ImageFails
  <1>8. o = options \/ o = Resolved \/ \E cells : o = At(cells[1])
    <2>1. CASE options.type \in Sent
      BY <1>7, <2>1
    <2>2. CASE options.type \notin Sent /\ Measured
      BY <1>7, <2>2
    <2>3. CASE options.type \notin Sent /\ ~Measured
      BY <1>1, <1>7, <2>3
    <2> QED BY <2>1, <2>2, <2>3
  <1>9. Fits(o) /\ o.watch = options.watch /\ Alike(options, o)
    <2>1. Alike(options, Resolved) /\ \A width : Alike(options, At(width))
      BY <1>3, Placed DEF Resolved, At
    <2>2. Alike(options, o)
      BY <1>8, <2>1, SameLogo
    <2>3. Fits(o) /\ o.watch = options.watch
      BY <1>6, <1>8, ResolvedIs, AtIs
    <2> QED BY <2>2, <2>3
  <1>10. {"type", "next"} \subseteq DOMAIN o /\ InOrder(o) /\ o.type \in Sent \union Decoded
    <2>1. o.type = options.type
      BY <1>9 DEF Alike
    <2> QED BY <1>3, <1>4, <1>9, <2>1, AlikeOrder
  <1> DEFINE lines == IF Head(o.next) = "lines" THEN o.detected ELSE o.lines
             p == options'
             type == Head(o.next)
             next == Tail(o.next)
  <1>11. p = [o EXCEPT !.type = type, !.next = next, !.lines = lines]
    BY <1>7
  <1>12. InOrder(p) /\ (o.type \in Decoded => p.type \notin Sent)
    <2> HIDE DEF lines, p
    <2> QED BY <1>10, <1>11, TriedNext
  <1>13. p.type = type /\ p.next = next
    <2>1. o \in LogoOptions
      BY <1>9, FitsFields
    <2> HIDE DEF p, type, next, lines
    <2> QED BY <1>11, <2>1 DEF LogoOptions
  <1>14. type \in Types /\ next \in Seq(Types)
    <2> HIDE DEF p, type, next
    <2> QED BY <1>12, <1>13 DEF InOrder
  <1>15. lines = o.lines \/ lines = o.detected
    OBVIOUS
  <1>16. type \in Sent \union Decoded => lines = o.lines
    BY DEF Sent, Decoded
  <1>17. type \in Sent => o.type \in Sent
    BY <1>10, <1>12, <1>13
  <1> HIDE DEF lines, type, next
  <1>18. Fits(p) /\ p.watch = o.watch
    <2>1. Retyped(o, p, type, next, lines)
      BY <1>11, Zenon DEF Retyped
    <2> HIDE DEF p
    <2> QED BY <1>9, <1>10, <1>14, <1>15, <1>16, <1>17, <2>1, FitsRetyped
  <1>19. Screen'
    BY <1>1, <1>6, <1>18 DEF Screen, Screened
  <1>20. AtLogo'
    <2>1. Start' = Start
      BY <1>9, <1>18 DEF Start
    <2>2. Unprinted'
      BY <1>1, <1>6 DEF Unprinted
    <2> QED BY <1>1, <1>6, <2>1, <2>2 DEF AtLogo
  <1> QED BY <1>1, <1>19, <1>20 DEF EndsInv, AtCursor, AtKeys, AtSleep

(* A list with one more.                                                        *)
Longer(s, x, u) ==
  /\ Listed(u) /\ Len(u) = Len(s) + 1 /\ u # <<>>
  /\ u[Len(s) + 1] = x /\ \A i \in 1..Len(s) : u[i] = s[i]
LEMMA AppendIs ==
  ASSUME NEW s, Listed(s), NEW x
  PROVE  Longer(s, x, Append(s, x))
  <1> DEFINE u == Append(s, x)
  <1> DEFINE S == {s[i] : i \in 1..Len(s)} \union {x}
  <1>1. s \in Seq(S) /\ x \in S /\ Len(s) \in Nat
    <2>1. s \in Seq({s[i] : i \in 1..Len(s)}) /\ Len(s) \in Nat
      BY ListedIs DEF Listed
    <2> DEFINE A == {s[i] : i \in 1..Len(s)}
    <2> HIDE DEF A
    <2>2. s \in Seq(A) /\ S = A \union {x}
      BY <2>1 DEF A
    <2> HIDE DEF S
    <2> QED BY <2>1, <2>2
  <1> HIDE DEF S
  <1>2. /\ u \in Seq(S) /\ Len(u) = Len(s) + 1 /\ u[Len(s) + 1] = x
        /\ \A i \in 1..Len(s) : u[i] = s[i]
    BY <1>1
  <1>3. u = [i \in 1..Len(u) |-> u[i]] /\ Len(u) \in Nat
    <2> HIDE DEF u
    <2>1. Len(u) \in Nat /\ DOMAIN u = 1..Len(u)
      BY <1>2, LenProperties
    <2>2. u = [i \in DOMAIN u |-> u[i]]
      <3>0. u \in Seq(S) /\ Seq(S) = UNION {[1..n -> S] : n \in Nat}
        BY <1>2, SeqDef, Zenon
      <3> DEFINE All == {[1..n -> S] : n \in Nat}
      <3>2. u \in UNION All
        BY <3>0, Zenon
      <3>3. PICK F \in All : u \in F
        BY <3>2, Zenon
      <3>1. PICK n \in Nat : u \in [1..n -> S]
        BY <3>3
      <3> QED BY <3>1
    <2> QED BY <2>1, <2>2
  <1>4. u # <<>>
    <2> HIDE DEF u
    <2> QED BY <1>1, <1>2
  <1> QED BY <1>2, <1>3, <1>4 DEF Listed, Longer

(* The next key goes where the cursor is when nothing is held any more, ...     *)
LEMMA FlushedHere ==
  ASSUME Screened, buffered \in Pending
  PROVE  IsTerminal(Flushed) /\ Flushed.row = Here
         /\ (buffered # <<>> \/ cursor[2] = 0 => Flushed.column = 0)
  BY FlushedIs, TerminalIs DEF Here, InFront

(* ... the line of the logo stays in this row, ...                              *)
LEMMA LineBegunStays ==
  ASSUME NEW t, IsTerminal(t)
  PROVE  Stays(t, LineBegun(t))
  <1>1. CASE cache # <<>> /\ nextLine < Len(cache) /\ options.position = "right"
    <2> DEFINE u == FromRight(t, rightOffset)
               v == Put(u, cache[nextLine + 1])
    <2>1. Stays(t, u)
      BY FromRightStays
    <2> HIDE DEF u
    <2>2. Stays(u, v)
      BY <2>1, PutStays DEF Stays
    <2>3. LineBegun(t) = [v EXCEPT !.column = 0]
      BY <1>1 DEF LineBegun, u
    <2> HIDE DEF v
    <2>4. IsTerminal([v EXCEPT !.column = 0]) /\ [v EXCEPT !.column = 0].row = v.row
      BY <2>2 DEF IsTerminal, Stays
    <2> QED BY <2>1, <2>2, <2>3, <2>4 DEF Stays
  <1>2. CASE cache # <<>> /\ nextLine < Len(cache) /\ options.position # "right"
    <2>1. \E text : LineBegun(t) = Put(t, text)
      BY <1>2 DEF LineBegun
    <2> QED BY <2>1, PutStays
  <1>3. CASE cache # <<>> /\ ~(nextLine < Len(cache))
    <2>1. LineBegun(t) = t \/ LineBegun(t) = Put(t, Cells(logoWidth, Blank))
      BY <1>3 DEF LineBegun
    <2> QED BY <2>1, PutStays DEF Stays
  <1>4. CASE cache = <<>>
    <2>1. LineBegun(t) = t \/ LineBegun(t) = Forward(t, logoWidth)
      BY <1>4 DEF LineBegun
    <2> QED BY <2>1, ForwardStays DEF Stays
  <1> QED BY <1>1, <1>2, <1>3, <1>4

(* ... and the key leads to the next one.                                       *)
LEMMA KeyIs ==
  ASSUME Screened, buffered \in Pending, PrintKey
  PROVE  /\ buffered' = <<>> /\ Screened' /\ cursor'[1] = Least(Here + 1, Rows - 1) /\ cursor'[2] = 0
         /\ \E column, width : shown' = Append(shown, <<Here, column, width>>)
  <1>1. PICK width \in KeyWidths :
       LET begun == LineBegun(Flushed)
           clean == IF options.watch /\ options.position = "left" THEN ClearLine(begun) ELSE begun
       IN /\ Prints(NewLine(Put(clean, Cells(width, KeyCell))))
          /\ shown' = Append(shown, <<clean.row, clean.column, width>>)
    BY DEF PrintKey
  <1> DEFINE begun == LineBegun(Flushed)
             clean == IF options.watch /\ options.position = "left" THEN ClearLine(begun) ELSE begun
             put == Put(clean, Cells(width, KeyCell))
             u == NewLine(put)
  <1>2. IsTerminal(Flushed) /\ Flushed.row = Here
    BY FlushedHere
  <1>3. IsTerminal(begun) /\ begun.row = Here
    BY <1>2, LineBegunStays DEF Stays
  <1>4. Prints(u) /\ shown' = Append(shown, <<clean.row, clean.column, width>>)
    BY <1>1
  <1> HIDE DEF begun
  <1>5. IsTerminal(clean) /\ clean.row = Here
    BY <1>3, ClearLineStays DEF StaysAt, Stays
  <1> HIDE DEF clean
  <1>6. IsTerminal(put) /\ put.row = Here
    BY <1>5, PutStays DEF Stays
  <1> HIDE DEF put
  <1>7. InFront(u, Least(Here + 1, Rows - 1))
    BY <1>6, NewLineIs
  <1> HIDE DEF u
  <1>8. Shows(u) /\ buffered' = <<>>
    BY <1>4 DEF Prints
  <1>9. Screened' /\ cursor'[1] = Least(Here + 1, Rows - 1) /\ cursor'[2] = 0
    BY <1>7, <1>8, ShowsIs DEF InFront, Screened
  <1> QED BY <1>4, <1>5, <1>8, <1>9

(* So each key is below the one before it.                                      *)
LEMMA PrintKeyEnds ==
  ASSUME EndsInv, PrintKey
  PROVE  EndsInv'
  <1>1. /\ at = "keys" /\ at' = "keys" /\ Len(shown) < options.keys
        /\ nextLine' = (IF nextLine < Len(cache) THEN nextLine + 1 ELSE nextLine)
        /\ keysHeight' = keysHeight + 1
        /\ UNCHANGED <<options, cache, logoHeight, round, drawn, origin, excuse>>
    BY DEF PrintKey
  <1>2. Screen /\ Screened /\ Printing /\ (excuse = "none" => Standing) /\ Fits(options)
    BY <1>1 DEF EndsInv, AtKeys, Alive, Screen
  <1>3. PICK column, width : shown' = Append(shown, <<Here, column, width>>)
    BY <1>2, KeyIs DEF Printing
  <1>4. /\ buffered' = <<>> /\ Screened' /\ cursor'[1] = Least(Here + 1, Rows - 1) /\ cursor'[2] = 0
    BY <1>2, KeyIs DEF Printing
  <1>5. /\ Listed(shown') /\ Len(shown') = Len(shown) + 1 /\ shown' # <<>>
        /\ shown'[Len(shown) + 1] = <<Here, column, width>>
        /\ \A i \in 1..Len(shown) : shown'[i] = shown[i]
    <2> DEFINE x == <<Here, column, width>>
    <2>1. Listed(shown) /\ shown' = Append(shown, x)
      BY <1>2, <1>3 DEF Printing
    <2> HIDE DEF x
    <2>2. Longer(shown, x, shown')
      BY <2>1, AppendIs, Zenon
    <2> QED BY <2>2 DEF Longer, x
  <1> DEFINE H == Here
             R == Rows
             y == cursor'[1]
             k == options.keys
             l == Len(shown)
             c == Len(cache)
             g == logoHeight
             T == Top
             nl == nextLine
  <1>6. /\ R \in Nat \ {0} /\ k \in Nat /\ l \in Nat /\ l < k /\ c \in Nat /\ g \in Nat /\ H \in Nat /\ H < R
        /\ T = H - l /\ nl = Least(l, c)
    <2>1. Here \in Nat /\ Here < Rows
      BY <1>2, LogoAssumption DEF Here, Screen
    <2> QED BY <1>1, <1>2, <2>1, FitsFields, LogoAssumption DEF Printing, Listed, Screen, Top
  <1>7. y = Least(H + 1, R - 1)
    BY <1>4
  <1>8. y \in Nat /\ y < R /\ nextLine' = Least(l + 1, c)
    <2> DEFINE nn == nextLine'
    <2>1. nn = IF nl < c THEN nl + 1 ELSE nl
      BY <1>1
    <2> HIDE DEF H, R, y, k, l, c, g, T, nl, nn
    <2>2. nn = Least(l + 1, c) /\ y \in Nat /\ y < R
      BY <1>6, <1>7, <2>1 DEF Least
    <2> QED BY <2>2 DEF nn
  <1>9. Screen'
    BY <1>1, <1>2, <1>4, <1>8 DEF Screen
  <1>10. Printing'
    <2>1. Len(shown') <= options.keys
      <3> DEFINE m == Len(shown')
      <3>1. m = l + 1
        BY <1>5
      <3> HIDE DEF m, l, k
      <3>2. m <= k
        BY <1>6, <3>1
      <3> QED BY <3>2 DEF m, k
    <2>2. keysHeight' = Len(shown')
      BY <1>1, <1>2, <1>5 DEF Printing
    <2>3. nextLine' = Least(Len(shown'), Len(cache'))
      BY <1>1, <1>5, <1>8
    <2>4. Listed(cache') /\ (cache' # <<>> => Len(cache') = logoHeight' + 1)
      BY <1>1, <1>2 DEF Printing
    <2>5. buffered' \in Pending
      BY <1>4 DEF Pending
    <2> QED BY <1>1, <1>4, <1>5, <2>1, <2>2, <2>3, <2>4, <2>5 DEF Printing
  <1>11. excuse' = "none" => Standing'
    <2> SUFFICES ASSUME excuse' = "none" PROVE Standing'
      OBVIOUS
    <2>1. Standing
      BY <1>1, <1>2
    <2>2. T \in Nat /\ T + g + k + 2 <= R
      BY <2>1 DEF Standing, Room
    <2>3. y = H + 1
      <3> HIDE DEF H, R, y, k, l, c, g, T, nl
      <3> QED BY <1>6, <1>7, <2>2 DEF Least
    <2>4. Top' = T
      <3> DEFINE TT == Top'
                 m == Len(shown')
      <3>1. TT = y - m /\ m = l + 1
        BY <1>4, <1>5 DEF Top, Here
      <3> HIDE DEF H, R, y, k, l, c, g, T, nl, TT, m
      <3>2. TT = T
        BY <1>6, <2>3, <3>1
      <3> QED BY <3>2 DEF TT
    <2>5. Room(Top)' /\ Reaches(Top + logoHeight + 1)' /\ (options'.watch => Free' \/ Top' = 0)
      <3>1. Room(Top) /\ Reaches(Top + logoHeight + 1) /\ (options.watch => Free \/ Top = 0)
        BY <2>1 DEF Standing
      <3>2. Free' = Free
        BY <1>1 DEF Free, HeightForgotten, OneRow
      <3> QED BY <1>1, <2>4, <3>1, <3>2 DEF Room, Reaches
    <2>6. \A i \in 1..Len(shown') : shown'[i][1] = Top' + i - 1
      <3> SUFFICES ASSUME NEW i \in 1..Len(shown') PROVE shown'[i][1] = Top' + i - 1
        OBVIOUS
      <3>1. i \in 1..l \/ i = l + 1
        BY <1>5, <1>6
      <3>2. CASE i \in 1..l
        BY <1>5, <2>1, <2>4, <3>2 DEF Standing
      <3>3. CASE i = l + 1
        <4>1. shown'[i][1] = H
          BY <1>5, <3>3
        <4>2. H = T + i - 1
          <5> HIDE DEF H, R, y, k, l, c, g, T, nl
          <5> QED BY <1>6, <3>3
        <4> QED BY <2>4, <4>1, <4>2
      <3> QED BY <3>1, <3>2, <3>3
    <2> QED BY <1>4, <2>2, <2>4, <2>5, <2>6 DEF Standing
  <1>12. AtKeys'
    BY <1>10, <1>11 DEF AtKeys
  <1> QED BY <1>1, <1>9, <1>12 DEF EndsInv, AtLogo, AtCursor, AtSleep

(* The remaining lines lead to a row of the screen, ...                         *)
LEMMA RemainingStays ==
  ASSUME EndsInv, at = "keys"
  PROVE  IsTerminal(Remaining(Flushed)) /\ Remaining(Flushed).row \in Nat /\ Remaining(Flushed).row < Rows
  <1> DEFINE t == Flushed
             u == Remaining(t)
             H == Here
             R == Rows
             c == Len(cache)
             nl == nextLine
             l == Len(shown)
             g == logoHeight
             y == u.row
  <1>1. Screen /\ Screened /\ Printing
    BY DEF EndsInv, AtKeys, Alive, Screen
  <1>2. /\ R \in Nat \ {0} /\ l \in Nat /\ c \in Nat /\ g \in Nat /\ H \in Nat /\ H < R
        /\ nl = Least(l, c) /\ keysHeight = l /\ Listed(cache)
    BY <1>1, LogoAssumption DEF Here, Screen, Printing, Listed
  <1>3. IsTerminal(t) /\ t.row = H
    BY <1>1, FlushedHere DEF Printing
  <1> HIDE DEF t, H
  <1>4. CASE cache # <<>>
    <2> DEFINE x == IF options.position = "right" THEN FromRight(t, rightOffset) ELSE t
               texts == Rest(cache, nextLine)
    <2>1. u = PutLines(t, x.column, texts)
      BY <1>4 DEF Remaining, RemainingLines
    <2>2. nl \in 0..c
      <3> HIDE DEF nl, l, c
      <3> QED BY <1>2 DEF Least
    <2>3. Len(texts) = c - nl
      BY <1>2, <2>2, RestIs
    <2> HIDE DEF texts, x
    <2>4. IsTerminal(u) /\ y = Least(H + (c - nl), R - 1)
      BY <1>3, <2>1, <2>3, PutLinesIs
    <2> HIDE DEF u, y, R, c, nl, l, g
    <2>5. y \in Nat /\ y < R
      BY <1>2, <2>2, <2>4 DEF Least
    <2> QED BY <2>4, <2>5 DEF y, R, u, t
  <1>5. CASE cache = <<>>
    <2>1. u = IF l <= g THEN NewLines(t, g - l + 1) ELSE t
      BY <1>2, <1>5 DEF Remaining
    <2>2. CASE l <= g
      <3> DEFINE n == g - l + 1
      <3>1. n # 0 /\ n \in Nat
        <4> HIDE DEF g, l
        <4> QED BY <1>2, <2>2
      <3>2. u = NewLines(t, n)
        BY <2>1, <2>2
      <3> HIDE DEF n, u
      <3>3. InFront(u, Least(H + n, R - 1))
        BY <1>3, <3>1, <3>2, NewLinesIs
      <3> HIDE DEF R
      <3>4. Least(H + n, R - 1) \in Nat /\ Least(H + n, R - 1) < R
        BY <1>2, <3>1 DEF Least
      <3> QED BY <3>3, <3>4 DEF InFront, R, u, t
    <2>3. CASE ~(l <= g)
      BY <1>2, <1>3, <2>1, <2>3 DEF t
    <2> QED BY <2>2, <2>3
  <1> QED BY <1>4, <1>5

\* Below what was printed
Under(u) ==
  /\ u.column = 0
  /\ Top + Len(shown) <= u.row /\ Top + logoHeight + 1 <= u.row

(* ... which is below the keys and the logo.                                    *)
LEMMA RemainingUnder ==
  ASSUME EndsInv, at = "keys", Standing
  PROVE  Under(Remaining(Flushed))
  <1> DEFINE t == Flushed
             u == Remaining(t)
             H == Here
             T == Top
             R == Rows
             c == Len(cache)
             nl == nextLine
             l == Len(shown)
             g == logoHeight
             k == options.keys
             y == u.row
  <1>1. Screen /\ Screened /\ Printing /\ Fits(options)
    BY DEF EndsInv, AtKeys, Alive, Screen
  <1>2. /\ R \in Nat \ {0} /\ l \in Nat /\ c \in Nat /\ g \in Nat /\ H \in Nat /\ T \in Nat /\ k \in Nat
        /\ nl = Least(l, c) /\ keysHeight = l /\ Listed(cache) /\ T = H - l /\ l <= k /\ T + g + k + 2 <= R
        /\ cache # <<>> => c = g + 1
    <2>1. Here \in Nat /\ g \in Nat
      BY <1>1, LogoAssumption DEF Here, Screen
    <2>2. k \in Nat
      BY <1>1, FitsFields
    <2>3. T \in Nat /\ T + g + k + 2 <= R
      BY DEF Standing, Room
    <2>4. T = H - l
      BY DEF Top
    <2> HIDE DEF H, T, k, g
    <2> QED BY <1>1, <2>1, <2>2, <2>3, <2>4, LogoAssumption DEF Printing, Listed, H, k, g
  <1>3. IsTerminal(t) /\ t.row = H /\ (buffered # <<>> \/ cursor[2] = 0 => t.column = 0)
    BY <1>1, FlushedHere DEF Printing
  <1>4. cache # <<>> \/ shown # <<>> => t.column = 0
    BY <1>3 DEF Standing
  <1>5. l # 0 => shown # <<>>
    BY EmptyIs
  <1> HIDE DEF t, H, T
  <1>6. u.column = 0 /\ T + l <= y /\ T + g + 1 <= y
    <2>1. CASE cache # <<>>
      <3> DEFINE x == IF options.position = "right" THEN FromRight(t, rightOffset) ELSE t
                 texts == Rest(cache, nextLine)
      <3>1. u = PutLines(t, x.column, texts)
        BY <2>1 DEF Remaining, RemainingLines
      <3>2. nl \in 0..c
        <4> HIDE DEF nl, l, c
        <4> QED BY <1>2 DEF Least
      <3>3. Len(texts) = c - nl
        BY <1>2, <3>2, RestIs
      <3> HIDE DEF texts, x
      <3>4. y = Least(H + (c - nl), R - 1) /\ u.column = IF texts = <<>> THEN t.column ELSE 0
        BY <1>3, <3>1, <3>3, PutLinesIs
      <3>5. u.column = 0
        BY <1>4, <2>1, <3>4
      <3>6. c = g + 1
        BY <1>2, <2>1
      <3> HIDE DEF y, R, c, nl, g, k, l
      <3>7. T + l <= y /\ T + g + 1 <= y
        BY <1>2, <3>2, <3>4, <3>6 DEF Least
      <3> QED BY <3>5, <3>7
    <2>2. CASE cache = <<>>
      <3>1. u = IF l <= g THEN NewLines(t, g - l + 1) ELSE t
        BY <1>2, <2>2 DEF Remaining
      <3>2. CASE l <= g
        <4> DEFINE n == g - l + 1
        <4>1. n # 0 /\ n \in Nat
          <5> HIDE DEF g, l
          <5> QED BY <1>2, <3>2
        <4>2. u = NewLines(t, n)
          BY <3>1, <3>2
        <4> HIDE DEF u
        <4>3. InFront(u, Least(H + n, R - 1))
          <5> HIDE DEF n
          <5> QED BY <1>3, <4>1, <4>2, NewLinesIs
        <4>4. y = Least(H + n, R - 1) /\ u.column = 0
          BY <4>3 DEF InFront
        <4>5. n = g - l + 1
          OBVIOUS
        <4> HIDE DEF y, n, R, g, k, l
        <4>6. T + l <= y /\ T + g + 1 <= y
          BY <1>2, <3>2, <4>1, <4>4, <4>5 DEF Least
        <4> QED BY <4>4, <4>6
      <3>3. CASE ~(l <= g)
        <4>1. l # 0
          <5> HIDE DEF l, g
          <5> QED BY <1>2, <3>3
        <4>2. u = t /\ u.column = 0 /\ y = H
          BY <1>3, <1>4, <1>5, <3>1, <3>3, <4>1
        <4> HIDE DEF u, y, l, g, k, R
        <4>3. T + l <= y /\ T + g + 1 <= y
          BY <1>2, <3>3, <4>2
        <4> QED BY <4>2, <4>3
      <3> QED BY <3>2, <3>3
    <2> QED BY <2>1, <2>2
  <1> QED BY <1>6 DEF Under, t, T

(* Clearing what is below leaves the cursor in its row.                         *)
LEMMA ClearBelowStays ==
  ASSUME NEW t, IsTerminal(t)
  PROVE  Stays(t, ClearBelow(t))
  <1> DEFINE u == ClearLine(t)
             s == [r \in 0..Rows - 1 |-> IF r <= t.row THEN u.screen[r] ELSE Cells(Columns, Blank)]
  <1>1. StaysAt(t, u)
    BY ClearLineStays
  <1>2. ClearBelow(t) = [u EXCEPT !.screen = s]
    BY DEF ClearBelow
  <1>3. DOMAIN s = 0..Rows - 1
    OBVIOUS
  <1> HIDE DEF u, s
  <1>4. IsThis([u EXCEPT !.screen = s], s, u.row, u.column)
    BY <1>1, <1>3, Altered, Zenon DEF StaysAt, Stays
  <1> QED BY <1>1, <1>2, <1>4 DEF StaysAt, Stays, IsThis

(* EndsBelow by its parts.                                                      *)
Shorter(row) == \A i \in 1..Len(shown) : shown[i][1] < row
Past(row) == Free \/ \A i \in 1..Len(options.lines) : origin[1] + i - 1 < row
Cleared(row) == \A r \in row..Rows - 1 : \A c \in 1..Columns : screen[r][c] = Blank
Parted ==
  excuse = "none" /\ options.printRemaining =>
    cursor[2] = 0 /\ Shorter(cursor[1]) /\ Past(cursor[1]) /\ (options.watch => Cleared(cursor[1]))

LEMMA PartedIs == Parted' => EndsBelow'
  <1>1. Parted => EndsBelow
    <2> SUFFICES ASSUME Parted, excuse = "none", options.printRemaining PROVE EndsBelow
      BY DEF EndsBelow
    <2>1. cursor[2] = 0 /\ (\A i \in 1..Len(shown) : shown[i][1] < cursor[1])
      BY DEF Parted, Shorter
    <2>2. \/ drawn = 0 \/ options.position = "top"
          \/ HeightForgotten \/ OneRow
          \/ \A i \in 1..Len(options.lines) : origin[1] + i - 1 < cursor[1]
      BY Zenon DEF Parted, Past, Free
    <2>3. options.watch => \A row \in cursor[1]..Rows - 1 : \A c \in 1..Columns : screen[row][c] = Blank
      BY Zenon DEF Parted, Cleared
    <2> QED BY <2>1, <2>2, <2>3, Zenon DEF EndsBelow
  <1> QED BY <1>1, PTL

(* What is below what was printed is below each line of it.                     *)
LEMMA BelowIs ==
  ASSUME EndsInv, at = "keys", Standing, NEW row \in Nat,
         Top + Len(shown) <= row, Top + logoHeight + 1 <= row
  PROVE  Shorter(row) /\ Past(row)
  <1> DEFINE T == Top
             l == Len(shown)
             g == logoHeight
             n == Len(options.lines)
             b == origin[1]
  <1>1. T \in Nat /\ l \in Nat /\ g \in Nat /\ n \in Nat /\ b \in Nat
    BY FitsFields DEF Standing, EndsInv, Alive, Screen, AtKeys, Printing, Listed
  <1>2. \A i \in 1..l : shown[i][1] < row
    <2> SUFFICES ASSUME NEW i \in 1..l PROVE shown[i][1] < row
      OBVIOUS
    <2>1. shown[i][1] = T + i - 1 /\ T + l <= row
      BY DEF Standing
    <2> HIDE DEF T, l
    <2>2. T + i - 1 < row
      BY <1>1, <2>1
    <2> QED BY <2>1, <2>2
  <1>3. ASSUME ~Free, NEW i \in 1..n PROVE b + i - 1 < row
    <2>1. b + n <= T + g + 1 /\ T + g + 1 <= row
      BY <1>3 DEF Standing, Reaches
    <2> HIDE DEF T, g, n, b
    <2> QED BY <1>1, <1>3, <2>1
  <1> QED BY <1>2, <1>3 DEF Shorter, Past

(* The end of the program, ...                                                  *)
LEMMA FinishEnds ==
  ASSUME EndsInv, Finish
  PROVE  EndsInv' /\ EndsBelow'
  <1>1. /\ at = "keys" /\ at' = "end" /\ ~options.watch
        /\ options.printRemaining => Prints(Remaining(Flushed))
        /\ UNCHANGED <<options, logoHeight, round, drawn, origin, excuse, shown>>
    BY DEF Finish
  <1>2. EndsInv'
    BY <1>1 DEF EndsInv, Alive
  <1>3. EndsBelow'
    <2> SUFFICES ASSUME excuse' = "none", options'.printRemaining
                 PROVE  cursor'[2] = 0 /\ Shorter(cursor[1])' /\ Past(cursor[1])' /\ ~options'.watch
      BY PartedIs DEF Parted
    <2> DEFINE u == Remaining(Flushed)
               y == cursor'[1]
    <2>1. Standing
      BY <1>1 DEF EndsInv, Alive, AtKeys
    <2>2. Shows(u)
      BY <1>1 DEF Prints
    <2>3. Under(u) /\ u.row \in Nat
      BY <1>1, <2>1, RemainingUnder, RemainingStays
    <2> HIDE DEF u
    <2>4. cursor'[2] = 0 /\ y = u.row
      BY <2>2, <2>3, ShowsIs DEF Under
    <2>5. y \in Nat /\ Top + Len(shown) <= y /\ Top + logoHeight + 1 <= y
      BY <2>3, <2>4 DEF Under
    <2> HIDE DEF y
    <2>6. Shorter(y) /\ Past(y)
      BY <1>1, <2>1, <2>5, BelowIs
    <2>7. Free' = Free
      BY <1>1 DEF Free, HeightForgotten, OneRow
    <2>8. Shorter(cursor[1])' /\ Past(cursor[1])'
      BY <1>1, <2>6, <2>7 DEF Shorter, Past, y
    <2> QED BY <1>1, <2>4, <2>8
  <1> QED BY <1>2, <1>3

(* ... and that of a round.                                                     *)
LEMMA EndRoundEnds ==
  ASSUME EndsInv, EndRound
  PROVE  EndsInv' /\ EndsBelow'
  <1> DEFINE t == Remaining(Flushed)
             u == ClearBelow(t)
             y == cursor'[1]
  <1>1. /\ at = "keys" /\ at' = "asleep" /\ options.watch /\ Prints(u) /\ cache' = <<>> /\ nextLine' = 0
        /\ UNCHANGED <<options, logoHeight, round, drawn, origin, excuse, shown>>
    BY DEF EndRound, PrintRemaining
  <1>2. Screen /\ Printing /\ (excuse = "none" => Standing)
    BY <1>1 DEF EndsInv, Alive, AtKeys
  <1>3. IsTerminal(t) /\ t.row \in Nat /\ t.row < Rows
    BY <1>1, RemainingStays
  <1>4. excuse = "none" => Under(t)
    BY <1>1, <1>2, RemainingUnder
  <1> HIDE DEF t
  <1>5. Stays(t, u)
    BY <1>3, ClearBelowStays
  <1>6. excuse = "none" =>
          /\ StaysAt(t, u)
          /\ \A row \in t.row..Rows - 1 : \A c \in 1..Columns : u.screen[row][c] = Blank
    <2>1. Rows \in Nat
      BY LogoAssumption
    <2>2. t.row \in 0..Rows - 1
      <3> DEFINE a == t.row
                 R == Rows
      <3>1. a \in Nat /\ a < R /\ R \in Nat
        BY <1>3, <2>1
      <3> HIDE DEF a, R
      <3>2. a \in 0..R - 1
        BY <3>1
      <3> QED BY <3>2 DEF a, R
    <2> QED BY <1>3, <1>4, <2>2, ClearBelowIs DEF Under
  <1> HIDE DEF u
  <1>7. Shows(u) /\ buffered' = <<>>
    BY <1>1 DEF Prints
  <1>8. Screened' /\ y = t.row /\ screen' = u.screen /\ cursor'[2] = u.column
    BY <1>5, <1>7, ShowsIs DEF Stays, Screened
  <1>9. Screen'
    BY <1>1, <1>2, <1>3, <1>8 DEF Screen
  <1>10. Free' = Free
    BY <1>1 DEF Free, HeightForgotten, OneRow
  <1>11. excuse' = "none" => Room(0)' /\ Reaches(logoHeight + 1)'
    <2> SUFFICES ASSUME excuse' = "none" PROVE Room(0)' /\ Reaches(logoHeight + 1)'
      OBVIOUS
    <2>1. Standing
      BY <1>1, <1>2
    <2> DEFINE T == Top
               g == logoHeight
               k == options.keys
               R == Rows
    <2>2. T \in Nat /\ g \in Nat /\ k \in Nat /\ R \in Nat /\ T + g + k + 2 <= R
      BY <1>2, <2>1, FitsFields, LogoAssumption DEF Standing, Room, Screen
    <2>3. Free \/ (T = 0 /\ origin[1] + Len(options.lines) <= T + g + 1)
      BY <1>1, <2>1 DEF Standing, Reaches
    <2> HIDE DEF T, g, k, R
    <2>4. 0 + g + k + 2 <= R
      BY <2>2
    <2>5. Free \/ origin[1] + Len(options.lines) <= g + 1
      <3>1. T = 0 => T + g + 1 = g + 1
        BY <2>2
      <3> QED BY <2>3, <3>1, Zenon
    <2> QED BY <1>1, <1>10, <2>4, <2>5 DEF Room, Reaches, g, k, R
  <1>12. EndsInv'
    <2>1. AtSleep'
      BY <1>1, <1>7, <1>11 DEF AtSleep
    <2> QED BY <1>1, <1>9, <2>1 DEF EndsInv, AtLogo, AtCursor, AtKeys
  <1>13. EndsBelow'
    <2> SUFFICES ASSUME excuse' = "none"
                 PROVE  cursor'[2] = 0 /\ Shorter(cursor[1])' /\ Past(cursor[1])' /\ Cleared(cursor[1])'
      BY PartedIs DEF Parted
    <2>1. Standing /\ Under(t) /\ StaysAt(t, u)
          /\ \A row \in t.row..Rows - 1 : \A c \in 1..Columns : u.screen[row][c] = Blank
      BY <1>1, <1>2, <1>4, <1>6
    <2>2. cursor'[2] = 0
      BY <1>8, <2>1 DEF StaysAt, Under
    <2>3. y \in Nat /\ Top + Len(shown) <= y /\ Top + logoHeight + 1 <= y
      BY <1>3, <1>8, <2>1 DEF Under
    <2>4. \A row \in y..Rows - 1 : \A c \in 1..Columns : screen'[row][c] = Blank
      BY <1>8, <2>1
    <2> HIDE DEF y
    <2>5. Shorter(y) /\ Past(y)
      BY <1>1, <2>1, <2>3, BelowIs
    <2>6. Shorter(cursor[1])' /\ Past(cursor[1])' /\ Cleared(cursor[1])'
      BY <1>1, <1>10, <2>4, <2>5 DEF Shorter, Past, Cleared, y
    <2> QED BY <2>2, <2>6
  <1> QED BY <1>12, <1>13

(* Away from the ends of the rounds there is nothing to say of them.            *)
LEMMA NotThere == ASSUME at' \notin {"asleep", "end"} PROVE EndsBelow'
  BY DEF EndsBelow

(* The invariant does not depend on the rest.                                   *)
LEMMA SameEnds ==
  ASSUME EndsInv, EndsBelow, AtCursor',
         UNCHANGED <<at, options, cache, nextLine, logoHeight, keysHeight, screen, cursor, buffered, round, drawn,
                     origin, excuse, shown>>
  PROVE  EndsInv' /\ EndsBelow'
  <1>1. EndsBelow'
    BY DEF EndsBelow, HeightForgotten, OneRow
  <1>2. Start' = Start /\ Top' = Top /\ Free' = Free
    BY DEF Start, Top, Here, Free, HeightForgotten, OneRow
  <1>3. Alive' = Alive /\ (Screen => Screen') /\ (AtLogo => AtLogo') /\ (AtSleep => AtSleep')
    BY <1>2 DEF Alive, Screen, Screened, AtLogo, Unprinted, AtSleep, Room, Reaches
  <1>4. AtKeys => AtKeys'
    BY <1>2 DEF AtKeys, Printing, Standing, Room, Reaches
  <1> QED BY <1>1, <1>3, <1>4 DEF EndsInv

(* The other steps keep it: questions, ...                                      *)
LEMMA AskEnds ==
  ASSUME EndsInv, AskSize \/ SizeDetected
  PROVE  EndsInv' /\ EndsBelow'
  <1>1. /\ at \in {"keys", "asking"} /\ at' \in {"keys", "asking"}
        /\ UNCHANGED <<options, cache, nextLine, logoHeight, keysHeight, screen, cursor, buffered, round, drawn,
                       origin, excuse, shown>>
    BY DEF AskSize, SizeDetected
  <1>2. Screen /\ Printing /\ (excuse = "none" => Standing)
    BY <1>1 DEF EndsInv, Alive, AtKeys
  <1>3. Top' = Top /\ Free' = Free
    BY <1>1 DEF Top, Here, Free, HeightForgotten, OneRow
  <1>4. Screen'
    BY <1>1, <1>2 DEF Screen, Screened
  <1>5. AtKeys'
    BY <1>1, <1>2, <1>3 DEF AtKeys, Printing, Standing, Room, Reaches
  <1> QED BY <1>1, <1>4, <1>5, NotThere DEF EndsInv, AtLogo, AtCursor, AtSleep

(* ... the next round, ...                                                      *)
LEMMA RefreshEnds ==
  ASSUME EndsInv, Refresh
  PROVE  EndsInv' /\ EndsBelow'
  <1>1. /\ at = "asleep" /\ round' = round + 1 /\ buffered' = Append(buffered, "home") /\ keysHeight' = 0
        /\ shown' = <<>> /\ at' = (IF options.type = "spin" /\ drawn # 0 /\ options.turns THEN "logo" ELSE "keys")
        /\ UNCHANGED <<options, cache, nextLine, logoHeight, screen, cursor, drawn, origin, excuse>>
    BY DEF Refresh
  <1>2. Screen /\ AtSleep
    BY <1>1 DEF EndsInv, Alive
  <1>3. /\ cache = <<>> /\ nextLine = 0 /\ buffered = <<>> /\ options.watch
        /\ excuse = "none" => Room(0) /\ Reaches(logoHeight + 1)
    BY <1>1, <1>2 DEF AtSleep
  <1>4. buffered' = <<"home">> /\ buffered' # <<>>
    BY <1>1, <1>3
  <1>5. Screen'
    <2>1. round' \in Nat \ {0}
      <3> DEFINE r == round
                 q == round'
      <3>1. r \in Nat \ {0} /\ q = r + 1
        BY <1>1, <1>2 DEF Screen
      <3> HIDE DEF r, q
      <3>2. q \in Nat \ {0}
        BY <3>1
      <3> QED BY <3>2 DEF q
    <2> QED BY <1>1, <1>2, <2>1 DEF Screen, Screened
  <1>6. CASE options.type = "spin" /\ drawn # 0 /\ options.turns
    <2>1. at' = "logo"
      BY <1>1, <1>6
    <2>2. AtLogo'
      BY <1>1, <1>3, <1>4, <1>6 DEF AtLogo, Unprinted
    <2> QED BY <1>5, <2>1, <2>2, NotThere DEF EndsInv, AtCursor, AtKeys, AtSleep
  <1>7. CASE ~(options.type = "spin" /\ drawn # 0 /\ options.turns)
    <2>1. at' = "keys"
      BY <1>1, <1>7
    <2>2. Here' = 0 /\ Free' = Free
      BY <1>1, <1>4 DEF Here, Free, HeightForgotten, OneRow
    <2>3. excuse' = "none" => Room(Here)' /\ Reaches(Here + logoHeight + 1)'
      <3> DEFINE g == logoHeight
      <3>1. 0 + g + 1 = g + 1
        BY <1>2 DEF Screen
      <3>2. excuse' = "none" => Room(0)' /\ Reaches(g + 1)'
        BY <1>1, <1>3, <2>2 DEF Room, Reaches
      <3>3. excuse' = "none" => Room(Here)'
        BY <2>2, <3>2, Zenon DEF Room
      <3>4. excuse' = "none" => Reaches(Here + logoHeight + 1)'
        <4>1. logoHeight' = g
          BY <1>1
        <4>2. Here' + logoHeight' + 1 = g + 1
          BY <2>2, <3>1, <4>1
        <4> QED BY <3>2, <4>1, <4>2, Zenon DEF Reaches
      <3> QED BY <3>3, <3>4
    <2>4. Drawn'
      BY <1>1, <1>3, <1>4, <1>5, <2>2, <2>3, EmptyIs DEF Drawn, Pending
    <2> QED BY <2>1, <2>4, DrawnNext, NotThere
  <1> QED BY <1>6, <1>7

(* ... a signal, another size of the terminal, ...                              *)
LEMMA ExitEnds ==
  ASSUME Signal
  PROVE  EndsInv' /\ EndsBelow'
  BY DEF Signal, EndsInv, Alive, EndsBelow

LEMMA ZoomEnds ==
  ASSUME EndsInv, EndsBelow, Zoom
  PROVE  EndsInv' /\ EndsBelow'
  <1>1. /\ at = "asleep"
        /\ UNCHANGED <<at, options, cache, nextLine, logoHeight, keysHeight, screen, cursor, buffered, round, drawn,
                     origin, excuse, shown>>
    BY DEF Zoom
  <1>2. AtCursor'
    BY <1>1 DEF AtCursor
  <1> QED BY <1>1, <1>2, SameEnds

(* ... a question that goes on: it stays of its kind, and the answer is the     *)
(* truth, ...                                                                   *)
LEMMA CallKept ==
  ASSUME HeardInv, Running
  PROVE  call'.kind = call.kind /\ call'.truth \in {call.truth, Truth}
  <1>1. {"kind", "step", "buffer", "truth", "values"} \subseteq DOMAIN call /\ (Question \/ Write(Truth))
    BY DEF Running, Asking, HeardInv, Talk, Talking
  <1>2. ASSUME NEW step, Goes(step) PROVE call'.kind = call.kind /\ call'.truth = call.truth
    BY <1>1, <1>2 DEF Goes
  <1>3. ASSUME Fails PROVE call'.kind = call.kind /\ call'.truth = call.truth
    BY <1>1, <1>3 DEF Fails
  <1>4. CASE Open \/ GetAttributes \/ SetAttributes \/ Register
    BY <1>2, <1>3, <1>4 DEF Open, GetAttributes, SetAttributes, Register
  <1>5. CASE Timeout
    BY <1>3, <1>5 DEF Timeout
  <1>6. CASE Read
    <2>1. \/ Fails
          \/ \E b : call' = [call EXCEPT !.buffer = b]
          \/ \E b, v : call' = [call EXCEPT !.step = "done", !.buffer = b, !.values = v]
      <3> DEFINE buffer == call.buffer \o queue
                 values == Scan(call.kind, buffer)
      <3>1. CASE values = <<>>
        BY <1>6, <3>1 DEF Read
      <3>2. Len(values) \in 0..2
        BY ScanLength
      <3> HIDE DEF values
      <3>3. Len(values) = 0 \/ Len(values) = 1 \/ Len(values) = 2
        BY <3>2
      <3>4. CASE Len(values) = 0
        BY <1>6, <3>4 DEF Read, values
      <3>5. CASE Len(values) = 1
        BY <1>6, <3>5 DEF Read, values
      <3>6. CASE Len(values) = 2
        BY <1>6, <3>6 DEF Read, values
      <3> QED BY <3>3, <3>4, <3>5, <3>6
    <2> QED BY <1>1, <1>3, <2>1
  <1>7. CASE Write(Truth)
    BY <1>1, <1>7 DEF Write
  <1> QED BY <1>1, <1>4, <1>5, <1>6, <1>7 DEF Question

LEMMA RunningEnds ==
  ASSUME HeardInv, EndsInv, EndsBelow, Running
  PROVE  EndsInv' /\ EndsBelow'
  <1>1. UNCHANGED <<at, options, cache, nextLine, logoHeight, keysHeight, screen, cursor, buffered, round, drawn,
                    origin, excuse, shown>> /\ Alive
    BY DEF Running, Asking, svars
  <1>2. call'.kind = call.kind /\ call'.truth \in {call.truth, Truth}
    BY CallKept
  <1>3. AtCursor'
    <2> SUFFICES ASSUME at = "cursor" PROVE AtCursor'
      BY <1>1 DEF AtCursor
    <2>1. AtCursor
      BY <1>1 DEF EndsInv
    <2>2. call.kind = "cursor" /\ call.truth \in {<<>>, <<cursor[1] + 1, cursor[2] + 1>>}
      BY <2>1 DEF AtCursor
    <2>3. Truth = <<cursor[1] + 1, cursor[2] + 1>>
      BY <2>2 DEF Truth
    <2> QED BY <1>1, <1>2, <2>1, <2>2, <2>3 DEF AtCursor, Unprinted
  <1> QED BY <1>1, <1>3, SameEnds

(* ... the terminal and the user, ...                                           *)
LEMMA OtherEndEnds ==
  ASSUME EndsInv, EndsBelow, TheOtherEnd \/ UNCHANGED vars
  PROVE  EndsInv' /\ EndsBelow'
  <1>1. UNCHANGED <<at, options, cache, nextLine, logoHeight, keysHeight, screen, cursor, buffered, round, drawn,
                    origin, excuse, shown, call>>
    BY DEF TheOtherEnd, Deliver, Type, svars, vars, qvars
  <1>2. CASE Alive
    <2>1. AtCursor'
      BY <1>1, <1>2 DEF AtCursor, Unprinted, EndsInv
    <2> QED BY <1>1, <2>1, SameEnds
  <1>3. CASE ~Alive
    BY <1>1, <1>3 DEF EndsInv, Alive, EndsBelow, HeightForgotten, OneRow
  <1> QED BY <1>2, <1>3

(* ... any logo, ...                                                            *)
LEMMA PrintEnds ==
  ASSUME HeardInv, EndsInv, LogoPrint
  PROVE  EndsInv' /\ EndsBelow'
  <1>1. CASE LogoPrintLines \/ LogoPrintNone \/ LogoPrintSpin \/ LogoPrintSpinFails
    <2>1. Drawn'
      BY <1>1, LogoLinesEnd, LogoNoneEnds, LogoSpinEnds, LogoSpinFailsEnds
    <2>2. at' = "keys"
      BY <1>1 DEF LogoPrintLines, LogoPrintNone, LogoPrintSpin, LogoPrintSpinFails
    <2> QED BY <2>1, <2>2, DrawnNext, NotThere
  <1>2. CASE LogoPrintRaw \/ PrintImageIterm \/ PrintImageKittyDirect \/ PrintImageKittyIcat
    <2>1. ASSUME NEW o, NEW t, NEW column, ImageSized(o, t) \/ ImageAtTop(o, t, column) \/ ImageAsked(o, t, column)
          PROVE  at' \in {"keys", "cursor"}
      BY <2>1 DEF ImageSized, ImageAtTop, ImageAsked
    <2>2. ASSUME NEW o, NEW t, PrintSent(o, t)
          PROVE  at' \in {"keys", "cursor"}
      BY <2>1, <2>2 DEF PrintSent
    <2>3. at' \in {"keys", "cursor"}
      BY <1>2, <2>1, <2>2 DEF LogoPrintRaw, PrintImageIterm, PrintImageKittyDirect, PrintImageKittyIcat
    <2> QED BY <1>2, <2>3, SentEnds, NotThere
  <1>3. CASE ImagePlaced \/ Measure \/ MeasureOn \/ PrintImagePixels \/ PrintImageChafa \/ ImageFails
    <2>1. at' \in {"keys", "measuring", "unmeasured", "logo"}
      BY <1>3 DEF ImagePlaced, Measure, MeasureOn, PrintImagePixels, PrintImageChafa, ImageFails
    <2>2. EndsInv'
      BY <1>3, PlacedEnds, MeasureEnds, PixelsEnd, ChafaEnds, FailsEnds
    <2> QED BY <2>1, <2>2, NotThere
  <1> QED BY <1>1, <1>2, <1>3 DEF LogoPrint, ImagePrint

(* ... a key, ...                                                               *)
LEMMA KeysEnd ==
  ASSUME EndsInv, PrintKey
  PROVE  EndsInv' /\ EndsBelow'
  <1>1. at' = "keys"
    BY DEF PrintKey
  <1> QED BY <1>1, PrintKeyEnds, NotThere

EndsFully == HeardInv /\ EndsInv /\ EndsBelow

(* ... and so every step.                                                       *)
LEMMA NextEnds == EndsFully /\ [Next]_vars => EndsFully'
  <1> SUFFICES ASSUME HeardInv, EndsInv, EndsBelow, [Next]_vars PROVE EndsInv' /\ EndsBelow'
    BY NextHearing DEF EndsFully
  <1>1. CASE LogoPrint
    BY <1>1, PrintEnds
  <1>2. CASE PrintKey
    BY <1>2, KeysEnd
  <1>3. CASE AskSize \/ SizeDetected
    BY <1>3, AskEnds
  <1>4. CASE Finish
    BY <1>4, FinishEnds
  <1>5. CASE EndRound
    BY <1>5, EndRoundEnds
  <1>6. CASE Refresh
    BY <1>6, RefreshEnds
  <1>7. CASE Signal
    BY <1>7, ExitEnds
  <1>8. CASE Zoom
    BY <1>8, ZoomEnds
  <1>9. CASE Running
    BY <1>9, RunningEnds
  <1>10. CASE TheOtherEnd \/ UNCHANGED vars
    BY <1>10, OtherEndEnds
  <1> QED BY <1>1, <1>2, <1>3, <1>4, <1>5, <1>6, <1>7, <1>8, <1>9, <1>10 DEF Next

(* At first nothing is drawn.                                                   *)
LEMMA InitEnds == Init => EndsFully
  <1> SUFFICES ASSUME Init PROVE EndsInv /\ EndsBelow
    BY InitHearing DEF EndsFully
  <1>1. /\ options \in Options /\ at = "logo" /\ cache = <<>> /\ nextLine = 0 /\ logoHeight = 0 /\ keysHeight = 0
        /\ buffered = <<>> /\ round = 1 /\ drawn = 0 /\ origin = <<0, 0>> /\ shown = <<>>
        /\ IF options.watch THEN cursor = <<0, 0>> /\ screen = Empty
           ELSE cursor = <<1, 0>> /\ screen = [Empty EXCEPT ![0] = Cells(Columns, Shell)]
    BY DEF Init
  <1>2. Fits(options)
    BY <1>1, FitsAssumption
  <1>3. cursor = <<cursor[1], cursor[2]>> /\ cursor[1] = Start /\ cursor[2] = 0
    BY <1>1 DEF Start
  <1>4. DOMAIN screen = 0..Rows - 1
    BY <1>1 DEF Empty
  <1>5. Start \in Nat /\ Start < Rows
    <2> DEFINE tp == options.top
               n == Len(options.lines)
               g == options.right
               k == options.keys
               R == Rows
    <2>1. tp \in Nat /\ n \in Nat /\ g \in Nat /\ k \in Nat /\ R \in Nat /\ tp + n + g + k + 4 <= R
      BY <1>2, SizesAre DEF RowsFit
    <2> HIDE DEF tp, n, g, k, R
    <2>2. 0 < R /\ 1 < R
      BY <2>1
    <2> QED BY <2>2 DEF Start, R
  <1>6. Screen
    BY <1>1, <1>2, <1>3, <1>4, <1>5 DEF Screen, Screened
  <1>7. AtLogo
    BY <1>1, <1>3 DEF AtLogo, Unprinted
  <1> QED BY <1>1, <1>6, <1>7 DEF EndsInv, AtCursor, AtKeys, AtSleep, EndsBelow

(* Whenever a round or the program ends, the cursor is at the beginning of a    *)
(* line below the keys and, but for the named cases, below the logo, and in a   *)
(* round of --watch nothing is left from there on (logo.c:785). So it is for    *)
(* every logo, size and position, any screen on which it fits, and however the  *)
(* terminal answers.                                                            *)
THEOREM NothingIsBelow == Spec => []EndsBelow
  <1>1. EndsFully => EndsBelow
    BY DEF EndsFully
  <1> QED BY <1>1, InitEnds, NextEnds, PTL DEF Spec

-----------------------------------------------------------------------------
(* The logo and the keys beside it.                                             *)

(* What is inside of a part is inside of the whole.                             *)
LEMMA Inside ==
  ASSUME NEW x \in Nat, NEW w \in Nat, NEW C \in Nat, x + w <= C, NEW j \in 1..w
  PROVE  x + j \in 1..C /\ x + j \in 1..x + w /\ (x + j) - x = j
  OBVIOUS

(* Runs of a cell, and two lists one after the other.                           *)
LEMMA CellsAre ==
  ASSUME NEW n \in Nat, NEW cell
  PROVE  Listed(Cells(n, cell)) /\ Len(Cells(n, cell)) = n /\ \A i \in 1..n : Cells(n, cell)[i] = cell
  <1> DEFINE s == Cells(n, cell)
  <1>1. s = [i \in 1..n |-> s[i]] /\ \A i \in 1..n : s[i] = cell
    BY DEF Cells
  <1> HIDE DEF s
  <1>2. Len(s) = n /\ Listed(s)
    BY <1>1, ListedIs, Zenon
  <1> QED BY <1>1, <1>2 DEF s
Joined(s, u, both) ==
  /\ Listed(both) /\ Len(both) = Len(s) + Len(u)
  /\ \A i \in 1..Len(s) : both[i] = s[i]
  /\ \A i \in 1..Len(u) : both[Len(s) + i] = u[i]
LEMMA JoinedIs ==
  ASSUME NEW s, NEW u, Listed(s), Listed(u)
  PROVE  Joined(s, u, s \o u)
  <1> DEFINE A == {s[i] : i \in 1..Len(s)} \union {u[i] : i \in 1..Len(u)}
             both == s \o u
  <1>1. s \in Seq(A) /\ u \in Seq(A)
    <2> DEFINE S == {s[i] : i \in 1..Len(s)}
               U == {u[i] : i \in 1..Len(u)}
    <2>1. s \in Seq(S) /\ u \in Seq(U)
      BY ListedIs DEF Listed
    <2>2. S \subseteq A /\ U \subseteq A
      OBVIOUS
    <2> HIDE DEF S, U, A
    <2> QED BY <2>1, <2>2
  <1> HIDE DEF A
  <1>2. /\ both \in Seq(A) /\ Len(both) = Len(s) + Len(u)
        /\ \A i \in 1..Len(s) + Len(u) : both[i] = IF i <= Len(s) THEN s[i] ELSE u[i - Len(s)]
    BY <1>1, ConcatProperties
  <1>3. Len(s) \in Nat /\ Len(u) \in Nat
    BY DEF Listed
  <1>4. Listed(both)
    <2> HIDE DEF both
    <2>1. DOMAIN both = 1..Len(both) /\ Len(both) \in Nat
      BY <1>2, LenProperties
    <2>2. both = [i \in DOMAIN both |-> both[i]]
      <3>1. \A n \in Nat : \A f \in [1..n -> A] : f = [i \in DOMAIN f |-> f[i]]
        OBVIOUS
      <3>2. \E n \in Nat : both \in [1..n -> A]
        BY <1>2, SeqDef
      <3> QED BY <3>1, <3>2
    <2> QED BY <2>1, <2>2 DEF Listed
  <1> DEFINE a == Len(s)
             b == Len(u)
  <1>5. \A i \in 1..a : i \in 1..a + b /\ i <= a
    BY <1>3
  <1>6. \A i \in 1..b : a + i \in 1..a + b /\ ~(a + i <= a) /\ (a + i) - a = i
    BY <1>3
  <1>7. \A i \in 1..a : both[i] = s[i]
    BY <1>2, <1>5
  <1>8. \A i \in 1..b : both[a + i] = u[i]
    <2> HIDE DEF both
    <2> QED BY <1>2, <1>6
  <1> HIDE DEF both
  <1> QED BY <1>2, <1>4, <1>7, <1>8 DEF Joined, both

(* A row of the screen with text in it, ...                                     *)
LEMMA WithIs ==
  ASSUME NEW cells, NEW column \in Int, NEW text, Listed(text), NEW c \in 1..Columns
  PROVE  With(cells, column, text)[c] =
           IF c - column \in 1..Len(text) THEN text[c - column] ELSE cells[c]
  <1>1. DOMAIN text = 1..Len(text)
    BY DEF Listed
  <1> QED BY <1>1 DEF With

(* ... and the screen.                                                          *)
IsPut(t, text, u) ==
  /\ \A r \in 0..Rows - 1 : r # t.row => u.screen[r] = t.screen[r]
  /\ \A c \in 1..Columns :
       u.screen[t.row][c] = IF c - t.column \in 1..Len(text) THEN text[c - t.column] ELSE t.screen[t.row][c]
  /\ u.column = Least(t.column + Len(text), Columns - 1)
  /\ IsTerminal(u) /\ u.row = t.row
LEMMA PutIs ==
  ASSUME NEW t, IsTerminal(t), t.row \in 0..Rows - 1, t.column \in Int, NEW text, Listed(text)
  PROVE  IsPut(t, text, Put(t, text))
  <1> DEFINE s == [t.screen EXCEPT ![t.row] = With(@, t.column, text)]
             x == Least(t.column + Len(text), Columns - 1)
  <1>1. Put(t, text) = [t EXCEPT !.screen = s, !.column = x]
    BY DEF Put
  <1>2. DOMAIN s = 0..Rows - 1
    BY DEF IsTerminal
  <1>3. \A r \in 0..Rows - 1 : r # t.row => s[r] = t.screen[r]
    BY DEF IsTerminal
  <1>4. s[t.row] = With(t.screen[t.row], t.column, text)
    BY DEF IsTerminal
  <1> HIDE DEF s, x
  <1>5. IsThis([t EXCEPT !.screen = s, !.column = x], s, t.row, x)
    BY <1>2, Altered, Zenon
  <1>6. IsThis(Put(t, text), s, t.row, x)
    BY <1>1, <1>5, Zenon
  <1>7. \A c \in 1..Columns :
          s[t.row][c] = IF c - t.column \in 1..Len(text) THEN text[c - t.column] ELSE t.screen[t.row][c]
    BY <1>4, WithIs
  <1> QED BY <1>3, <1>6, <1>7 DEF IsPut, IsThis, x

(* Clearing the rest of a line leaves the other rows, and what is before it.    *)
IsCleared(t, u) ==
  /\ \A r \in 0..Rows - 1 : r # t.row => u.screen[r] = t.screen[r]
  /\ \A c \in 1..Columns : u.screen[t.row][c] = IF c <= t.column THEN t.screen[t.row][c] ELSE Blank
  /\ IsTerminal(u) /\ u.row = t.row /\ u.column = t.column
LEMMA ClearLineIs ==
  ASSUME NEW t, IsTerminal(t), t.row \in 0..Rows - 1
  PROVE  IsCleared(t, ClearLine(t))
  <1> DEFINE line == [c \in 1..Columns |-> IF c <= t.column THEN t.screen[t.row][c] ELSE Blank]
             s == [t.screen EXCEPT ![t.row] = line]
  <1>1. ClearLine(t) = [t EXCEPT !.screen = s]
    BY DEF ClearLine
  <1>2. DOMAIN s = 0..Rows - 1 /\ s[t.row] = line /\ \A r \in 0..Rows - 1 : r # t.row => s[r] = t.screen[r]
    BY DEF IsTerminal
  <1>3. \A c \in 1..Columns : line[c] = IF c <= t.column THEN t.screen[t.row][c] ELSE Blank
    OBVIOUS
  <1> HIDE DEF s, line
  <1>4. DOMAIN s = 0..Rows - 1
    BY <1>2
  <1>5. IsThis(ClearLine(t), s, t.row, t.column)
    BY <1>1, <1>4, Altered, Zenon
  <1> QED BY <1>2, <1>3, <1>5 DEF IsCleared, IsThis

(* Clearing what is below leaves the rows above.                                *)
LEMMA ClearBelowKeeps ==
  ASSUME NEW t, IsTerminal(t), t.row \in 0..Rows - 1, NEW r \in 0..Rows - 1, r < t.row
  PROVE  ClearBelow(t).screen[r] = t.screen[r]
  <1> DEFINE u == ClearLine(t)
             s == [q \in 0..Rows - 1 |-> IF q <= t.row THEN u.screen[q] ELSE Cells(Columns, Blank)]
  <1>1. u.screen[r] = t.screen[r] /\ IsTerminal(u)
    BY ClearLineIs DEF IsCleared
  <1>2. ClearBelow(t) = [u EXCEPT !.screen = s]
    BY DEF ClearBelow
  <1>3. s[r] = u.screen[r]
    <2> HIDE DEF u
    <2> QED OBVIOUS
  <1>4. DOMAIN s = 0..Rows - 1
    OBVIOUS
  <1> HIDE DEF u, s
  <1>5. IsThis([u EXCEPT !.screen = s], s, u.row, u.column)
    BY <1>1, <1>4, Altered, Zenon
  <1>6. ClearBelow(t).screen = s
    BY <1>2, <1>5 DEF IsThis
  <1> QED BY <1>1, <1>3, <1>6

(* Clearing all leaves nothing.                                                 *)
LEMMA ClearAllIs ==
  ASSUME NEW t, IsTerminal(t)
  PROVE  /\ IsTerminal(ClearAll(t)) /\ ClearAll(t).screen = Empty
         /\ ClearAll(t).row = t.row /\ ClearAll(t).column = t.column
         /\ \A r \in 0..Rows - 1 : \A c \in 1..Columns : Empty[r][c] = Blank
  <1>1. DOMAIN Empty = 0..Rows - 1
    BY DEF Empty
  <1>2. IsThis(ClearAll(t), Empty, t.row, t.column)
    BY <1>1, Altered DEF ClearAll
  <1>3. \A r \in 0..Rows - 1 : \A c \in 1..Columns : Empty[r][c] = Blank
    BY DEF Empty, Cells
  <1> QED BY <1>2, <1>3 DEF IsThis

(* Moves leave the screen.                                                      *)
LEMMA MovesKeep ==
  ASSUME NEW t, IsTerminal(t), NEW n, NEW row, NEW column
  PROVE  /\ NewLine(t).screen = t.screen /\ NewLines(t, n).screen = t.screen
         /\ Forward(t, n).screen = t.screen /\ FromRight(t, n).screen = t.screen
         /\ UpBy(t, n).screen = t.screen /\ MoveTo(t, row, column).screen = t.screen
         /\ Forward(t, n).column = Least(t.column + n, Columns - 1)
         /\ FromRight(t, n).column = Minus(Columns - 1, Most({n, 1}))
  <1>1. \A y, x : [t EXCEPT !.row = y, !.column = x].screen = t.screen
    BY DEF IsTerminal
  <1>2. \A x : [t EXCEPT !.column = x].screen = t.screen /\ [t EXCEPT !.column = x].column = x
    BY DEF IsTerminal
  <1>3. \A y : [t EXCEPT !.row = y].screen = t.screen
    BY DEF IsTerminal
  <1>4. NewLine(t).screen = t.screen /\ IsTerminal(NewLine(t))
    BY <1>1, NewLineIs DEF NewLine, InFront
  <1>5. NewLines(t, n).screen = t.screen
    <2> DEFINE u == NewLine(t)
    <2>1. \A y : [u EXCEPT !.row = y].screen = u.screen
      <3> HIDE DEF u
      <3>1. IsTerminal(u)
        BY <1>4 DEF u
      <3> QED BY <3>1 DEF IsTerminal
    <2> QED BY <1>4, <2>1 DEF NewLines
  <1>6. Forward(t, n).screen = t.screen /\ FromRight(t, n).screen = t.screen
        /\ Forward(t, n).column = Least(t.column + n, Columns - 1)
        /\ FromRight(t, n).column = Minus(Columns - 1, Most({n, 1}))
    BY <1>2, Zenon DEF Forward, FromRight
  <1>7. UpBy(t, n).screen = t.screen
    BY <1>3, Zenon DEF UpBy
  <1>8. MoveTo(t, row, column).screen = t.screen
    BY <1>1, Zenon DEF MoveTo
  <1> QED BY <1>4, <1>5, <1>6, <1>7, <1>8

LEMMA MoveToKeeps ==
  ASSUME NEW t, IsTerminal(t), NEW row, NEW column
  PROVE  MoveTo(t, row, column).screen = t.screen
  <1>1. \A y, x : [t EXCEPT !.row = y, !.column = x].screen = t.screen
    BY DEF IsTerminal
  <1> QED BY <1>1, Zenon DEF MoveTo

(* Lines, one below the other.                                                  *)
ArePut(t, column, texts, u) ==
  \A r \in 0..Rows - 1 :
    /\ r - t.row + 1 \notin 1..Len(texts) => u.screen[r] = t.screen[r]
    /\ r - t.row + 1 \in 1..Len(texts) =>
         \A c \in 1..Columns :
           u.screen[r][c] = IF c - column \in 1..Len(texts[r - t.row + 1])
                            THEN texts[r - t.row + 1][c - column] ELSE t.screen[r][c]
LEMMA PutLinesAre ==
  ASSUME NEW t, IsTerminal(t), NEW column \in Int, NEW texts, Listed(texts),
         \A i \in 1..Len(texts) : Listed(texts[i])
  PROVE  ArePut(t, column, texts, PutLines(t, column, texts))
  <1> DEFINE s == [r \in 0..Rows - 1 |-> IF r - t.row + 1 \in DOMAIN texts
                                         THEN With(t.screen[r], column, texts[r - t.row + 1])
                                         ELSE t.screen[r]]
             y == Least(t.row + Len(texts), Rows - 1)
             x == IF texts = <<>> THEN t.column ELSE 0
  <1>1. PutLines(t, column, texts) = [t EXCEPT !.screen = s, !.row = y, !.column = x]
    BY DEF PutLines
  <1>2. DOMAIN texts = 1..Len(texts)
    BY DEF Listed
  <1>3. \A r \in 0..Rows - 1 :
          /\ r - t.row + 1 \notin 1..Len(texts) => s[r] = t.screen[r]
          /\ r - t.row + 1 \in 1..Len(texts) => s[r] = With(t.screen[r], column, texts[r - t.row + 1])
    BY <1>2
  <1> HIDE DEF s, y, x
  <1>4. PutLines(t, column, texts).screen = s
    BY <1>1 DEF IsTerminal
  <1>5. \A r \in 0..Rows - 1 : r - t.row + 1 \in 1..Len(texts) =>
          \A c \in 1..Columns :
            With(t.screen[r], column, texts[r - t.row + 1])[c] =
              IF c - column \in 1..Len(texts[r - t.row + 1])
              THEN texts[r - t.row + 1][c - column] ELSE t.screen[r][c]
    BY WithIs
  <1> QED BY <1>3, <1>4, <1>5 DEF ArePut

(* What is held leaves the screen, but for the space of an iTerm image.         *)
LEMMA FlushedScreen ==
  ASSUME Screened, buffered \in Pending
  PROVE  /\ buffered # <<"space", "home">> => Flushed.screen = screen
         /\ buffered = <<"space", "home">> => Flushed.screen = Put(Terminal, <<Blank>>).screen
  <1>1. IsTerminal(Terminal) /\ Terminal.screen = screen
    BY TerminalIs DEF Terminal
  <1>2. CASE buffered = <<>>
    <2>1. Flushed = Terminal
      BY <1>2, FlushedIs
    <2> QED BY <1>1, <1>2, <2>1
  <1>3. CASE buffered = <<"home">>
    <2> DEFINE moves == <<"home">>
    <2>1. Len(moves) = 1 /\ moves[1] = "home" /\ moves # <<"space", "home">> /\ Len(moves) \in Nat
      <3>1. Len(<<"space", "home">>) = 2 /\ Len(<<"home">>) = 1
        OBVIOUS
      <3> QED BY <3>1
    <2>2. Flushed = Applied(moves)
      BY <1>3 DEF Flushed
    <2>8. buffered # <<"space", "home">>
      BY <1>3, <2>1
    <2> HIDE DEF moves
    <2>3. PICK after : /\ after[0] = Terminal /\ Applied(moves) = after[Len(moves)]
                       /\ \A k \in 1..Len(moves) : after[k] = Apply(after[k - 1], moves[k])
      BY <2>1, AppliedIs
    <2>4. 1 \in 1..1 /\ 1 - 1 = 0
      OBVIOUS
    <2>5. Flushed = Apply(Terminal, "home")
      BY <2>1, <2>2, <2>3, <2>4
    <2>6. Apply(Terminal, "home") = MoveTo(Terminal, 0, 0)
      BY DEF Apply
    <2>7. MoveTo(Terminal, 0, 0).screen = Terminal.screen
      BY <1>1, MoveToKeeps, Zenon
    <2> QED BY <1>1, <2>5, <2>6, <2>7, <2>8
  <1>4. CASE buffered = <<"space", "home">>
    <2> DEFINE moves == <<"space", "home">>
    <2>1. Len(moves) = 2 /\ moves[1] = "space" /\ moves[2] = "home" /\ Len(moves) \in Nat
      OBVIOUS
    <2>2. Flushed = Applied(moves)
      BY <1>4 DEF Flushed
    <2> HIDE DEF moves
    <2>3. PICK after : /\ after[0] = Terminal /\ Applied(moves) = after[Len(moves)]
                       /\ \A k \in 1..Len(moves) : after[k] = Apply(after[k - 1], moves[k])
      BY <2>1, AppliedIs
    <2>4. 1 \in 1..2 /\ 1 - 1 = 0 /\ 2 \in 1..2 /\ 2 - 1 = 1
      OBVIOUS
    <2> DEFINE mid == Apply(Terminal, "space")
    <2>5. Flushed = Apply(mid, "home")
      BY <2>1, <2>2, <2>3, <2>4
    <2>6. mid = Put(Terminal, <<Blank>>)
      BY DEF Apply
    <2> HIDE DEF mid
    <2>7. Apply(mid, "home") = MoveTo(mid, 0, 0)
      BY DEF Apply
    <2>8. IsTerminal(mid)
      BY <1>1, <2>6, PutStays DEF Stays
    <2>9. MoveTo(mid, 0, 0).screen = mid.screen
      BY <2>8, MoveToKeeps, Zenon
    <2> QED BY <1>4, <2>5, <2>6, <2>7, <2>9
  <1> QED BY <1>2, <1>3, <1>4 DEF Pending

(* A logo on a screen, at a row and a column, and what was not written over it. *)
LogoAt(s, y, x, lines, n) ==
  \A i \in 1..Len(lines) : \A j \in 1..lines[i] : s[y + i - 1][x + j] = <<"logo", n, i>>
Unsoiled(s, u) == \A c \in 1..Columns : u[0][c] = Shell => s[0][c] = Shell

LEMMA CellKinds == /\ \A n, i : <<"logo", n, i>> # Shell /\ <<"key", n, i>> # Shell
                   /\ Blank # Shell
  BY DEF Shell, Blank

(* An image on the screen.                                                      *)
Depicted(o, t, u) ==
  /\ IsTerminal(u) /\ u.row = t.row + Len(o.lines) - 1 /\ u.column = t.column + o.lines[Len(o.lines)]
  /\ LogoAt(u.screen, t.row, t.column, o.lines, round)
  /\ \A r \in 0..Rows - 1 : r < t.row => u.screen[r] = t.screen[r]
  /\ Unsoiled(t.screen, u.screen)
LEMMA ImageCells ==
  ASSUME NEW o, o.lines \in Seq(Nat), Len(o.lines) \in Nat, NEW t, IsTerminal(t), t.row \in Nat, t.column \in Nat,
         t.row + Len(o.lines) <= Rows, \A i \in 1..Len(o.lines) : t.column + o.lines[i] <= Columns
  PROVE  Depicted(o, t, Image(o, t))
  <1> DEFINE lines == o.lines
             last == Len(lines)
             texts == [i \in 1..last |-> Cells(lines[i], LogoCell(i))]
             put == PutLines(t, t.column, texts)
             y == t.row
             x == t.column
             R == Rows
             C == Columns
             S == put.screen
  <1>1. Image(o, t) = MoveTo(put, y + last - 1, x + lines[last])
    BY DEF Image
  <1>2. R \in Nat /\ C \in Nat /\ R > 0 /\ y \in Nat /\ x \in Nat /\ last \in Nat
    BY LogoAssumption
  <1>3. \A i \in 1..last : lines[i] \in Nat /\ x + lines[i] <= C
    OBVIOUS
  <1>4. \A i \in 1..last : /\ texts[i] = Cells(lines[i], LogoCell(i)) /\ Listed(texts[i])
                           /\ Len(texts[i]) = lines[i]
                           /\ \A j \in 1..lines[i] : texts[i][j] = LogoCell(i)
    <2> SUFFICES ASSUME NEW i \in 1..last
                 PROVE  /\ texts[i] = Cells(lines[i], LogoCell(i)) /\ Listed(texts[i]) /\ Len(texts[i]) = lines[i]
                        /\ \A j \in 1..lines[i] : texts[i][j] = LogoCell(i)
      OBVIOUS
    <2>1. texts[i] = Cells(lines[i], LogoCell(i))
      OBVIOUS
    <2>2. lines[i] \in Nat
      BY <1>3
    <2> HIDE DEF texts, lines
    <2> QED BY <2>1, <2>2, CellsAre
  <1>5. Listed(texts) /\ Len(texts) = last
    <2>1. texts = [i \in 1..last |-> texts[i]]
      OBVIOUS
    <2> HIDE DEF texts, lines
    <2> QED BY <1>2, <2>1, ListedIs, Zenon
  <1> HIDE DEF texts, lines
  <1>6. ArePut(t, x, texts, put)
    <2>1. \A i \in 1..Len(texts) : Listed(texts[i])
      BY <1>4, <1>5
    <2>2. x \in Int
      BY <1>2
    <2> HIDE DEF last, x
    <2> QED BY <1>5, <2>1, <2>2, PutLinesAre DEF x
  <1>7. IsTerminal(put)
    BY PutLinesIs
  <1> HIDE DEF put
  <1>8. IsTerminal(Image(o, t)) /\ Image(o, t).row = y + last - 1 /\ Image(o, t).column = x + lines[last]
        /\ Image(o, t).screen = S
    BY <1>1, <1>7, MoveToIs, MoveToKeeps
  <1>9. \A r \in 0..R - 1 : r < y => S[r] = t.screen[r]
    <2> SUFFICES ASSUME NEW r \in 0..R - 1, r < y PROVE S[r] = t.screen[r]
      OBVIOUS
    <2>1. r - y + 1 \notin 1..Len(texts)
      <3> HIDE DEF y, R, last
      <3> QED BY <1>2, <1>5
    <2> QED BY <1>6, <2>1 DEF ArePut
  <1>10. \A r \in 0..R - 1 : r - y + 1 \in 1..last =>
            \A c \in 1..C : S[r][c] = IF c - x \in 1..lines[r - y + 1] THEN LogoCell(r - y + 1) ELSE t.screen[r][c]
    <2> SUFFICES ASSUME NEW r \in 0..R - 1, r - y + 1 \in 1..last, NEW c \in 1..C
                 PROVE  S[r][c] = IF c - x \in 1..lines[r - y + 1] THEN LogoCell(r - y + 1) ELSE t.screen[r][c]
      OBVIOUS
    <2> DEFINE i == r - y + 1
    <2>1. i \in 1..last
      OBVIOUS
    <2>2. S[r][c] = IF c - x \in 1..Len(texts[i]) THEN texts[i][c - x] ELSE t.screen[r][c]
      BY <1>5, <1>6 DEF ArePut
    <2> HIDE DEF i, x, S, C, R, last
    <2>3. S[r][c] = IF c - x \in 1..lines[i] THEN LogoCell(i) ELSE t.screen[r][c]
      BY <1>4, <2>1, <2>2
    <2> QED BY <2>3 DEF i
  <1>11. LogoAt(S, y, x, lines, round)
    <2> SUFFICES ASSUME NEW i \in 1..last, NEW j \in 1..lines[i]
                 PROVE  S[y + i - 1][x + j] = <<"logo", round, i>>
      BY Zenon DEF LogoAt
    <2> DEFINE r == y + i - 1
               c == x + j
               w == lines[i]
    <2>1. w \in Nat /\ x + w <= C /\ j \in 1..w
      BY <1>3
    <2>2. y + last <= R
      BY DEF lines
    <2> HIDE DEF w, y, x, last, R, C, S
    <2>3. r \in 0..R - 1 /\ r - y + 1 = i /\ c \in 1..C /\ c - x = j
      BY <1>2, <2>1, <2>2
    <2> HIDE DEF r, c
    <2>4. S[r][c] = LogoCell(i)
      BY <1>10, <2>1, <2>3 DEF w
    <2> QED BY <2>4 DEF LogoCell, r, c
  <1>12. Unsoiled(t.screen, S)
    <2> SUFFICES ASSUME NEW c \in 1..C, S[0][c] = Shell PROVE t.screen[0][c] = Shell
      BY DEF Unsoiled
    <2>1. 0 \in 0..R - 1
      <3> HIDE DEF R
      <3> QED BY <1>2
    <2>2. CASE 0 - y + 1 \in 1..last
      <3>1. S[0][c] = LogoCell(0 - y + 1) \/ S[0][c] = t.screen[0][c]
        BY <1>10, <2>1, <2>2
      <3> QED BY <3>1, CellKinds DEF LogoCell
    <2>3. CASE 0 - y + 1 \notin 1..last
      BY <1>5, <1>6, <2>1, <2>3 DEF ArePut
    <2> QED BY <2>2, <2>3
  <1> QED BY <1>8, <1>9, <1>11, <1>12 DEF Depicted, lines

(* A line of the cache.                                                         *)
Pad(o) == IF o.position = "right" THEN 0 ELSE o.left
IsText(o, i, text) ==
  /\ Listed(text)
  /\ i \notin 1..Len(o.lines) => Len(text) = 0
  /\ i \in 1..Len(o.lines) =>
       Len(text) = Pad(o) + o.lines[i] /\ \A j \in 1..o.lines[i] : text[Pad(o) + j] = <<"logo", round, i>>
  /\ \A c \in 1..Len(text) : text[c] # Shell
LEMMA TextIs ==
  ASSUME NEW o, Fits(o), NEW m \in 1..Height(o) + 1
  PROVE  IsText(o, m - o.top, Lines(o)[m])
  <1> DEFINE i == m - o.top
             text == Lines(o)[m]
             w == o.lines[i]
  <1>1. text = IF i \in 1..Len(o.lines) THEN LogoText(o, i) ELSE <<>>
    BY DEF Lines
  <1>2. CASE i \notin 1..Len(o.lines)
    <2>1. text = <<>>
      BY <1>1, <1>2
    <2> HIDE DEF text, i
    <2>2. Listed(text) /\ Len(text) = 0
      BY <2>1, EmptyIs
    <2>3. 1..Len(text) = {}
      BY <2>2
    <2> QED BY <1>2, <2>2, <2>3 DEF IsText, i, text
  <1>3. CASE i \in 1..Len(o.lines) /\ o.position = "right"
    <2>1. w \in Nat /\ text = Cells(w, LogoCell(i)) /\ Pad(o) = 0
      BY <1>1, <1>3, FitsFields DEF LogoText, Pad
    <2> HIDE DEF text
    <2>2. Listed(text) /\ Len(text) = w /\ \A j \in 1..w : text[j] = LogoCell(i)
      BY <2>1, CellsAre
    <2>3. \A j \in 1..w : 0 + j = j
      BY <2>1
    <2>4. Len(text) = Pad(o) + w /\ \A j \in 1..w : text[Pad(o) + j] = <<"logo", round, i>>
      BY <2>1, <2>2, <2>3 DEF LogoCell
    <2>5. \A c \in 1..Len(text) : text[c] # Shell
      BY <2>2, CellKinds DEF LogoCell
    <2> HIDE DEF i
    <2> QED BY <1>3, <2>2, <2>4, <2>5 DEF IsText, i, text
  <1>4. CASE i \in 1..Len(o.lines) /\ o.position # "right"
    <2> DEFINE p == o.left
               a == Cells(p, Blank)
               b == Cells(w, LogoCell(i))
    <2>1. w \in Nat /\ p \in Nat /\ text = a \o b /\ Pad(o) = p
      BY <1>1, <1>4, FitsFields DEF LogoText, Pad
    <2> HIDE DEF text
    <2>2. Listed(a) /\ Len(a) = p /\ \A j \in 1..p : a[j] = Blank
      BY <2>1, CellsAre
    <2>3. Listed(b) /\ Len(b) = w /\ \A j \in 1..w : b[j] = LogoCell(i)
      BY <2>1, CellsAre
    <2> HIDE DEF a, b
    <2>4. Joined(a, b, text)
      BY <2>1, <2>2, <2>3, JoinedIs
    <2>5. Listed(text) /\ Len(text) = p + w
      BY <2>2, <2>3, <2>4 DEF Joined
    <2>6. \A j \in 1..p : text[j] = Blank
      BY <2>2, <2>4 DEF Joined
    <2>7. \A j \in 1..w : text[p + j] = LogoCell(i)
      BY <2>2, <2>3, <2>4 DEF Joined
    <2>8. \A c \in 1..Len(text) : text[c] # Shell
      <3> SUFFICES ASSUME NEW c \in 1..Len(text) PROVE text[c] # Shell
        OBVIOUS
      <3>1. CASE c <= p
        <4>1. c \in 1..p
          BY <2>1, <2>5, <3>1
        <4> QED BY <2>6, <4>1, CellKinds
      <3>2. CASE ~(c <= p)
        <4> DEFINE j == c - p
        <4>1. j \in 1..w /\ p + j = c
          BY <2>1, <2>5, <3>2
        <4> HIDE DEF j
        <4> QED BY <2>7, <4>1, CellKinds DEF LogoCell
      <3> QED BY <3>1, <3>2
    <2>9. \A j \in 1..w : text[Pad(o) + j] = <<"logo", round, i>>
      BY <2>1, <2>7 DEF LogoCell
    <2> HIDE DEF i
    <2> QED BY <1>4, <2>1, <2>5, <2>8, <2>9 DEF IsText, i, text
  <1> QED BY <1>2, <1>3, <1>4

(* The invariant. Where the logo is: beside the keys, which begin behind it or, *)
(* with a logo on the right, end before it, ...                                 *)
LogoOn(s) == LogoAt(s, origin[1], origin[2], options.lines, drawn)
Unseen(n) == drawn = 0 \/ HeightForgotten \/ (Static /\ options.position = "top" /\ n > 1)
StartAt(o, w) ==
  /\ w \in Nat /\ \A k \in KeyWidths \union {1} : w + k < Columns
  /\ o.position # "left" => w = 0
KeysStart == StartAt(options, logoWidth)
AsideAt(o, y, x, w, h) ==
  /\ x \in Nat /\ y + Len(o.lines) <= Rows /\ o.position \in {"left", "right", "top"}
  /\ \A i \in 1..Len(o.lines) : x + o.lines[i] <= Columns /\ (o.position = "left" => x + o.lines[i] <= w)
  /\ o.position = "right" => \A k \in KeyWidths : k <= x
  /\ o.watch /\ o.position # "top" => y + Len(o.lines) <= h + 1
Aside == AsideAt(options, origin[1], origin[2], logoWidth, logoHeight)
(* ... or above them, but for the first key of some.                            *)
Above(row) ==
  options.position = "top" =>
    \/ origin[1] + Len(options.lines) <= row
    \/ /\ InLastRow /\ origin[1] + Len(options.lines) = row + 1 /\ Len(options.lines) > 0
       /\ shown = <<>> => buffered = <<>> /\ cursor[2] = origin[2] + options.lines[Len(options.lines)]

(* Each key of the round is there, ...                                          *)
KeyAt(s, i, row, column, width) ==
  /\ column \in Nat /\ width \in Nat /\ column + width <= Columns
  /\ column = logoWidth \/ (InLastRow /\ i = 1)
  /\ \A c \in 1..width : s[row][column + c] = <<"key", round, i>>
  /\ options.watch /\ options.position = "left" => \A c \in column + width + 1..Columns : s[row][c] = Blank
KeysOn(s) == \A i \in 1..Len(shown) : KeyAt(s, i, shown[i][1], shown[i][2], shown[i][3])

(* ... what the shell had written is there or gone, ...                         *)
NoShell(s) == \A c \in 1..Columns : s[0][c] # Shell
AllShell(s) == \A c \in 1..Columns : s[0][c] = Shell
ShellOn(s, row) == options.watch \/ OneRow \/ NoShell(s) \/ (AllShell(s) /\ row >= 1)

(* ... and so are the lines of the cache that were printed.                     *)
OriginOf(o, offset) == IF o.position = "right" THEN Minus(Columns - 1, Most({offset, 1})) ELSE o.left
Cached ==
  /\ options.position \in {"left", "right"}
  /\ cache = Lines(options) /\ drawn = round /\ origin[1] = Top + options.top
  /\ origin[2] = OriginOf(options, rightOffset)
CachedOn(s, n) ==
  \A i \in 1..Len(options.lines) : i + options.top <= n =>
    \A j \in 1..options.lines[i] : s[origin[1] + i - 1][origin[2] + j] = <<"logo", drawn, i>>

(* The next key begins at the start of a line, but for the first one of some, ...*)
Place ==
  \/ buffered # <<>> \/ cursor[2] = 0
  \/ /\ InLastRow /\ shown = <<>> /\ cache = <<>>
     /\ cursor[2] \in Nat /\ \A k \in KeyWidths : cursor[2] + k <= Columns
(* ... and the space that is held goes behind the image.                        *)
Spaced ==
  buffered = <<"space", "home">> =>
    /\ NoShell(screen) /\ Len(options.lines) > 0 /\ cursor[1] = origin[1] + Len(options.lines) - 1
    /\ cursor[2] \in Nat /\ cursor[2] >= origin[2] + options.lines[Len(options.lines)]

Shown(s) ==
  IF cache # <<>> THEN Aside /\ Cached /\ CachedOn(s, nextLine)
  ELSE Unseen(round) \/ (Aside /\ Above(Top) /\ LogoOn(s))
KeysCells == KeysStart /\ KeysOn(screen) /\ ShellOn(screen, Top) /\ Place /\ Spaced /\ Shown(screen)
CellsAtKeys == at \in {"keys", "asking"} /\ excuse = "none" => KeysCells
CellsAtSleep ==
  at = "asleep" /\ excuse = "none" =>
    KeysStart /\ (drawn = 0 \/ HeightForgotten \/ options.position = "top" \/ (Aside /\ LogoOn(screen)))
CellsAtLogo == at \in {"logo", "measuring", "unmeasured"} /\ ~options.watch => AllShell(screen)
CellsAtCursor ==
  at = "cursor" =>
    /\ options.type \in Sent /\ options.position \in {"left", "right"} /\ drawn = round
    /\ NoShell(screen) /\ LogoOn(screen) /\ Len(options.lines) > 0
    /\ origin[2] \in Nat /\ cursor[2] = origin[2] + options.lines[Len(options.lines)]
    /\ options.position = "left" => \A k \in KeyWidths \union {1} : cursor[2] + options.right + k < Columns
    /\ options.position = "right" => cursor[2] <= Columns /\ \A k \in KeyWidths : k <= origin[2]
CellsInv == Alive => CellsAtKeys /\ CellsAtSleep /\ CellsAtLogo /\ CellsAtCursor

(* What stdio holds changes nothing of this.                                    *)
Ready(t) ==
  /\ buffered = <<>> => t.column = cursor[2]
  /\ \/ t.column = 0
     \/ /\ InLastRow /\ shown = <<>> /\ cache = <<>>
        /\ t.column \in Nat /\ \A k \in KeyWidths : t.column + k <= Columns
LEMMA FlushedCells ==
  ASSUME Screen, Printing, KeysCells
  PROVE  /\ KeysOn(Flushed.screen) /\ ShellOn(Flushed.screen, Top) /\ Shown(Flushed.screen)
         /\ Ready(Flushed)
  <1> DEFINE t == Flushed
             S == screen
             U == t.screen
  <1>1. Screened /\ buffered \in Pending /\ (buffered # <<>> => shown = <<>>)
    BY DEF Screen, Printing
  <1>2. Ready(t)
    <2>1. buffered # <<>> \/ cursor[2] = 0 => t.column = 0
      BY <1>1, FlushedHere
    <2>2. buffered = <<>> => t.column = cursor[2]
      BY <1>1, FlushedIs, TerminalIs
    <2> QED BY <2>1, <2>2, Zenon DEF KeysCells, Place, Ready
  <1>3. CASE buffered # <<"space", "home">>
    <2>1. U = S
      BY <1>1, <1>3, FlushedScreen
    <2> QED BY <1>2, <2>1 DEF KeysCells
  <1>4. CASE buffered = <<"space", "home">>
    <2> DEFINE y == cursor[1]
               x == cursor[2]
               l == Len(options.lines)
               oy == origin[1]
               ox == origin[2]
               R == Rows
               C == Columns
    <2>1. /\ y \in Nat /\ y < R /\ x \in Nat /\ R \in Nat /\ C \in Nat /\ l \in Nat /\ oy \in Nat
          /\ NoShell(S) /\ y = oy + l - 1 /\ x >= ox + options.lines[l]
      BY <1>4, FitsFields, LogoAssumption DEF KeysCells, Spaced, Screen
    <2>2. shown = <<>> /\ Len(shown) = 0
      <3>1. Len(<<"space", "home">>) = 2 /\ Len(<<>>) = 0
        OBVIOUS
      <3>2. shown = <<>>
        BY <1>1, <1>4, <3>1
      <3> QED BY <3>1, <3>2
    <2>3. Terminal.row = y /\ Terminal.column = x /\ IsTerminal(Terminal) /\ Terminal.screen = S
      BY <1>1, TerminalIs DEF Terminal
    <2> DEFINE text == <<Blank>>
               u == Put(Terminal, text)
    <2>4. Listed(text) /\ Len(text) = 1 /\ text[1] = Blank
      <3>1. Len(text) = 1 /\ text[1] = Blank /\ text = [i \in 1..1 |-> text[i]]
        OBVIOUS
      <3> HIDE DEF text
      <3> QED BY <3>1 DEF Listed
    <2> HIDE DEF text
    <2>5. IsPut(Terminal, text, u)
      <3>1. y \in 0..R - 1 /\ x \in Int
        <4> HIDE DEF y, R, x
        <4> QED BY <2>1
      <3> QED BY <2>3, <2>4, <3>1, PutIs
    <2>6. U = u.screen
      BY <1>1, <1>4, FlushedScreen DEF text
    <2> HIDE DEF u, t
    <2>7. \A r \in 0..R - 1 : r # y => U[r] = S[r]
      BY <2>3, <2>5, <2>6 DEF IsPut
    <2>8. \A c \in 1..C : U[y][c] = IF c - x \in 1..1 THEN Blank ELSE S[y][c]
      <3>1. \A c \in 1..C : U[y][c] = IF c - x \in 1..1 THEN text[c - x] ELSE S[y][c]
        BY <2>3, <2>4, <2>5, <2>6 DEF IsPut
      <3>2. \A d \in 1..1 : text[d] = Blank
        BY <2>4
      <3> HIDE DEF C, x, y
      <3> QED BY <3>1, <3>2
    <2> HIDE DEF y, x, S
    <2>9. NoShell(U)
      <3> SUFFICES ASSUME NEW c \in 1..C PROVE U[0][c] # Shell
        BY DEF NoShell
      <3>1. S[0][c] # Shell
        BY <2>1 DEF NoShell
      <3>2. 0 \in 0..R - 1
        <4> HIDE DEF R
        <4> QED BY <2>1
      <3>3. CASE y = 0
        <4>1. U[0][c] = Blank \/ U[0][c] = S[0][c]
          BY <2>8, <3>3
        <4> QED BY <3>1, <4>1, CellKinds
      <3>4. CASE y # 0
        BY <2>7, <3>1, <3>2, <3>4
      <3> QED BY <3>3, <3>4
    <2>10. KeysOn(U)
      BY <2>2 DEF KeysOn
    <2>11. CASE cache # <<>>
      <3>1. nextLine = 0
        <4>1. Len(cache) \in Nat /\ nextLine = Least(0, Len(cache))
          BY <2>2 DEF Printing, Listed
        <4> QED BY <4>1 DEF Least
      <3>2. \A i \in 1..l : ~(i + options.top <= 0)
        <4>1. options.top \in Nat
          BY FitsFields DEF Screen
        <4> QED BY <4>1
      <3>3. CachedOn(U, nextLine)
        BY <3>1, <3>2 DEF CachedOn
      <3> QED BY <1>2, <2>9, <2>10, <2>11, <3>3 DEF Shown, KeysCells, ShellOn, t
    <2>12. CASE cache = <<>>
      <3>1. CASE Unseen(round)
        BY <1>2, <2>9, <2>10, <2>12, <3>1 DEF Shown, ShellOn, t
      <3>2. CASE Aside /\ Above(Top) /\ LogoOn(S)
        <4>1. LogoOn(U)
          <5> SUFFICES ASSUME NEW i \in 1..l, NEW j \in 1..options.lines[i]
                       PROVE  U[oy + i - 1][ox + j] = <<"logo", drawn, i>>
            BY Zenon DEF LogoOn, LogoAt
          <5> DEFINE r == oy + i - 1
                     c == ox + j
                     w == options.lines[i]
          <5>1. S[r][c] = <<"logo", drawn, i>>
            BY <3>2 DEF LogoOn, LogoAt
          <5>2. ox \in Nat /\ w \in Nat /\ j \in 1..w /\ ox + w <= C
            BY <3>2, FitsFields DEF Screen, Aside, AsideAt
          <5>3. i = l => x >= ox + w
            BY <2>1
          <5> HIDE DEF oy, ox, l, R, C, w
          <5>4. r \in 0..R - 1 /\ c \in 1..C /\ (i # l => r # y) /\ (i = l => ~(c - x \in 1..1))
            BY <2>1, <5>2, <5>3
          <5> HIDE DEF r, c
          <5>5. r # y => U[r][c] = S[r][c]
            BY <2>7, <5>4
          <5>6. r = y => U[r][c] = S[r][c]
            BY <2>8, <5>4
          <5>7. U[r][c] = <<"logo", drawn, i>>
            BY <5>1, <5>5, <5>6
          <5> QED BY <5>7 DEF r, c
        <4> QED BY <1>2, <2>9, <2>10, <2>12, <3>2, <4>1 DEF Shown, ShellOn, t
      <3> QED BY <2>12, <3>1, <3>2 DEF KeysCells, Shown, S
    <2> QED BY <2>11, <2>12
  <1> QED BY <1>3, <1>4

(* The line of the logo that a key stands behind.                               *)
BegunAs(t, b) ==
  /\ IsTerminal(b) /\ b.row = t.row
  /\ \A r \in 0..Rows - 1 : r # t.row => b.screen[r] = t.screen[r]
  /\ Unsoiled(t.screen, b.screen)
  /\ b.column \in Nat /\ \A k \in KeyWidths : b.column + k <= Columns
  /\ b.column = logoWidth \/ (InLastRow /\ shown = <<>>)
  /\ cache = <<>> => b.screen = t.screen /\ (logoWidth = 0 => b.column = t.column)
LineOf(t, b) ==
  cache # <<>> /\ nextLine < Len(cache) =>
    \A i \in 1..Len(options.lines) : i + options.top = nextLine + 1 =>
      \A j \in 1..options.lines[i] : b.screen[t.row][origin[2] + j] = <<"logo", drawn, i>>

(* With an image, or past the end of the logo ...                               *)
LEMMA BegunPast ==
  ASSUME Screen, KeysStart, NEW t, IsTerminal(t), t.row \in 0..Rows - 1, Ready(t),
         cache # <<>> => Aside /\ Cached, cache = <<>> \/ ~(nextLine < Len(cache))
  PROVE  BegunAs(t, LineBegun(t)) /\ LineOf(t, LineBegun(t))
  <1> DEFINE b == LineBegun(t)
             w == logoWidth
             x == t.column
             C == Columns
             R == Rows
  <1>1. w \in Nat /\ C \in Nat /\ R \in Nat /\ KeyWidths \subseteq Nat /\ \A k \in KeyWidths \union {1} : w + k < C
    BY LogoAssumption DEF KeysStart, StartAt
  <1>2. options.position # "left" => w = 0
    BY DEF KeysStart, StartAt
  <1>3. x = 0 \/ (InLastRow /\ shown = <<>> /\ cache = <<>> /\ x \in Nat /\ \A k \in KeyWidths : x + k <= C)
    BY DEF Ready
  <1>4. LineOf(t, b)
    BY DEF LineOf
  <1>5. w + 1 < C /\ \A k \in KeyWidths : w + k < C
    BY <1>1
  <1>6. InLastRow => w = 0
    BY <1>2 DEF InLastRow
  <1>7. ASSUME b = t, w = 0 PROVE BegunAs(t, b)
    <2>1. \A k \in KeyWidths : x + k <= C
      <3> HIDE DEF x, C, w
      <3> QED BY <1>1, <1>3, <1>5, <1>7
    <2>2. x \in Nat /\ (x = w \/ (InLastRow /\ shown = <<>>))
      BY <1>3, <1>7
    <2>3. Unsoiled(t.screen, t.screen)
      BY DEF Unsoiled
    <2> HIDE DEF b
    <2> QED BY <1>7, <2>1, <2>2, <2>3 DEF BegunAs
  <1>8. CASE cache = <<>>
    <2>1. b = IF w > 0 THEN Forward(t, w) ELSE t
      BY <1>8 DEF LineBegun
    <2>2. CASE w > 0
      <3>1. b = Forward(t, w)
        BY <2>1, <2>2
      <3> HIDE DEF b
      <3>2. IsTerminal(b) /\ b.row = t.row /\ b.screen = t.screen /\ b.column = Least(x + w, C - 1)
        BY <3>1, ForwardStays, MovesKeep DEF Stays
      <3>3. ~InLastRow /\ x = 0
        BY <1>3, <1>6, <2>2
      <3> DEFINE bx == b.column
      <3>4. bx = Least(x + w, C - 1)
        BY <3>2
      <3> HIDE DEF bx, x, w, C
      <3>5. bx = w
        BY <1>1, <1>5, <3>3, <3>4 DEF Least
      <3>6. \A k \in KeyWidths : bx + k <= C
        BY <1>1, <1>5, <3>5
      <3>7. bx \in Nat
        BY <1>1, <3>5
      <3>8. Unsoiled(t.screen, b.screen)
        BY <3>2 DEF Unsoiled
      <3>9. w # 0
        <4> HIDE DEF w
        <4> QED BY <1>1, <2>2
      <3>10. BegunAs(t, b)
        BY <3>2, <3>5, <3>6, <3>7, <3>8, <3>9 DEF BegunAs, bx, w, C
      <3> QED BY <1>4, <3>10 DEF b
    <2>3. CASE ~(w > 0)
      <3>1. b = t
        BY <2>1, <2>3
      <3>2. w = 0
        <4> HIDE DEF w
        <4> QED BY <1>1, <2>3
      <3> QED BY <1>4, <1>7, <3>1, <3>2
    <2> QED BY <2>2, <2>3
  <1>9. CASE cache # <<>>
    <2>1. b = IF options.position = "left" THEN Put(t, Cells(w, Blank)) ELSE t
      BY <1>9 DEF LineBegun
    <2>2. CASE options.position = "left"
      <3> DEFINE text == Cells(w, Blank)
      <3>1. Listed(text) /\ Len(text) = w /\ \A i \in 1..w : text[i] = Blank
        BY <1>1, CellsAre
      <3>2. b = Put(t, text) /\ x = 0 /\ x \in Int
        BY <1>3, <1>9, <2>1, <2>2
      <3> HIDE DEF text, b
      <3>3. IsPut(t, text, b)
        <4> HIDE DEF x
        <4> QED BY <3>1, <3>2, PutIs DEF x
      <3> DEFINE bx == b.column
      <3>4. bx = Least(x + w, C - 1)
        BY <3>1, <3>3 DEF IsPut
      <3>5. \A c \in 1..C : b.screen[t.row][c] = Blank \/ b.screen[t.row][c] = t.screen[t.row][c]
        BY <3>1, <3>3 DEF IsPut
      <3>6. \A r \in 0..R - 1 : r # t.row => b.screen[r] = t.screen[r]
        BY <3>3 DEF IsPut
      <3>7. IsTerminal(b) /\ b.row = t.row
        BY <3>3 DEF IsPut
      <3> HIDE DEF bx, x, w, C, R
      <3>8. bx = w /\ bx \in Nat
        BY <1>1, <1>5, <3>2, <3>4 DEF Least
      <3>9. \A k \in KeyWidths : bx + k <= C
        BY <1>1, <1>5, <3>8
      <3>10. Unsoiled(t.screen, b.screen)
        <4>1. 0 \in 0..R - 1
          BY <1>1, LogoAssumption DEF R
        <4> QED BY <3>5, <3>6, <4>1, CellKinds DEF Unsoiled, C
      <3>11. BegunAs(t, b)
        BY <1>9, <3>6, <3>7, <3>8, <3>9, <3>10 DEF BegunAs, bx, w, C, R
      <3> QED BY <1>4, <3>11 DEF b
    <2>3. CASE options.position # "left"
      BY <1>2, <1>4, <1>7, <2>1, <2>3
    <2> QED BY <2>2, <2>3
  <1> QED BY <1>8, <1>9

(* ... no text is shown; else it is the text of the line, on the right ...      *)
LEMMA NextText ==
  ASSUME Screen, Cached, nextLine \in Nat, nextLine < Len(cache)
  PROVE  IsText(options, (nextLine + 1) - options.top, cache[nextLine + 1])
  <1> DEFINE n == nextLine
             h == Height(options)
             m == n + 1
  <1>1. h \in Nat /\ cache = Lines(options) /\ Len(Lines(options)) = h + 1 /\ n \in Nat /\ n < h + 1
    BY HeightIs, LinesAre DEF Screen, Cached
  <1>2. m \in 1..h + 1
    <2> HIDE DEF n, h
    <2> QED BY <1>1
  <1> HIDE DEF m
  <1>3. IsText(options, m - options.top, Lines(options)[m])
    BY <1>2, TextIs DEF Screen
  <1>4. cache[m] = Lines(options)[m]
    BY <1>1
  <1>5. IsText(options, m - options.top, cache[m])
    BY <1>3, <1>4
  <1> QED BY <1>5 DEF m

LEMMA BegunRight ==
  ASSUME Screen, KeysStart, NEW t, IsTerminal(t), t.row \in 0..Rows - 1, Aside, Cached,
         cache # <<>>, nextLine \in Nat, nextLine < Len(cache), options.position = "right"
  PROVE  BegunAs(t, LineBegun(t)) /\ LineOf(t, LineBegun(t))
  <1> DEFINE b == LineBegun(t)
             w == logoWidth
             x == origin[2]
             C == Columns
             R == Rows
             u == FromRight(t, rightOffset)
             text == cache[nextLine + 1]
             v == Put(u, text)
             tp == options.top
             n == nextLine
  <1>1. /\ w \in Nat /\ C \in Nat /\ R \in Nat /\ R > 0 /\ KeyWidths \subseteq Nat
        /\ \A k \in KeyWidths \union {1} : w + k < C
    BY LogoAssumption DEF KeysStart, StartAt
  <1>2. w = 0
    BY DEF KeysStart, StartAt
  <1>3. IsText(options, (n + 1) - tp, text)
    BY NextText
  <1>4. b = [v EXCEPT !.column = 0]
    BY DEF LineBegun
  <1>5. IsTerminal(u) /\ u.row = t.row /\ u.screen = t.screen /\ u.column = x /\ x \in Nat
    <2>1. IsTerminal(u) /\ u.row = t.row
      BY FromRightStays DEF Stays
    <2>2. u.screen = t.screen /\ u.column = Minus(C - 1, Most({rightOffset, 1}))
      BY MovesKeep
    <2>3. x = Minus(C - 1, Most({rightOffset, 1}))
      BY DEF Cached, OriginOf
    <2>4. x \in Nat
      BY DEF Aside, AsideAt
    <2> HIDE DEF u, x, C
    <2> QED BY <2>1, <2>2, <2>3, <2>4
  <1> HIDE DEF b, u, text
  <1>6. IsPut(u, text, v)
    <2>1. u.column \in Int /\ Listed(text)
      <3>1. Listed(text)
        BY <1>3 DEF IsText
      <3>2. x \in Int
        <4> HIDE DEF x
        <4> QED BY <1>5
      <3> QED BY <1>5, <3>1, <3>2
    <2> QED BY <1>5, <2>1, PutIs
  <1> HIDE DEF v
  <1>7. IsThis([v EXCEPT !.column = 0], v.screen, v.row, 0)
    <2>1. IsTerminal(v)
      BY <1>6 DEF IsPut
    <2> QED BY <2>1, Altered, Zenon
  <1>8. IsTerminal(b) /\ b.row = t.row /\ b.screen = v.screen /\ b.column = 0
    BY <1>4, <1>5, <1>6, <1>7 DEF IsThis, IsPut
  <1>9. \A r \in 0..R - 1 : r # t.row => b.screen[r] = t.screen[r]
    BY <1>5, <1>6, <1>8 DEF IsPut
  <1>10. \A c \in 1..C : b.screen[t.row][c] = IF c - x \in 1..Len(text) THEN text[c - x] ELSE t.screen[t.row][c]
    BY <1>5, <1>6, <1>8 DEF IsPut
  <1>11. \A c \in 1..C : b.screen[t.row][c] = Shell => t.screen[t.row][c] = Shell
    BY <1>3, <1>10 DEF IsText
  <1>12. Unsoiled(t.screen, b.screen)
    <2>1. 0 \in 0..R - 1
      <3> HIDE DEF R
      <3> QED BY <1>1
    <2> QED BY <1>9, <1>11, <2>1 DEF Unsoiled
  <1>13. BegunAs(t, b)
    <2>1. \A k \in KeyWidths : 0 + k <= C
      <3> HIDE DEF w, C
      <3> QED BY <1>1, <1>2
    <2>2. b.column \in Nat /\ b.column = w /\ \A k \in KeyWidths : b.column + k <= C
      BY <1>2, <1>8, <2>1
    <2> QED BY <1>8, <1>9, <1>12, <2>2 DEF BegunAs
  <1>14. LineOf(t, b)
    <2> SUFFICES ASSUME NEW i \in 1..Len(options.lines), i + tp = n + 1, NEW j \in 1..options.lines[i]
                 PROVE  b.screen[t.row][x + j] = <<"logo", drawn, i>>
      BY DEF LineOf
    <2> DEFINE lw == options.lines[i]
    <2>1. lw \in Nat /\ x + lw <= C /\ tp \in Nat /\ drawn = round
      <3>1. lw \in Nat /\ tp \in Nat
        <4>1. /\ options.lines \in Seq(Nat) /\ options.top \in Nat
          BY FitsFields DEF Screen
        <4> QED BY <4>1, WidthOfLine, Zenon
      <3>2. x + lw <= C
        BY DEF Aside, AsideAt
      <3> QED BY <3>1, <3>2 DEF Cached
    <2>2. (n + 1) - tp = i
      <3>1. n \in Nat /\ i \in Int
        OBVIOUS
      <3> HIDE DEF n, tp
      <3> QED BY <2>1, <3>1
    <2>3. IsText(options, i, text) /\ Pad(options) = 0
      BY <1>3, <2>2 DEF Pad
    <2>4. Len(text) = 0 + lw /\ \A d \in 1..lw : text[0 + d] = <<"logo", round, i>>
      BY <2>3 DEF IsText
    <2>5. text[j] = <<"logo", round, i>> /\ j \in 1..Len(text)
      BY <2>1, <2>4
    <2> DEFINE c == x + j
    <2> HIDE DEF x, C, lw
    <2>6. c \in 1..C /\ c - x = j
      BY <1>1, <1>5, <2>1 DEF lw
    <2> HIDE DEF c
    <2>7. b.screen[t.row][c] = <<"logo", drawn, i>>
      BY <1>10, <2>1, <2>5, <2>6
    <2> QED BY <2>7 DEF c, x
  <1> QED BY <1>13, <1>14 DEF b

(* ... or on the left, with what is missing up to the keys.                     *)
LEMMA BegunLeft ==
  ASSUME Screen, KeysStart, NEW t, IsTerminal(t), t.row \in 0..Rows - 1, Aside, Cached, Ready(t),
         cache # <<>>, nextLine \in Nat, nextLine < Len(cache), options.position = "left"
  PROVE  BegunAs(t, LineBegun(t)) /\ LineOf(t, LineBegun(t))
  <1> DEFINE b == LineBegun(t)
             w == logoWidth
             x == origin[2]
             C == Columns
             R == Rows
             text == cache[nextLine + 1]
             blanks == Cells(Minus(w, Len(text)), Blank)
             both == text \o blanks
             tp == options.top
             n == nextLine
             l == Len(text)
             d == Minus(w, l)
  <1>1. /\ w \in Nat /\ C \in Nat /\ R \in Nat /\ R > 0 /\ KeyWidths \subseteq Nat
        /\ \A k \in KeyWidths \union {1} : w + k < C
    BY LogoAssumption DEF KeysStart, StartAt
  <1>2. x = options.left /\ x \in Nat /\ tp \in Nat /\ drawn = round /\ Pad(options) = x
    BY FitsFields DEF Screen, Cached, OriginOf, Aside, AsideAt, Pad
  <1>3. IsText(options, (n + 1) - tp, text)
    BY NextText
  <1>4. b = Put(t, both)
    BY DEF LineBegun
  <1>5. t.column = 0 /\ t.column \in Int
    BY DEF Ready
  <1> HIDE DEF b, text
  <1>6. Listed(text) /\ l \in Nat
    BY <1>3 DEF IsText, Listed
  <1>7. l <= w
    <2>1. CASE (n + 1) - tp \notin 1..Len(options.lines)
      <3>1. l = 0
        BY <1>3, <2>1 DEF IsText
      <3> HIDE DEF l, w
      <3> QED BY <1>1, <3>1
    <2>2. CASE (n + 1) - tp \in 1..Len(options.lines)
      <3>1. l = x + options.lines[(n + 1) - tp]
        BY <1>2, <1>3, <2>2 DEF IsText
      <3>2. x + options.lines[(n + 1) - tp] <= w
        BY <2>2 DEF Aside, AsideAt
      <3> QED BY <3>1, <3>2
    <2> QED BY <2>1, <2>2
  <1>8. d \in Nat /\ l + d = w
    <2>1. d = Minus(w, l)
      OBVIOUS
    <2> HIDE DEF d, w, l
    <2> QED BY <1>1, <1>6, <1>7, <2>1 DEF Minus
  <1>9. Listed(blanks) /\ Len(blanks) = d /\ \A i \in 1..d : blanks[i] = Blank
    <2>1. blanks = Cells(d, Blank)
      OBVIOUS
    <2> HIDE DEF d, blanks
    <2> QED BY <1>8, <2>1, CellsAre
  <1> HIDE DEF blanks
  <1>10. Joined(text, blanks, both)
    BY <1>6, <1>9, JoinedIs
  <1> HIDE DEF both
  <1>11. Listed(both) /\ Len(both) = w
    BY <1>8, <1>9, <1>10 DEF Joined
  <1>12. \A i \in 1..w : both[i] # Shell
    <2> SUFFICES ASSUME NEW i \in 1..w PROVE both[i] # Shell
      OBVIOUS
    <2>1. CASE i <= l
      <3>1. i \in 1..l
        <4> HIDE DEF l, w
        <4> QED BY <1>1, <1>6, <2>1
      <3>2. both[i] = text[i]
        BY <1>10, <3>1 DEF Joined
      <3> QED BY <1>3, <3>1, <3>2 DEF IsText
    <2>2. CASE ~(i <= l)
      <3> DEFINE e == i - l
      <3>1. e \in 1..d /\ l + e = i
        <4> HIDE DEF l, w, d
        <4> QED BY <1>1, <1>6, <1>8, <2>2
      <3> HIDE DEF e
      <3>2. both[l + e] = blanks[e]
        BY <1>9, <1>10, <3>1 DEF Joined
      <3>3. both[i] = Blank
        BY <1>9, <3>1, <3>2
      <3> QED BY <3>3, CellKinds
    <2> QED BY <2>1, <2>2
  <1>13. IsPut(t, both, b)
    BY <1>4, <1>5, <1>11, PutIs
  <1>14. IsTerminal(b) /\ b.row = t.row
    BY <1>13 DEF IsPut
  <1>15. \A r \in 0..R - 1 : r # t.row => b.screen[r] = t.screen[r]
    BY <1>13 DEF IsPut
  <1>16. \A c \in 1..C : b.screen[t.row][c] = IF c \in 1..w THEN both[c] ELSE t.screen[t.row][c]
    <2>1. \A c \in 1..C : b.screen[t.row][c] = IF c - 0 \in 1..w THEN both[c - 0] ELSE t.screen[t.row][c]
      BY <1>5, <1>11, <1>13 DEF IsPut
    <2>2. \A c \in 1..C : c - 0 = c
      <3> HIDE DEF C
      <3> QED BY <1>1
    <2> HIDE DEF w, C
    <2> QED BY <2>1, <2>2
  <1>17. Unsoiled(t.screen, b.screen)
    <2>1. 0 \in 0..R - 1
      <3> HIDE DEF R
      <3> QED BY <1>1
    <2>2. \A c \in 1..C : b.screen[t.row][c] = Shell => t.screen[t.row][c] = Shell
      BY <1>12, <1>16
    <2> QED BY <1>15, <2>1, <2>2 DEF Unsoiled
  <1>18. BegunAs(t, b)
    <2> DEFINE bx == b.column
    <2>1. bx = Least(0 + w, C - 1)
      BY <1>5, <1>11, <1>13 DEF IsPut
    <2>2. w + 1 < C /\ \A k \in KeyWidths : w + k < C
      BY <1>1
    <2> HIDE DEF w, C, bx
    <2>3. bx = w /\ bx \in Nat
      BY <1>1, <2>1, <2>2 DEF Least
    <2>4. \A k \in KeyWidths : bx + k <= C
      BY <1>1, <2>2, <2>3
    <2> QED BY <1>14, <1>15, <1>17, <2>3, <2>4 DEF BegunAs, w, C, bx
  <1>19. LineOf(t, b)
    <2> SUFFICES ASSUME NEW i \in 1..Len(options.lines), i + tp = n + 1, NEW j \in 1..options.lines[i]
                 PROVE  b.screen[t.row][x + j] = <<"logo", drawn, i>>
      BY DEF LineOf
    <2> DEFINE lw == options.lines[i]
               c == x + j
    <2>1. lw \in Nat /\ x + lw <= C
      <3>1. lw \in Nat
        BY FitsFields DEF Screen
      <3>2. x + lw <= C
        BY DEF Aside, AsideAt
      <3> QED BY <3>1, <3>2
    <2>2. (n + 1) - tp = i
      <3>1. n \in Nat /\ i \in Int
        OBVIOUS
      <3> HIDE DEF n, tp
      <3> QED BY <1>2, <3>1
    <2>3. l = x + lw /\ \A e \in 1..lw : text[x + e] = <<"logo", round, i>>
      <3>1. IsText(options, i, text)
        BY <1>3, <2>2
      <3> QED BY <1>2, <3>1 DEF IsText
    <2>4. text[c] = <<"logo", round, i>>
      BY <2>3
    <2>5. c \in 1..C /\ c \in 1..l /\ c \in 1..w
      <3>1. j \in 1..lw /\ l = x + lw
        BY <2>3
      <3> HIDE DEF x, C, lw, l, w
      <3>2. c \in 1..C /\ c \in 1..l
        BY <1>1, <1>2, <2>1, <3>1, Inside
      <3> HIDE DEF c
      <3>3. c \in 1..w
        BY <1>1, <1>6, <1>7, <3>2
      <3> QED BY <3>2, <3>3
    <2> HIDE DEF c
    <2>6. both[c] = text[c]
      BY <1>10, <2>5 DEF Joined
    <2>7. b.screen[t.row][c] = <<"logo", drawn, i>>
      BY <1>2, <1>16, <2>4, <2>5, <2>6
    <2> QED BY <2>7 DEF c
  <1> QED BY <1>18, <1>19 DEF b

(* So far for any line; ...                                                     *)
LEMMA BegunIs ==
  ASSUME Screen, KeysStart, nextLine \in Nat, NEW t, IsTerminal(t), t.row \in 0..Rows - 1, Ready(t),
         cache # <<>> => Aside /\ Cached
  PROVE  BegunAs(t, LineBegun(t)) /\ LineOf(t, LineBegun(t))
  <1>1. CASE cache = <<>> \/ ~(nextLine < Len(cache))
    BY <1>1, BegunPast
  <1>2. CASE cache # <<>> /\ nextLine < Len(cache)
    BY <1>2, BegunRight, BegunLeft DEF Cached
  <1> QED BY <1>1, <1>2

(* ... then comes the key.                                                      *)
Keyed(t, b, width, s) ==
  /\ \A r \in 0..Rows - 1 : r # t.row => s[r] = t.screen[r]
  /\ \A c \in 1..Columns : c <= b.column => s[t.row][c] = b.screen[t.row][c]
  /\ \A c \in 1..width : s[t.row][b.column + c] = KeyCell
  /\ options.watch /\ options.position = "left" => \A c \in b.column + width + 1..Columns : s[t.row][c] = Blank
  /\ ~(options.watch /\ options.position = "left") =>
        \A c \in b.column + width + 1..Columns : s[t.row][c] = b.screen[t.row][c]
  /\ Unsoiled(t.screen, s)
Tidied(b) == IF options.watch /\ options.position = "left" THEN ClearLine(b) ELSE b
LEMMA KeyedIs ==
  ASSUME NEW t, t.row \in 0..Rows - 1, NEW b, BegunAs(t, b), NEW width \in KeyWidths
  PROVE  Keyed(t, b, width, Put(Tidied(b), Cells(width, KeyCell)).screen)
  <1> DEFINE a == Tidied(b)
             text == Cells(width, KeyCell)
             u == Put(a, text)
             S == u.screen
             x == b.column
             y == t.row
             C == Columns
             R == Rows
             tidy == options.watch /\ options.position = "left"
  <1>1. x \in Nat /\ width \in Nat /\ x + width <= C /\ C \in Nat /\ R \in Nat /\ y \in 0..R - 1
    BY LogoAssumption DEF BegunAs
  <1>2. b.row = y /\ IsTerminal(b) /\ \A r \in 0..R - 1 : r # y => b.screen[r] = t.screen[r]
    BY DEF BegunAs
  <1>3. /\ IsTerminal(a) /\ a.row = y /\ a.column = x
        /\ \A r \in 0..R - 1 : r # y => a.screen[r] = b.screen[r]
        /\ \A c \in 1..C : a.screen[y][c] = IF tidy /\ ~(c <= x) THEN Blank ELSE b.screen[y][c]
    <2>1. CASE tidy
      <3>1. a = ClearLine(b)
        BY <2>1 DEF Tidied
      <3> HIDE DEF a
      <3>2. IsCleared(b, a)
        BY <1>1, <1>2, <3>1, ClearLineIs
      <3> QED BY <1>2, <2>1, <3>2 DEF IsCleared
    <2>2. CASE ~tidy
      <3>1. a = b
        BY <2>2 DEF Tidied
      <3> QED BY <1>2, <2>2, <3>1
    <2> QED BY <2>1, <2>2
  <1>4. Listed(text) /\ Len(text) = width /\ \A i \in 1..width : text[i] = KeyCell
    BY <1>1, CellsAre
  <1> HIDE DEF a, text, tidy
  <1>5. IsPut(a, text, u)
    <2>1. a.column \in Int
      BY <1>1, <1>3
    <2> QED BY <1>1, <1>3, <1>4, <2>1, PutIs
  <1> HIDE DEF u
  <1>6. \A c \in 1..C : S[y][c] = IF c - x \in 1..width THEN text[c - x] ELSE a.screen[y][c]
    BY <1>3, <1>4, <1>5 DEF IsPut
  <1>7. \A r \in 0..R - 1 : r # y => S[r] = t.screen[r]
    BY <1>2, <1>3, <1>5 DEF IsPut
  <1> HIDE DEF S
  <1>8. \A c \in 1..C : c <= x => S[y][c] = b.screen[y][c]
    <2> SUFFICES ASSUME NEW c \in 1..C, c <= x PROVE S[y][c] = b.screen[y][c]
      OBVIOUS
    <2>1. c - x \notin 1..width
      <3> HIDE DEF x, C
      <3> QED BY <1>1
    <2> QED BY <1>3, <1>6, <2>1
  <1>9. \A c \in 1..width : S[y][x + c] = KeyCell
    <2> SUFFICES ASSUME NEW c \in 1..width PROVE S[y][x + c] = KeyCell
      OBVIOUS
    <2> DEFINE d == x + c
    <2>1. d \in 1..C /\ d - x = c
      <3> HIDE DEF x, C
      <3> QED BY <1>1, Inside
    <2> HIDE DEF d
    <2>2. S[y][d] = KeyCell
      BY <1>4, <1>6, <2>1
    <2> QED BY <2>2 DEF d
  <1>10. \A c \in x + width + 1..C : S[y][c] = IF tidy THEN Blank ELSE b.screen[y][c]
    <2> SUFFICES ASSUME NEW c \in x + width + 1..C PROVE S[y][c] = IF tidy THEN Blank ELSE b.screen[y][c]
      OBVIOUS
    <2>1. c \in 1..C /\ c - x \notin 1..width /\ ~(c <= x)
      <3> HIDE DEF x, C
      <3> QED BY <1>1
    <2> QED BY <1>3, <1>6, <2>1
  <1>11. Unsoiled(t.screen, S)
    <2> SUFFICES ASSUME NEW c \in 1..C, S[0][c] = Shell PROVE t.screen[0][c] = Shell
      BY DEF Unsoiled
    <2>1. 0 \in 0..R - 1
      <3> HIDE DEF y, R
      <3> QED BY <1>1
    <2>2. CASE 0 # y
      BY <1>7, <2>1, <2>2
    <2>3. CASE 0 = y
      <3>1. S[0][c] \in {KeyCell, Blank, b.screen[0][c]}
        BY <1>3, <1>4, <1>6, <2>3
      <3>2. b.screen[0][c] = Shell
        BY <3>1, CellKinds DEF KeyCell
      <3> QED BY <3>2 DEF BegunAs, Unsoiled
    <2> QED BY <2>2, <2>3
  <1> QED BY <1>7, <1>8, <1>9, <1>10, <1>11 DEF Keyed, S, u, a, text, tidy

(* It is not written over an image, ...                                         *)
LEMMA LogoKept ==
  ASSUME Screen, KeysStart, cache = <<>>, Listed(shown), Top \in Nat, Here = Top + Len(shown),
         NEW t, t.row = Here, Here \in 0..Rows - 1, Ready(t), NEW b, BegunAs(t, b),
         NEW width \in KeyWidths, NEW s, Keyed(t, b, width, s), Aside, Above(Top), LogoOn(t.screen)
  PROVE  LogoOn(s)
  <1> DEFINE l == Len(options.lines)
             oy == origin[1]
             ox == origin[2]
             R == Rows
             C == Columns
             w == logoWidth
             H == Here
             T == Top
             m == Len(shown)
             bx == b.column
  <1>1. /\ l \in Nat /\ oy \in Nat /\ ox \in Nat /\ R \in Nat /\ C \in Nat /\ w \in Nat /\ H \in Nat
        /\ T \in Nat /\ m \in Nat /\ width \in Nat /\ bx \in Nat /\ H = T + m /\ oy + l <= R
    <2>1. Len(options.lines) \in Nat /\ origin[1] \in Nat
      BY FitsFields DEF Screen
    <2>2. origin[2] \in Nat /\ origin[1] + Len(options.lines) <= Rows /\ logoWidth \in Nat
      BY DEF Aside, AsideAt, KeysStart, StartAt
    <2>3. Rows \in Nat /\ Columns \in Nat /\ width \in Nat
      BY LogoAssumption
    <2>4. b.column \in Nat
      BY DEF BegunAs
    <2> HIDE DEF H, T
    <2> QED BY <2>1, <2>2, <2>3, <2>4 DEF Listed, H, T
  <1>2. options.position \in {"left", "right", "top"}
    BY DEF Aside, AsideAt
  <1> SUFFICES ASSUME NEW i \in 1..l, NEW j \in 1..options.lines[i]
               PROVE  s[oy + i - 1][ox + j] = <<"logo", drawn, i>>
    BY Zenon DEF LogoOn, LogoAt
  <1> DEFINE r == oy + i - 1
             c == ox + j
             lw == options.lines[i]
  <1>3. t.screen[r][c] = <<"logo", drawn, i>>
    BY DEF LogoOn, LogoAt
  <1>4. lw \in Nat /\ j \in 1..lw
    BY FitsFields DEF Screen
  <1>5. ox + lw <= C /\ (options.position = "left" => ox + lw <= w)
    BY DEF Aside, AsideAt
  <1>6. r \in 0..R - 1 /\ c \in 1..C /\ c <= ox + lw /\ ox < c
    <2>0. i \in 1..l
      OBVIOUS
    <2> HIDE DEF l, oy, ox, R, C, w, H, T, m, bx, lw
    <2> QED BY <1>1, <1>4, <1>5, <2>0
  <1>7. r # H => s[r] = t.screen[r]
    BY <1>6 DEF Keyed
  <1>8. r = H => s[r][c] = t.screen[r][c]
    <2> SUFFICES ASSUME r = H PROVE s[r][c] = t.screen[r][c]
      OBVIOUS
    <2>1. b.screen = t.screen
      BY DEF BegunAs
    <2>2. CASE c <= bx
      BY <1>6, <2>1, <2>2 DEF Keyed
    <2>3. CASE options.position = "left"
      <3>1. bx = w
        BY <2>3 DEF BegunAs, InLastRow
      <3>2. c <= bx
        <4> HIDE DEF l, oy, ox, R, C, w, H, T, m, bx, lw, c
        <4> QED BY <1>1, <1>4, <1>5, <1>6, <2>3, <3>1
      <3> QED BY <2>2, <3>2
    <2>4. CASE options.position = "right"
      <3>1. bx = w
        BY <2>4 DEF BegunAs, InLastRow
      <3>2. w = 0
        BY <2>4 DEF KeysStart, StartAt
      <3>3. width <= ox
        BY <2>4 DEF Aside, AsideAt
      <3>4. c \in bx + width + 1..C
        <4> HIDE DEF l, oy, ox, R, C, w, H, T, m, bx, lw, c, r
        <4> QED BY <1>1, <1>4, <1>5, <1>6, <3>1, <3>2, <3>3
      <3> HIDE DEF c, r, bx
      <3>5. s[H][c] = b.screen[H][c]
        BY <2>4, <3>4 DEF Keyed, bx
      <3> QED BY <2>1, <3>5
    <2>5. CASE options.position = "top"
      <3>1. \/ oy + l <= T
            \/ InLastRow /\ oy + l = T + 1 /\ (shown = <<>> => buffered = <<>> /\ cursor[2] = ox + options.lines[l])
        BY <2>5, Zenon DEF Above
      <3>2. i = l /\ m = 0 /\ oy + l = T + 1
        <4>1. oy + l <= T \/ oy + l = T + 1
          BY <3>1
        <4>2. i \in 1..l /\ oy + i - 1 = H
          OBVIOUS
        <4> HIDE DEF l, oy, ox, R, C, w, H, T, m, bx, lw, c, r
        <4> QED BY <1>1, <4>1, <4>2
      <3>3. shown = <<>>
        <4>1. shown = [n \in 1..0 |-> shown[n]]
          BY <3>2 DEF Listed
        <4> QED BY <4>1
      <3>4. ~(oy + l <= T)
        <4> HIDE DEF l, oy, T
        <4> QED BY <1>1, <3>2
      <3>5. buffered = <<>> /\ cursor[2] = ox + lw
        BY <3>1, <3>2, <3>3, <3>4
      <3>6. w = 0
        BY <2>5 DEF KeysStart, StartAt
      <3>7. bx = ox + lw
        BY <3>5, <3>6 DEF BegunAs, Ready
      <3>8. c <= bx
        BY <1>6, <3>7
      <3> QED BY <2>2, <3>8
    <2> QED BY <1>2, <2>3, <2>4, <2>5
  <1> HIDE DEF r, c, H
  <1>9. s[r][c] = <<"logo", drawn, i>>
    BY <1>3, <1>7, <1>8
  <1> QED BY <1>9 DEF r, c

(* ... nor over what is in the rows above.                                      *)
LEMMA AboveKept ==
  ASSUME NEW t, t.row = Here, Here \in 0..Rows - 1, NEW b, NEW width, NEW s, Keyed(t, b, width, s),
         NEW r \in Nat, r < Here
  PROVE  s[r] = t.screen[r]
  <1> DEFINE H == Here
             R == Rows
  <1>1. R \in Nat /\ H \in 0..R - 1 /\ r < H
    BY LogoAssumption
  <1>2. r \in 0..R - 1 /\ r # H
    <2> HIDE DEF H, R
    <2> QED BY <1>1
  <1> QED BY <1>2 DEF Keyed

(* The lines of the cache stay, and the next one is there, too.                 *)
LEMMA CachedKept ==
  ASSUME Screen, KeysStart, cache # <<>>, Printing, Top \in Nat, Here = Top + Len(shown),
         NEW t, t.row = Here, Here \in 0..Rows - 1, NEW b, BegunAs(t, b), LineOf(t, b),
         NEW width \in KeyWidths, NEW s, Keyed(t, b, width, s), Aside, Cached, CachedOn(t.screen, nextLine)
  PROVE  CachedOn(s, IF nextLine < Len(cache) THEN nextLine + 1 ELSE nextLine)
  <1> DEFINE l == Len(options.lines)
             oy == origin[1]
             ox == origin[2]
             R == Rows
             C == Columns
             w == logoWidth
             H == Here
             T == Top
             m == Len(shown)
             bx == b.column
             n == nextLine
             k == Len(cache)
             q == IF n < k THEN n + 1 ELSE n
             tp == options.top
  <1>1. /\ l \in Nat /\ ox \in Nat /\ R \in Nat /\ C \in Nat /\ w \in Nat /\ H \in Nat
        /\ T \in Nat /\ m \in Nat /\ width \in Nat /\ bx \in Nat /\ H = T + m /\ oy = T + tp /\ tp \in Nat
        /\ k \in Nat /\ n = Least(m, k) /\ H \in 0..R - 1
    <2>1. Len(options.lines) \in Nat /\ options.top \in Nat
      BY FitsFields DEF Screen
    <2>2. origin[2] \in Nat /\ logoWidth \in Nat
      BY DEF Aside, AsideAt, KeysStart, StartAt
    <2>3. Rows \in Nat /\ Columns \in Nat /\ width \in Nat
      BY LogoAssumption
    <2>4. b.column \in Nat
      BY DEF BegunAs
    <2>5. m \in Nat /\ k \in Nat /\ n = Least(m, k)
      BY DEF Printing, Listed
    <2>6. oy = T + tp
      BY DEF Cached
    <2> HIDE DEF H, T
    <2> QED BY <2>1, <2>2, <2>3, <2>4, <2>5, <2>6 DEF H, T
  <1>2. options.position \in {"left", "right"} /\ bx = w
    BY DEF Cached, BegunAs, InLastRow
  <1> SUFFICES ASSUME NEW i \in 1..l, i + tp <= q, NEW j \in 1..options.lines[i]
               PROVE  s[oy + i - 1][ox + j] = <<"logo", drawn, i>>
    BY Zenon DEF CachedOn
  <1> DEFINE r == oy + i - 1
             c == ox + j
             lw == options.lines[i]
  <1>3. CASE i + tp <= n
    <2>1. t.screen[r][c] = <<"logo", drawn, i>>
      BY <1>3 DEF CachedOn
    <2>2. r \in Nat /\ r < H
      <3>1. i \in 1..l
        OBVIOUS
      <3> HIDE DEF l, oy, ox, R, C, w, H, T, m, bx, n, k, q, tp
      <3> QED BY <1>1, <1>3, <3>1 DEF Least
    <2> HIDE DEF r, c
    <2>3. s[r] = t.screen[r]
      BY <2>2, AboveKept
    <2>4. s[r][c] = <<"logo", drawn, i>>
      BY <2>1, <2>3
    <2> QED BY <2>4 DEF r, c
  <1>4. CASE ~(i + tp <= n)
    <2>1. n < k /\ i + tp = n + 1 /\ r = H
      <3>1. i \in 1..l /\ i + tp <= q
        OBVIOUS
      <3> HIDE DEF l, oy, ox, R, C, w, H, T, m, bx, n, k, tp
      <3> QED BY <1>1, <1>4, <3>1 DEF Least
    <2>2. b.screen[H][c] = <<"logo", drawn, i>>
      BY <2>1 DEF LineOf
    <2>3. lw \in Nat /\ j \in 1..lw
      <3>1. options.lines \in Seq(Nat)
        BY FitsFields DEF Screen
      <3> QED BY <3>1, WidthOfLine, Zenon
    <2>4. ox + lw <= C /\ (options.position = "left" => ox + lw <= w)
      BY DEF Aside, AsideAt
    <2>5. c \in 1..C /\ c <= ox + lw /\ ox < c
      <3> HIDE DEF l, oy, ox, R, C, w, H, T, m, bx, lw, n, k, q, tp
      <3> QED BY <1>1, <2>3, <2>4
    <2>6. CASE options.position = "left"
      <3>1. c <= bx
        <4> HIDE DEF l, oy, ox, R, C, w, H, T, m, bx, lw, c, n, k, q, tp
        <4> QED BY <1>1, <1>2, <2>3, <2>4, <2>5, <2>6
      <3> HIDE DEF c, r
      <3>2. s[H][c] = b.screen[H][c]
        BY <2>5, <3>1 DEF Keyed
      <3>3. s[r][c] = <<"logo", drawn, i>>
        BY <2>1, <2>2, <3>2
      <3> QED BY <3>3 DEF r, c
    <2>7. CASE options.position = "right"
      <3>1. w = 0
        BY <2>7 DEF KeysStart, StartAt
      <3>2. width <= ox
        BY <2>7 DEF Aside, AsideAt
      <3>3. c \in bx + width + 1..C
        <4> HIDE DEF l, oy, ox, R, C, w, H, T, m, bx, lw, c, n, k, q, tp
        <4> QED BY <1>1, <1>2, <2>3, <2>4, <2>5, <3>1, <3>2
      <3> HIDE DEF c, r, bx
      <3>4. s[H][c] = b.screen[H][c]
        BY <2>7, <3>3 DEF Keyed, bx
      <3>5. s[r][c] = <<"logo", drawn, i>>
        BY <2>1, <2>2, <3>4
      <3> QED BY <3>5 DEF r, c
    <2> QED BY <1>2, <2>6, <2>7
  <1> QED BY <1>3, <1>4

(* The keys above stay, and the new one is there; ...                           *)
LEMMA KeysKept ==
  ASSUME KeysStart, Listed(shown), Top \in Nat, Here = Top + Len(shown), \A i \in 1..Len(shown) : shown[i][1] = Top + i - 1,
         NEW t, t.row = Here, Here \in 0..Rows - 1, NEW b, BegunAs(t, b),
         NEW width \in KeyWidths, NEW s, Keyed(t, b, width, s), KeysOn(t.screen)
  PROVE  /\ \A i \in 1..Len(shown) : KeyAt(s, i, shown[i][1], shown[i][2], shown[i][3])
         /\ KeyAt(s, Len(shown) + 1, Here, b.column, width)
  <1> DEFINE m == Len(shown)
             T == Top
             H == Here
  <1>1. m \in Nat /\ T \in Nat /\ H = T + m
    BY DEF Listed
  <1>2. ASSUME NEW i \in 1..m PROVE KeyAt(s, i, shown[i][1], shown[i][2], shown[i][3])
    <2> DEFINE r == shown[i][1]
    <2>1. KeyAt(t.screen, i, r, shown[i][2], shown[i][3])
      BY DEF KeysOn
    <2>2. r = T + i - 1
      OBVIOUS
    <2> HIDE DEF r
    <2>3. r \in Nat /\ r < H
      <3> HIDE DEF T, H, m
      <3> QED BY <1>1, <1>2, <2>2
    <2>4. s[r] = t.screen[r]
      BY <2>3, AboveKept
    <2>5. KeyAt(s, i, r, shown[i][2], shown[i][3])
      BY <2>1, <2>4 DEF KeyAt
    <2> QED BY <2>5 DEF r
  <1>3. KeyAt(s, m + 1, H, b.column, width)
    <2>1. b.column \in Nat /\ width \in Nat /\ b.column + width <= Columns
      BY LogoAssumption DEF BegunAs
    <2>2. b.column = logoWidth \/ (InLastRow /\ m + 1 = 1)
      <3>1. shown = <<>> => m = 0
        OBVIOUS
      <3> QED BY <3>1 DEF BegunAs
    <2>3. \A c \in 1..width : s[H][b.column + c] = <<"key", round, m + 1>>
      BY DEF Keyed, KeyCell
    <2>4. options.watch /\ options.position = "left" => \A c \in b.column + width + 1..Columns : s[H][c] = Blank
      BY DEF Keyed
    <2> HIDE DEF m, H
    <2> QED BY <2>1, <2>2, <2>3, <2>4 DEF KeyAt
  <1> QED BY <1>2, <1>3

(* ... the line of the shell stays, if there is one.                            *)
LEMMA ShellKept ==
  ASSUME Top \in Nat, Here = Top + Len(shown), Len(shown) \in Nat, NEW t, t.row = Here, Here \in 0..Rows - 1, NEW b,
         NEW width, NEW s, Keyed(t, b, width, s), ShellOn(t.screen, Top)
  PROVE  ShellOn(s, Top)
  <1> DEFINE T == Top
             H == Here
             m == Len(shown)
  <1>1. CASE NoShell(t.screen)
    <2>1. NoShell(s)
      BY <1>1 DEF NoShell, Keyed, Unsoiled
    <2> QED BY <2>1 DEF ShellOn
  <1>2. CASE AllShell(t.screen) /\ T >= 1
    <2>1. 0 \in Nat /\ 0 < H
      <3>1. T \in Nat /\ m \in Nat /\ H = T + m
        OBVIOUS
      <3> HIDE DEF T, H, m
      <3> QED BY <1>2, <3>1
    <2>2. s[0] = t.screen[0]
      BY <2>1, AboveKept
    <2> QED BY <1>2, <2>2 DEF ShellOn, AllShell
  <1> QED BY <1>1, <1>2 DEF ShellOn

(* Where the next key goes.                                                     *)
LEMMA HereIs ==
  ASSUME Screen, Printing, Standing
  PROVE  /\ Top \in Nat /\ Here = Top + Len(shown) /\ Here \in 0..Rows - 1 /\ Len(shown) \in Nat
         /\ nextLine \in Nat /\ Listed(shown) /\ \A i \in 1..Len(shown) : shown[i][1] = Top + i - 1
         /\ IsTerminal(Flushed) /\ Flushed.row = Here
         /\ Here + logoHeight + 2 <= Rows + Len(shown)
  <1> DEFINE H == Here
             T == Top
             m == Len(shown)
             R == Rows
             n == nextLine
             k == Len(cache)
             g == logoHeight
             e == options.keys
  <1>1. /\ m \in Nat /\ T \in Nat /\ R \in Nat /\ k \in Nat /\ n = Least(m, k) /\ T = H - m /\ g \in Nat /\ e \in Nat
        /\ T + g + e + 2 <= R
    BY FitsFields, LogoAssumption DEF Printing, Standing, Listed, Top, Room, Screen
  <1>2. H \in Nat /\ H < R
    BY LogoAssumption DEF Here, Screen
  <1>3. Listed(shown) /\ (\A i \in 1..m : shown[i][1] = T + i - 1)
    BY DEF Printing, Standing
  <1>4. IsTerminal(Flushed) /\ Flushed.row = H
    BY FlushedHere DEF Screen, Printing
  <1> HIDE DEF H, T, m, R, n, k, g, e
  <1>5. H = T + m /\ H \in 0..R - 1 /\ n \in Nat /\ H + g + 2 <= R + m
    BY <1>1, <1>2 DEF Least
  <1> QED BY <1>1, <1>3, <1>4, <1>5 DEF H, T, m, R, n, g

LEMMA TopKept ==
  ASSUME EndsInv, PrintKey, excuse = "none"
  PROVE  Top' = Top /\ Len(shown') = Len(shown) + 1
  <1>1. Screen /\ Printing /\ Standing
    BY DEF PrintKey, EndsInv, AtKeys, Alive
  <1>2. PICK column, width : shown' = Append(shown, <<Here, column, width>>)
    BY <1>1, KeyIs DEF Printing, Screen
  <1>3. buffered' = <<>> /\ cursor'[1] = Least(Here + 1, Rows - 1)
    BY <1>1, KeyIs DEF Printing, Screen
  <1> DEFINE x == <<Here, column, width>>
             m == Len(shown)
             p == Len(shown')
             y == cursor'[1]
             H == Here
             T == Top
             TT == Top'
             R == Rows
             g == logoHeight
             e == options.keys
  <1>4. p = m + 1
    <2> HIDE DEF x
    <2>1. Longer(shown, x, shown')
      BY <1>1, <1>2, AppendIs DEF Printing, x
    <2> QED BY <2>1 DEF Longer
  <1>5. TT = y - p
    BY <1>3 DEF Top, Here
  <1>6. /\ m \in Nat /\ T \in Nat /\ R \in Nat /\ H = T + m /\ g \in Nat /\ e \in Nat /\ T + g + e + 2 <= R /\ m < e
    BY <1>1, HereIs, FitsFields, LogoAssumption DEF Standing, Room, Screen, PrintKey
  <1>7. y = Least(H + 1, R - 1)
    BY <1>3
  <1> HIDE DEF x, m, p, y, H, T, TT, R, g, e
  <1>8. TT = T
    BY <1>4, <1>5, <1>6, <1>7 DEF Least
  <1> QED BY <1>4, <1>8 DEF T, TT, m, p

(* Of what is held.                                                             *)
LEMMA HeldIs == <<>> # <<"space", "home">> /\ <<"home">> # <<"space", "home">> /\ <<"home">> # <<>>
                /\ <<"space", "home">> # <<>>
  <1>1. Len(<<"space", "home">>) = 2 /\ Len(<<"home">>) = 1 /\ Len(<<>>) = 0
    OBVIOUS
  <1> QED BY <1>1

LEMMA LinesSame == ASSUME UNCHANGED <<options, round>> PROVE Lines(options)' = Lines(options)
  BY DEF Lines, LogoText, LogoCell

(* So a key keeps all of it.                                                    *)
LEMMA PrintKeyCells ==
  ASSUME EndsInv, CellsInv, PrintKey
  PROVE  CellsInv'
  <1>1. /\ at = "keys" /\ at' = "keys"
        /\ nextLine' = (IF nextLine < Len(cache) THEN nextLine + 1 ELSE nextLine)
        /\ UNCHANGED <<options, cache, rightOffset, logoWidth, logoHeight, round, drawn, origin, excuse>>
    BY DEF PrintKey
  <1> SUFFICES ASSUME excuse = "none" PROVE KeysCells'
    BY <1>1 DEF CellsInv, CellsAtKeys, CellsAtSleep, CellsAtLogo, CellsAtCursor
  <1>2. Screen /\ Printing /\ Standing
    BY <1>1 DEF EndsInv, AtKeys, Alive
  <1>3. KeysCells
    BY <1>1 DEF CellsInv, CellsAtKeys, Alive
  <1> DEFINE t == Flushed
             b == LineBegun(t)
  <1>4. /\ Top \in Nat /\ Here = Top + Len(shown) /\ Here \in 0..Rows - 1 /\ Len(shown) \in Nat
        /\ nextLine \in Nat /\ Listed(shown) /\ \A i \in 1..Len(shown) : shown[i][1] = Top + i - 1
        /\ IsTerminal(t) /\ t.row = Here
    BY <1>2, HereIs
  <1>5. KeysOn(t.screen) /\ ShellOn(t.screen, Top) /\ Shown(t.screen) /\ Ready(t)
    BY <1>2, <1>3, FlushedCells
  <1>6. PICK width \in KeyWidths :
          /\ Prints(NewLine(Put(Tidied(b), Cells(width, KeyCell))))
          /\ shown' = Append(shown, <<Tidied(b).row, Tidied(b).column, width>>)
    BY DEF PrintKey, Tidied
  <1> HIDE DEF t
  <1>7. BegunAs(t, b) /\ LineOf(t, b)
    <2>1. cache # <<>> => Aside /\ Cached
      BY <1>5 DEF Shown
    <2>2. t.row \in 0..Rows - 1
      BY <1>4
    <2> QED BY <1>2, <1>3, <1>4, <1>5, <2>1, <2>2, BegunIs DEF KeysCells
  <1> HIDE DEF b
  <1> DEFINE a == Tidied(b)
             put == Put(a, Cells(width, KeyCell))
             S == screen'
  <1>8. IsTerminal(a) /\ a.row = Here /\ a.column = b.column
    <2>1. IsTerminal(b) /\ b.row = Here
      BY <1>4, <1>7 DEF BegunAs
    <2> QED BY <2>1, ClearLineStays DEF Tidied, StaysAt, Stays
  <1>9. Keyed(t, b, width, put.screen)
    BY <1>4, <1>7, KeyedIs
  <1>10. S = put.screen /\ buffered' = <<>>
    <2>1. IsTerminal(put)
      BY <1>8, PutStays DEF Stays
    <2>2. Shows(NewLine(put)) /\ buffered' = <<>>
      BY <1>6 DEF Prints
    <2> HIDE DEF put
    <2> QED BY <2>1, <2>2, MovesKeep DEF Shows
  <1>11. cursor'[2] = 0
    BY <1>2, KeyIs DEF Screen, Printing
  <1> HIDE DEF put
  <1>12. Keyed(t, b, width, S)
    BY <1>9, <1>10
  <1>13. Top' = Top /\ Len(shown') = Len(shown) + 1
    BY TopKept
  <1>14. Longer(shown, <<Here, b.column, width>>, shown')
    <2> DEFINE x == <<Here, b.column, width>>
    <2>1. shown' = Append(shown, x)
      BY <1>6, <1>8
    <2>2. Listed(shown)
      BY <1>4
    <2> HIDE DEF x
    <2>3. Longer(shown, x, Append(shown, x))
      BY <2>2, AppendIs
    <2>4. Longer(shown, x, shown')
      BY <2>1, <2>3
    <2> QED BY <2>4 DEF x
  <1> HIDE DEF a, S
  <1>15. KeysStart' /\ (Aside => Aside')
    BY <1>1, <1>3 DEF KeysCells, KeysStart, StartAt, Aside, AsideAt
  <1>16. KeysOn(screen)'
    <2> DEFINE m == Len(shown)
               x == <<Here, b.column, width>>
    <2>1. /\ \A i \in 1..m : KeyAt(S, i, shown[i][1], shown[i][2], shown[i][3])
          /\ KeyAt(S, m + 1, Here, b.column, width)
      BY <1>3, <1>4, <1>5, <1>7, <1>12, KeysKept DEF KeysCells
    <2>2. x[1] = Here /\ x[2] = b.column /\ x[3] = width
      OBVIOUS
    <2>3. Len(shown') = m + 1 /\ shown'[m + 1] = x /\ \A i \in 1..m : shown'[i] = shown[i]
      BY <1>14 DEF Longer
    <2> HIDE DEF x
    <2>4. ASSUME NEW i \in 1..m + 1
          PROVE  KeyAt(S, i, shown'[i][1], shown'[i][2], shown'[i][3])
      <3>1. i \in 1..m \/ i = m + 1
        BY <1>4
      <3>2. CASE i \in 1..m
        BY <2>1, <2>3, <3>2
      <3>3. CASE i = m + 1
        BY <2>1, <2>2, <2>3, <3>3
      <3> QED BY <3>1, <3>2, <3>3
    <2>5. \A i, r, c, w : KeyAt(S, i, r, c, w) => KeyAt(screen, i, r, c, w)'
      <3>1. logoWidth' = logoWidth /\ options' = options /\ round' = round
        BY <1>1
      <3>2. InLastRow' <=> InLastRow
        BY <3>1, Zenon DEF InLastRow
      <3> SUFFICES ASSUME NEW i, NEW r, NEW c, NEW w, KeyAt(S, i, r, c, w)
                   PROVE  KeyAt(screen, i, r, c, w)'
        BY Zenon
      <3>3. /\ c \in Nat /\ w \in Nat /\ c + w <= Columns
            /\ c = logoWidth \/ (InLastRow /\ i = 1)
            /\ \A d \in 1..w : S[r][c + d] = <<"key", round, i>>
            /\ options.watch /\ options.position = "left" => \A d \in c + w + 1..Columns : S[r][d] = Blank
        BY Zenon DEF KeyAt
      <3>4. /\ c = logoWidth' \/ (InLastRow' /\ i = 1)
            /\ \A d \in 1..w : S[r][c + d] = <<"key", round', i>>
            /\ options'.watch /\ options'.position = "left" => \A d \in c + w + 1..Columns : S[r][d] = Blank
        BY <3>1, <3>2, <3>3, Zenon
      <3> QED BY <3>3, <3>4, Zenon DEF KeyAt, S
    <2> QED BY <2>3, <2>4, <2>5 DEF KeysOn
  <1>17. ShellOn(screen, Top)'
    <2>1. ShellOn(S, Top)
      BY <1>4, <1>5, <1>12, ShellKept
    <2> QED BY <1>1, <1>13, <2>1 DEF ShellOn, NoShell, AllShell, OneRow, S
  <1>18. Place' /\ Spaced'
    BY <1>10, <1>11, HeldIs DEF Place, Spaced
  <1>19. Shown(screen)'
    <2>1. CASE cache # <<>>
      <3>1. Aside /\ Cached /\ CachedOn(t.screen, nextLine)
        BY <1>5, <2>1 DEF Shown
      <3>2. CachedOn(S, nextLine')
        BY <1>1, <1>2, <1>3, <1>4, <1>7, <1>12, <2>1, <3>1, CachedKept DEF KeysCells
      <3>3. CachedOn(screen, nextLine)'
        BY <1>1, <3>2 DEF CachedOn, S
      <3>4. Cached'
        BY <1>1, <1>13, <3>1, LinesSame DEF Cached, OriginOf
      <3> QED BY <1>1, <1>15, <2>1, <3>1, <3>3, <3>4 DEF Shown
    <2>2. CASE cache = <<>> /\ Unseen(round)
      BY <1>1, <2>2 DEF Shown, Unseen, HeightForgotten, Static
    <2>3. CASE cache = <<>> /\ Aside /\ Above(Top) /\ LogoOn(t.screen)
      <3>1. LogoOn(S)
        BY <1>2, <1>3, <1>4, <1>5, <1>7, <1>12, <2>3, LogoKept DEF KeysCells
      <3>2. LogoOn(screen)'
        BY <1>1, <3>1 DEF LogoOn, LogoAt, S
      <3>3. Above(Top)'
        <4>1. shown' # <<>>
          BY <1>14 DEF Longer
        <4> QED BY <1>1, <1>13, <2>3, <4>1 DEF Above, InLastRow
      <3> QED BY <1>1, <1>15, <2>3, <3>2, <3>3 DEF Shown
    <2> QED BY <1>5, <2>1, <2>2, <2>3 DEF Shown
  <1> QED BY <1>15, <1>16, <1>17, <1>18, <1>19 DEF KeysCells


(* The end: the lines that are left, ...                                        *)
Rested(s, n, u) ==
  Listed(u) /\ Len(u) = Len(s) - n /\ \A i \in 1..Len(s) - n : u[i] = s[n + i]
LEMMA RestOf ==
  ASSUME NEW s, Listed(s), NEW n \in 0..Len(s)
  PROVE  Rested(s, n, Rest(s, n))
  <1> DEFINE S == {s[i] : i \in 1..Len(s)}
             u == Rest(s, n)
             m == Len(s) - n
  <1>1. s \in Seq(S) /\ Len(s) \in Nat
    BY ListedIs DEF Listed
  <1> HIDE DEF S
  <1>2. m \in Nat
    BY <1>1
  <1>3. u = [i \in 1..m |-> s[n + i]]
    <2>1. u = SubSeq(s, n + 1, Len(s))
      BY DEF Rest
    <2> HIDE DEF u
    <2>2. u \in Seq(S) /\ Len(u) = m /\ \A i \in 1..m : u[i] = s[n + i]
      BY <1>1, <2>1
    <2>3. DOMAIN u = 1..m /\ u = [i \in DOMAIN u |-> u[i]]
      <3>1. DOMAIN u = 1..m
        BY <2>2, LenProperties
      <3>2. PICK k \in Nat : u \in [1..k -> S]
        BY <2>2, SeqDef
      <3>3. u = [i \in DOMAIN u |-> u[i]]
        BY <3>2
      <3> QED BY <3>1, <3>3
    <2> HIDE DEF m
    <2> QED BY <2>2, <2>3
  <1> HIDE DEF u, m
  <1>4. \A i \in 1..m : u[i] = s[n + i]
    BY <1>3
  <1>5. u = [i \in 1..m |-> u[i]]
    BY <1>3, <1>4
  <1>6. Len(u) = m /\ Listed(u)
    BY <1>2, <1>5, ListedIs, Zenon
  <1> QED BY <1>4, <1>6 DEF Rested, u, m

(* ... which go where they would have gone beside keys: ...                     *)
LinesLeft(t, x, texts, u) ==
  /\ ArePut(t, x, texts, u) /\ x + Pad(options) = origin[2] /\ x \in Nat
  /\ Len(texts) = Len(cache) - nextLine
  /\ \A i \in 1..Len(texts) : IsText(options, (nextLine + i) - options.top, texts[i])
LEMMA RemainingAre ==
  ASSUME Screen, Printing, Standing, cache # <<>>, Aside, Cached, Ready(Flushed)
  PROVE  \E x, texts : LinesLeft(Flushed, x, texts, Remaining(Flushed))
  <1> DEFINE t == Flushed
             n == nextLine
             k == Len(cache)
             h == Height(options)
             m == Len(shown)
             texts == Rest(cache, n)
             b == IF options.position = "right" THEN FromRight(t, rightOffset) ELSE t
             x == b.column
             ox == origin[2]
             tp == options.top
  <1>1. IsTerminal(t)
    BY HereIs
  <1>2. n = Least(m, k) /\ m \in Nat /\ k \in Nat /\ Listed(cache)
    BY DEF Printing, Listed
  <1>3. n \in 0..k
    <2> HIDE DEF n, m, k
    <2> QED BY <1>2 DEF Least
  <1>4. cache = Lines(options) /\ k = h + 1 /\ h \in Nat
    BY LinesAre, HeightIs DEF Cached, Screen
  <1>5. Rested(cache, n, texts)
    BY <1>2, <1>3, RestOf
  <1>6. Remaining(t) = PutLines(t, x, texts)
    BY DEF Remaining, RemainingLines
  <1>7. x + Pad(options) = ox /\ x \in Nat
    <2>1. CASE options.position = "right"
      <3>1. x = ox /\ ox \in Nat /\ Pad(options) = 0
        BY <1>1, <2>1, MovesKeep DEF Cached, OriginOf, Aside, AsideAt, Pad
      <3> HIDE DEF x, ox
      <3> QED BY <3>1
    <2>2. CASE options.position = "left"
      <3>1. ox = options.left /\ ox \in Nat /\ Pad(options) = ox
        BY <2>2 DEF Cached, OriginOf, Aside, AsideAt, Pad
      <3>2. x = 0
        BY <2>2 DEF Ready
      <3> HIDE DEF x, ox
      <3> QED BY <3>1, <3>2
    <2> QED BY <2>1, <2>2 DEF Cached
  <1> HIDE DEF t, x, texts, b
  <1>8. ASSUME NEW i \in 1..Len(texts) PROVE IsText(options, (n + i) - tp, texts[i])
    <2> DEFINE q == n + i
    <2>1. Len(texts) = k - n /\ i \in 1..k - n /\ texts[i] = cache[q]
      BY <1>5 DEF Rested
    <2>2. q \in 1..h + 1
      <3> HIDE DEF n, k, h
      <3> QED BY <1>2, <1>3, <1>4, <2>1
    <2> HIDE DEF q
    <2>3. IsText(options, q - tp, Lines(options)[q])
      BY <2>2, TextIs DEF Screen
    <2>4. IsText(options, q - tp, texts[i])
      BY <1>4, <2>1, <2>3
    <2> QED BY <2>4 DEF q
  <1>9. \A i \in 1..Len(texts) : Listed(texts[i])
    BY <1>8 DEF IsText
  <1>10. ArePut(t, x, texts, Remaining(t))
    <2>1. x \in Int
      BY <1>7
    <2>2. Listed(texts)
      BY <1>5 DEF Rested
    <2> QED BY <1>1, <1>6, <1>9, <2>1, <2>2, PutLinesAre
  <1>11. LinesLeft(t, x, texts, Remaining(t))
    BY <1>5, <1>7, <1>8, <1>10 DEF LinesLeft, Rested
  <1> QED BY <1>11 DEF t

(* ... not above them, ...                                                      *)
LEMMA RemainingKeeps ==
  ASSUME Screen, Printing, Standing, cache # <<>> => Aside /\ Cached, Ready(Flushed)
  PROVE  /\ \A r \in Nat : r < Here => Remaining(Flushed).screen[r] = Flushed.screen[r]
         /\ Unsoiled(Flushed.screen, Remaining(Flushed).screen)
         /\ cache = <<>> => Remaining(Flushed).screen = Flushed.screen
  <1> DEFINE t == Flushed
             u == Remaining(t)
             H == Here
             R == Rows
             C == Columns
  <1>1. IsTerminal(t) /\ t.row = H /\ H \in 0..R - 1 /\ R \in Nat /\ C \in Nat /\ R > 0
    BY HereIs, LogoAssumption
  <1>2. CASE cache = <<>>
    <2>1. u.screen = t.screen
      <3> HIDE DEF t
      <3>1. Remaining(t) = t \/ \E n : Remaining(t) = NewLines(t, n)
        BY <1>2 DEF Remaining
      <3>2. IsTerminal(t)
        BY <1>1
      <3>3. \A n : NewLines(t, n).screen = t.screen
        BY <3>2, MovesKeep
      <3>4. CASE Remaining(t) = t
        BY <3>4 DEF u
      <3>5. CASE \E n : Remaining(t) = NewLines(t, n)
        <4>1. PICK n : Remaining(t) = NewLines(t, n)
          BY <3>5
        <4>2. NewLines(t, n).screen = t.screen
          BY <3>3
        <4> QED BY <4>1, <4>2 DEF u
      <3> QED BY <3>1, <3>4, <3>5
    <2> QED BY <2>1 DEF Unsoiled
  <1>3. CASE cache # <<>>
    <2>1. PICK x, texts : LinesLeft(t, x, texts, u)
      BY <1>3, RemainingAre
    <2>2. ArePut(t, x, texts, u) /\ x \in Nat
      BY <2>1 DEF LinesLeft
    <2> DEFINE l == Len(texts)
    <2> HIDE DEF u, t
    <2>3. ASSUME NEW r \in Nat, r < H PROVE u.screen[r] = t.screen[r]
      <3>1. r \in 0..R - 1 /\ ~(r - H + 1 \in 1..l)
        <4> HIDE DEF H, R, l
        <4> QED BY <1>1, <2>3
      <3> HIDE DEF l, H
      <3> QED BY <1>1, <2>2, <3>1 DEF ArePut, l
    <2>4. Unsoiled(t.screen, u.screen)
      <3> SUFFICES ASSUME NEW c \in 1..C, u.screen[0][c] = Shell PROVE t.screen[0][c] = Shell
        BY DEF Unsoiled
      <3> DEFINE i == 0 - H + 1
      <3>1. 0 \in 0..R - 1
        <4> HIDE DEF R
        <4> QED BY <1>1
      <3>2. CASE i \in 1..l
        <4>1. u.screen[0][c] = IF c - x \in 1..Len(texts[i]) THEN texts[i][c - x] ELSE t.screen[0][c]
          BY <1>1, <2>2, <3>1, <3>2 DEF ArePut
        <4>2. \A d \in 1..Len(texts[i]) : texts[i][d] # Shell
          BY <2>1, <3>2 DEF LinesLeft, IsText
        <4> HIDE DEF i
        <4> QED BY <4>1, <4>2
      <3>3. CASE ~(i \in 1..l)
        BY <1>1, <2>2, <3>1, <3>3 DEF ArePut
      <3> QED BY <3>2, <3>3
    <2> QED BY <1>3, <2>3, <2>4 DEF u, t
  <1> QED BY <1>2, <1>3

(* ... and with them the logo is whole.                                         *)
LEMMA RemainingLogo ==
  ASSUME Screen, Printing, Standing, cache # <<>>, Aside, Cached, CachedOn(Flushed.screen, nextLine), Ready(Flushed)
  PROVE  LogoOn(Remaining(Flushed).screen)
  <1> DEFINE t == Flushed
             u == Remaining(t)
             S == u.screen
             l == Len(options.lines)
             oy == origin[1]
             ox == origin[2]
             R == Rows
             C == Columns
             H == Here
             T == Top
             m == Len(shown)
             n == nextLine
             k == Len(cache)
             h == Height(options)
             tp == options.top
  <1>1. /\ l \in Nat /\ ox \in Nat /\ R \in Nat /\ C \in Nat /\ H \in Nat /\ oy + l <= R
        /\ T \in Nat /\ m \in Nat /\ H = T + m /\ oy = T + tp /\ tp \in Nat
        /\ k \in Nat /\ n = Least(m, k) /\ tp + l <= k /\ h \in Nat /\ k = h + 1
    <2>1. l \in Nat /\ tp \in Nat
      BY FitsFields DEF Screen
    <2>2. ox \in Nat /\ oy + l <= R
      BY DEF Aside, AsideAt
    <2>3. R \in Nat /\ C \in Nat
      BY LogoAssumption
    <2>4. m \in Nat /\ k \in Nat /\ n = Least(m, k)
      BY DEF Printing, Listed
    <2>5. oy = T + tp
      BY DEF Cached
    <2>6. H = T + m /\ T \in Nat /\ H \in Nat
      <3> HIDE DEF H, T
      <3> QED BY HereIs DEF H, T
    <2>7. k = h + 1 /\ tp + l <= h + 1 /\ h \in Nat
      BY LinesAre, HeightIs DEF Cached, Screen
    <2> HIDE DEF l, oy, ox, R, C, H, T, m, k, h, tp
    <2> QED BY <2>1, <2>2, <2>3, <2>4, <2>5, <2>6, <2>7
  <1>2. t.row = H /\ \A r \in Nat : r < H => S[r] = t.screen[r]
    BY RemainingKeeps, HereIs
  <1>3. PICK x, texts : LinesLeft(t, x, texts, u)
    BY RemainingAre
  <1>4. ArePut(t, x, texts, u) /\ x + Pad(options) = ox /\ x \in Nat /\ Len(texts) = k - n
    BY <1>3 DEF LinesLeft
  <1> HIDE DEF u, t
  <1> SUFFICES ASSUME NEW i \in 1..l, NEW j \in 1..options.lines[i]
               PROVE  S[oy + i - 1][ox + j] = <<"logo", drawn, i>>
    BY Zenon DEF LogoOn, LogoAt, t, u
  <1> DEFINE r == oy + i - 1
             c == ox + j
             lw == options.lines[i]
  <1>5. CASE i + tp <= n
    <2>1. t.screen[r][c] = <<"logo", drawn, i>>
      BY <1>5 DEF CachedOn, t
    <2>2. r \in Nat /\ r < H
      <3>1. i \in 1..l
        OBVIOUS
      <3> HIDE DEF l, oy, ox, R, C, H, T, m, n, k, h, tp
      <3> QED BY <1>1, <1>5, <3>1 DEF Least
    <2> HIDE DEF r, c, S
    <2>3. S[r][c] = <<"logo", drawn, i>>
      BY <1>2, <2>1, <2>2
    <2> QED BY <2>3 DEF r, c
  <1>6. CASE ~(i + tp <= n)
    <2> DEFINE q == r - H + 1
    <2>1. r \in 0..R - 1 /\ q \in 1..k - n /\ (n + q) - tp = i
      <3>1. i \in 1..l
        OBVIOUS
      <3> HIDE DEF l, oy, ox, R, C, H, T, m, n, k, h, tp
      <3> QED BY <1>1, <1>6, <3>1 DEF Least
    <2>2. lw \in Nat /\ j \in 1..lw
      BY FitsFields DEF Screen
    <2>3. ox + lw <= C
      BY DEF Aside, AsideAt
    <2>4. c \in 1..C /\ c = ox + j
      <3> HIDE DEF ox, lw, C
      <3> QED BY <1>1, <2>2, <2>3, Inside
    <2>5. IsText(options, i, texts[q])
      <3>1. q \in 1..Len(texts)
        BY <1>4, <2>1
      <3>2. IsText(options, (n + q) - tp, texts[q])
        BY <1>3, <3>1 DEF LinesLeft
      <3> QED BY <2>1, <3>2
    <2> DEFINE p == Pad(options)
               d == c - x
    <2>6. Len(texts[q]) = p + lw /\ texts[q][p + j] = <<"logo", round, i>>
      BY <2>5 DEF IsText
    <2>7. p \in Nat
      BY FitsFields DEF Screen, Pad
    <2>8. d = p + j /\ d \in 1..p + lw
      <3>1. x + p = ox
        BY <1>4
      <3> HIDE DEF c, ox, p, lw, C
      <3> QED BY <1>1, <1>4, <2>2, <2>4, <2>7, <3>1
    <2>9. S[r][c] = IF d \in 1..Len(texts[q]) THEN texts[q][d] ELSE t.screen[r][c]
      <3>1. q \in 1..Len(texts)
        BY <1>4, <2>1
      <3> HIDE DEF c, H
      <3> QED BY <1>2, <1>4, <2>1, <2>4, <3>1 DEF ArePut
    <2> HIDE DEF S, r, c, q, d, p
    <2>10. S[r][c] = <<"logo", drawn, i>>
      BY <2>6, <2>8, <2>9 DEF Cached
    <2> QED BY <2>10 DEF r, c
  <1> QED BY <1>5, <1>6

(* So at the end of a round all of it is there, ...                             *)
Whole(s) == KeysOn(s) /\ ShellOn(s, Top) /\ (Unseen(round) \/ (Aside /\ Above(Top) /\ LogoOn(s)))
LEMMA RemainingWhole ==
  ASSUME EndsInv, CellsInv, at = "keys", excuse = "none"
  PROVE  /\ Whole(Remaining(Flushed).screen)
         /\ KeysOn(Flushed.screen) /\ ShellOn(Flushed.screen, Top)
  <1> DEFINE t == Flushed
             u == Remaining(t)
             m == Len(shown)
             T == Top
             H == Here
  <1>1. Screen /\ Printing /\ Standing /\ KeysCells
    BY DEF EndsInv, AtKeys, CellsInv, CellsAtKeys, Alive
  <1>2. KeysOn(t.screen) /\ ShellOn(t.screen, T) /\ Shown(t.screen) /\ Ready(t)
    BY <1>1, FlushedCells
  <1>3. T \in Nat /\ m \in Nat /\ H = T + m /\ \A i \in 1..m : shown[i][1] = T + i - 1
    BY <1>1, HereIs
  <1>4. cache # <<>> => Aside /\ Cached
    BY <1>2 DEF Shown
  <1>5. /\ \A r \in Nat : r < H => u.screen[r] = t.screen[r]
        /\ Unsoiled(t.screen, u.screen)
        /\ cache = <<>> => u.screen = t.screen
    BY <1>1, <1>2, <1>4, RemainingKeeps
  <1>6. cache # <<>> => LogoOn(u.screen)
    BY <1>1, <1>2, RemainingLogo DEF Shown
  <1> HIDE DEF u, t
  <1>7. KeysOn(u.screen)
    <2> SUFFICES ASSUME NEW i \in 1..m PROVE KeyAt(u.screen, i, shown[i][1], shown[i][2], shown[i][3])
      BY DEF KeysOn
    <2> DEFINE r == shown[i][1]
    <2>1. KeyAt(t.screen, i, r, shown[i][2], shown[i][3])
      BY <1>2 DEF KeysOn
    <2>2. r = T + i - 1
      BY <1>3
    <2> HIDE DEF r
    <2>3. r \in Nat /\ r < H
      <3>1. i \in 1..m
        OBVIOUS
      <3> HIDE DEF T, H, m
      <3> QED BY <1>3, <2>2, <3>1
    <2>4. KeyAt(u.screen, i, r, shown[i][2], shown[i][3])
      BY <1>5, <2>1, <2>3 DEF KeyAt
    <2> QED BY <2>4 DEF r
  <1>8. ShellOn(u.screen, T)
    <2>1. CASE NoShell(t.screen)
      BY <1>5, <2>1 DEF NoShell, ShellOn, Unsoiled
    <2>2. CASE AllShell(t.screen) /\ T >= 1
      <3>1. 0 \in Nat /\ 0 < H
        <4> HIDE DEF T, H, m
        <4> QED BY <1>3, <2>2
      <3> QED BY <1>5, <2>2, <3>1 DEF AllShell, ShellOn
    <2> QED BY <1>2, <2>1, <2>2 DEF ShellOn
  <1>9. Unseen(round) \/ (Aside /\ Above(T) /\ LogoOn(u.screen))
    <2>1. CASE cache # <<>>
      <3>1. Above(T)
        BY <1>4, <2>1 DEF Above, Cached
      <3> QED BY <1>4, <1>6, <2>1, <3>1
    <2>2. CASE cache = <<>>
      BY <1>2, <1>5, <2>2 DEF Shown
    <2> QED BY <2>1, <2>2
  <1> QED BY <1>2, <1>7, <1>8, <1>9 DEF Whole, t, u

(* ... which is what is to be said of it.                                       *)
Together(s) ==
  /\ Unseen(round) \/ LogoOn(s) \/ ~options.printRemaining
  /\ ShellOn(s, 1) /\ KeysOn(s)
  /\ \E y \in Nat : \A i \in 1..Len(shown) : shown[i][1] = y + i - 1
LEMMA TogetherIs ==
  ASSUME Listed(shown), excuse = "none" => Together(screen)
  PROVE  KeysBesideLogo
  <1> SUFFICES ASSUME Together(screen)
      PROVE  /\ \/ drawn = 0 \/ LogoStands \/ ~options.printRemaining
                \/ HeightForgotten \/ (Static /\ options.position = "top" /\ round > 1)
             /\ ShellStands
             /\ \A i \in 1..Len(shown) :
                  LET row == shown[i][1]  column == shown[i][2]  width == shown[i][3]
                  IN /\ row = shown[1][1] + i - 1
                     /\ column = shown[Len(shown)][2] \/ (InLastRow /\ i = 1)
                     /\ \A c \in 1..width : screen[row][column + c] = <<"key", round, i>>
                     /\ options.watch /\ options.position = "left" =>
                          \A c \in column + width + 1..Columns : screen[row][c] = Blank
    BY DEF KeysBesideLogo
  <1>1. \/ drawn = 0 \/ LogoStands \/ ~options.printRemaining
        \/ HeightForgotten \/ (Static /\ options.position = "top" /\ round > 1)
    BY DEF Together, Unseen, LogoOn, LogoAt, LogoStands
  <1>2. ShellStands
    BY DEF Together, ShellOn, NoShell, AllShell, ShellStands
  <1> DEFINE m == Len(shown)
  <1>3. ASSUME NEW i \in 1..m
        PROVE  /\ shown[i][1] = shown[1][1] + i - 1
               /\ shown[i][2] = shown[m][2] \/ (InLastRow /\ i = 1)
               /\ \A c \in 1..shown[i][3] : screen[shown[i][1]][shown[i][2] + c] = <<"key", round, i>>
               /\ options.watch /\ options.position = "left" =>
                    \A c \in shown[i][2] + shown[i][3] + 1..Columns : screen[shown[i][1]][c] = Blank
    <2>1. m \in Nat /\ i \in 1..m
      BY DEF Listed
    <2>2. PICK y \in Nat : \A k \in 1..m : shown[k][1] = y + k - 1
      BY DEF Together
    <2> HIDE DEF m
    <2>3. 1 \in 1..m /\ m \in 1..m
      BY <2>1
    <2>4. KeyAt(screen, i, shown[i][1], shown[i][2], shown[i][3]) /\ KeyAt(screen, m, shown[m][1], shown[m][2], shown[m][3])
      BY <2>3 DEF Together, KeysOn, m
    <2>5. shown[i][1] = shown[1][1] + i - 1
      <3>1. shown[i][1] = y + i - 1 /\ shown[1][1] = y + 1 - 1
        BY <2>2, <2>3
      <3>2. y + 1 - 1 = y
        BY <2>2
      <3> QED BY <3>1, <3>2
    <2>6. shown[i][2] = shown[m][2] \/ (InLastRow /\ i = 1)
      <3>1. m = 1 => i = m
        BY <2>1
      <3> QED BY <2>4, <3>1 DEF KeyAt
    <2> QED BY <2>4, <2>5, <2>6 DEF KeyAt
  <1> QED BY <1>1, <1>2, <1>3

LEMMA TogetherNext == (Listed(shown) /\ (excuse = "none" => Together(screen)))' => KeysBesideLogo'
  <1>1. Listed(shown) /\ (excuse = "none" => Together(screen)) => KeysBesideLogo
    BY TogetherIs
  <1> QED BY <1>1, PTL
LEMMA AwayFromKeys == ASSUME at' \notin {"asleep", "end"} PROVE KeysBesideLogo'
  BY DEF KeysBesideLogo

LEMMA FinishCells ==
  ASSUME EndsInv, CellsInv, Finish
  PROVE  CellsInv' /\ KeysBesideLogo'
  <1>1. /\ at = "keys" /\ at' = "end" /\ ~options.watch
        /\ options.printRemaining => Prints(Remaining(Flushed))
        /\ ~options.printRemaining => Prints(Flushed)
        /\ UNCHANGED <<options, logoWidth, logoHeight, round, drawn, origin, excuse, shown>>
    BY DEF Finish
  <1>2. CellsInv'
    BY <1>1 DEF CellsInv, Alive
  <1>3. Listed(shown')
    BY <1>1 DEF EndsInv, AtKeys, Alive, Printing
  <1>4. ASSUME excuse' = "none" PROVE Together(screen)'
    <2> DEFINE u == Remaining(Flushed)
               t == Flushed
               S == screen'
               T == Top
    <2>1. Whole(u.screen) /\ KeysOn(t.screen) /\ ShellOn(t.screen, T)
      BY <1>1, <1>4, RemainingWhole
    <2>2. T \in Nat /\ \A i \in 1..Len(shown) : shown[i][1] = T + i - 1
      BY <1>1, <1>4, HereIs DEF EndsInv, AtKeys, Alive
    <2> HIDE DEF u, t, T
    <2>3. S = IF options.printRemaining THEN u.screen ELSE t.screen
      BY <1>1 DEF Prints, Shows, u, t
    <2>4. KeysOn(S) /\ ShellOn(S, T) /\ (Unseen(round) \/ LogoOn(S) \/ ~options.printRemaining)
      BY <2>1, <2>3 DEF Whole, T
    <2>5. KeysOn(screen)'
      <3>1. \A i, r, c, w : KeyAt(S, i, r, c, w) => KeyAt(screen, i, r, c, w)'
        BY <1>1 DEF KeyAt, InLastRow
      <3> HIDE DEF S
      <3> QED BY <1>1, <2>4, <3>1 DEF KeysOn
    <2>6. ShellOn(screen, 1)'
      <3>1. ShellOn(S, 1)
        BY <2>4 DEF ShellOn
      <3> QED BY <1>1, <3>1 DEF ShellOn, NoShell, AllShell, OneRow
    <2>7. (Unseen(round) \/ LogoOn(screen) \/ ~options.printRemaining)'
      BY <1>1, <2>4 DEF Unseen, LogoOn, LogoAt, HeightForgotten, Static
    <2>8. \E y \in Nat : \A i \in 1..Len(shown') : shown'[i][1] = y + i - 1
      BY <1>1, <2>2
    <2> QED BY <2>5, <2>6, <2>7, <2>8 DEF Together
  <1> QED BY <1>2, <1>3, <1>4, TogetherNext

LEMMA EndRoundCells ==
  ASSUME EndsInv, CellsInv, EndRound
  PROVE  CellsInv' /\ KeysBesideLogo'
  <1> DEFINE t == Remaining(Flushed)
             u == ClearBelow(t)
             S == screen'
             T == Top
             m == Len(shown)
             g == logoHeight
             l == Len(options.lines)
             oy == origin[1]
             R == Rows
  <1>1. /\ at = "keys" /\ at' = "asleep" /\ options.watch /\ Prints(u)
        /\ UNCHANGED <<options, logoWidth, logoHeight, round, drawn, origin, excuse, shown>>
    BY DEF EndRound
  <1>2. Screen /\ Printing /\ (excuse = "none" => Standing)
    BY <1>1 DEF EndsInv, Alive, AtKeys
  <1>3. ASSUME excuse = "none"
        PROVE  /\ KeysStart /\ KeysOn(S) /\ (Unseen(round) \/ (Aside /\ LogoOn(S)))
               /\ T \in Nat /\ \A i \in 1..m : shown[i][1] = T + i - 1
    <2>1. KeysStart /\ Whole(t.screen)
      BY <1>1, <1>3, RemainingWhole DEF CellsInv, CellsAtKeys, KeysCells, Alive
    <2>2. /\ T \in Nat /\ m \in Nat /\ g \in Nat /\ \A i \in 1..m : shown[i][1] = T + i - 1
          /\ l \in Nat /\ oy \in Nat /\ R \in Nat
      BY <1>2, <1>3, HereIs, FitsFields, LogoAssumption DEF Screen
    <2>3. IsTerminal(t) /\ t.row \in Nat /\ t.row < R /\ T + m <= t.row /\ T + g + 1 <= t.row
      BY <1>1, <1>2, <1>3, RemainingStays, RemainingUnder DEF Under
    <2> HIDE DEF t
    <2>4. S = u.screen
      BY <1>1 DEF Prints, Shows
    <2> HIDE DEF u, S
    <2>5. t.row \in 0..R - 1
      <3> DEFINE y == t.row
      <3>1. y \in Nat /\ y < R
        BY <2>3
      <3> HIDE DEF y, R
      <3>2. y \in 0..R - 1
        BY <2>2, <3>1
      <3> QED BY <3>2 DEF y
    <2>6. ASSUME NEW r \in Nat, r < t.row PROVE S[r] = t.screen[r]
      <3>1. r \in 0..R - 1
        <4> DEFINE y == t.row
        <4>1. y \in Nat /\ y < R /\ r < y
          BY <2>3, <2>6
        <4> HIDE DEF y, R
        <4> QED BY <2>2, <4>1
      <3> QED BY <2>3, <2>4, <2>5, <2>6, <3>1, ClearBelowKeeps DEF u
    <2>7. KeysOn(S)
      <3> SUFFICES ASSUME NEW i \in 1..m PROVE KeyAt(S, i, shown[i][1], shown[i][2], shown[i][3])
        BY DEF KeysOn
      <3> DEFINE r == shown[i][1]
                 y == t.row
      <3>1. KeyAt(t.screen, i, r, shown[i][2], shown[i][3])
        BY <2>1 DEF Whole, KeysOn
      <3>2. r = T + i - 1 /\ i \in 1..m /\ T + m <= y /\ y \in Nat
        BY <2>2, <2>3
      <3> HIDE DEF r, y
      <3>3. r \in Nat /\ r < y
        <4> HIDE DEF T, m
        <4> QED BY <2>2, <3>2
      <3>4. KeyAt(S, i, r, shown[i][2], shown[i][3])
        BY <2>6, <3>1, <3>3 DEF KeyAt, y
      <3> QED BY <3>4 DEF r
    <2>8. ASSUME Aside, Above(T), LogoOn(t.screen) PROVE LogoOn(S)
      <3>1. oy + l <= t.row
        <4> DEFINE y == t.row
        <4>1. T + m <= y /\ T + g + 1 <= y /\ y \in Nat
          BY <2>3
        <4>2. options.position # "top" => oy + l <= g + 1
          BY <1>1, <2>8 DEF Aside, AsideAt
        <4>3. options.position = "top" => oy + l <= T \/ oy + l = T + 1
          BY <2>8 DEF Above
        <4> HIDE DEF T, m, g, l, oy, R, y
        <4>4. oy + l <= y
          BY <2>2, <4>1, <4>2, <4>3
        <4> QED BY <4>4 DEF y
      <3> SUFFICES ASSUME NEW i \in 1..l, NEW j \in 1..options.lines[i]
                   PROVE  S[oy + i - 1][origin[2] + j] = <<"logo", drawn, i>>
        BY Zenon DEF LogoOn, LogoAt
      <3> DEFINE r == oy + i - 1
                 c == origin[2] + j
                 y == t.row
      <3>2. t.screen[r][c] = <<"logo", drawn, i>>
        BY <2>8 DEF LogoOn, LogoAt
      <3>3. oy + l <= y /\ y \in Nat /\ i \in 1..l
        BY <2>3, <3>1
      <3> HIDE DEF y, l, oy, c
      <3>4. r \in Nat /\ r < y
        BY <2>2, <3>3
      <3> HIDE DEF r
      <3>5. S[r] = t.screen[r]
        BY <2>6, <3>4 DEF y
      <3>6. S[r][c] = <<"logo", drawn, i>>
        BY <3>2, <3>5
      <3> QED BY <3>6 DEF r, c
    <2> QED BY <2>1, <2>2, <2>7, <2>8 DEF Whole, S
  <1>4. KeysStart => KeysStart'
    BY <1>1 DEF KeysStart, StartAt
  <1>5. Aside /\ LogoOn(S) => (Aside /\ LogoOn(screen))'
    BY <1>1 DEF Aside, AsideAt, LogoOn, LogoAt
  <1>6. Unseen(round) => drawn' = 0 \/ HeightForgotten' \/ options'.position = "top"
    BY <1>1 DEF Unseen, HeightForgotten
  <1>7. CellsInv'
    BY <1>1, <1>3, <1>4, <1>5, <1>6 DEF CellsInv, CellsAtKeys, CellsAtSleep, CellsAtLogo, CellsAtCursor
  <1>8. KeysBesideLogo'
    <2>1. Listed(shown')
      BY <1>1, <1>2 DEF Printing
    <2>2. ASSUME excuse' = "none" PROVE Together(screen)'
      <3>1. excuse = "none"
        BY <1>1, <2>2
      <3>2. KeysOn(S) /\ T \in Nat /\ \A i \in 1..m : shown[i][1] = T + i - 1
        BY <1>3, <3>1
      <3>3. KeysOn(screen)'
        <4>1. \A i, r, c, w : KeyAt(S, i, r, c, w) => KeyAt(screen, i, r, c, w)'
          BY <1>1 DEF KeyAt, InLastRow
        <4> HIDE DEF S
        <4> QED BY <1>1, <3>2, <4>1 DEF KeysOn
      <3>4. (Unseen(round) \/ LogoOn(screen))'
        BY <1>1, <1>3, <1>5, <3>1 DEF Unseen, HeightForgotten, Static
      <3>5. ShellOn(screen, 1)'
        BY <1>1 DEF ShellOn
      <3>6. \E y \in Nat : \A i \in 1..Len(shown') : shown'[i][1] = y + i - 1
        <4> HIDE DEF T
        <4> QED BY <1>1, <3>2
      <3> QED BY <3>3, <3>4, <3>5, <3>6 DEF Together
    <2> QED BY <2>1, <2>2, TogetherNext
  <1> QED BY <1>7, <1>8

(* What it does not depend on may change: questions, ...                        *)
CellsSame ==
  UNCHANGED <<options, cache, nextLine, rightOffset, logoWidth, logoHeight, screen, cursor, buffered, round, drawn,
              origin, excuse, shown>>
LEMMA KeysSame ==
  ASSUME CellsSame, KeysCells
  PROVE  KeysCells'
  <1>1. UNCHANGED <<options, cache, nextLine, rightOffset, logoWidth, logoHeight, screen, cursor, buffered, round,
                    drawn, origin, excuse, shown>>
    BY DEF CellsSame
  <1>2. KeysStart' /\ (Aside => Aside') /\ Top' = Top
    BY <1>1 DEF KeysCells, KeysStart, StartAt, Aside, AsideAt, Top, Here
  <1>3. KeysOn(screen)'
    <2> DEFINE S == screen
    <2>1. \A i, r, c, w : KeyAt(S, i, r, c, w) => KeyAt(screen, i, r, c, w)'
      BY <1>1 DEF KeyAt, InLastRow
    <2>2. \A i \in 1..Len(shown) : KeyAt(S, i, shown[i][1], shown[i][2], shown[i][3])
      BY DEF KeysCells, KeysOn
    <2> HIDE DEF S
    <2> QED BY <1>1, <2>1, <2>2 DEF KeysOn
  <1>4. ShellOn(screen, Top)'
    BY <1>1, <1>2 DEF KeysCells, ShellOn, NoShell, AllShell, OneRow
  <1>5. Place' /\ Spaced'
    BY <1>1 DEF KeysCells, Place, Spaced, InLastRow, NoShell
  <1>6. Shown(screen)'
    <2>1. CASE cache # <<>>
      <3>1. Cached'
        BY <1>1, <1>2, <2>1, LinesSame DEF KeysCells, Shown, Cached, OriginOf
      <3>2. CachedOn(screen, nextLine)'
        BY <1>1, <2>1 DEF KeysCells, Shown, CachedOn
      <3> QED BY <1>1, <1>2, <2>1, <3>1, <3>2 DEF KeysCells, Shown
    <2>2. CASE cache = <<>> /\ Unseen(round)
      BY <1>1, <2>2 DEF Shown, Unseen, HeightForgotten, Static
    <2>3. CASE cache = <<>> /\ Aside /\ Above(Top) /\ LogoOn(screen)
      <3>1. LogoOn(screen)'
        BY <1>1, <2>3 DEF LogoOn, LogoAt
      <3>2. Above(Top)'
        BY <1>1, <1>2, <2>3 DEF Above, InLastRow
      <3> QED BY <1>1, <1>2, <2>3, <3>1, <3>2 DEF Shown
    <2> QED BY <2>1, <2>2, <2>3 DEF KeysCells, Shown
  <1> QED BY <1>2, <1>3, <1>4, <1>5, <1>6 DEF KeysCells

LEMMA AskCells ==
  ASSUME CellsInv, AskSize \/ SizeDetected
  PROVE  CellsInv' /\ KeysBesideLogo'
  <1>1. at \in {"keys", "asking"} /\ at' \in {"keys", "asking"} /\ CellsSame
    BY DEF AskSize, SizeDetected, CellsSame
  <1>2. CellsAtKeys'
    <2> SUFFICES ASSUME excuse' = "none" PROVE KeysCells'
      BY DEF CellsAtKeys
    <2>1. KeysCells
      BY <1>1 DEF CellsInv, CellsAtKeys, Alive, CellsSame
    <2> QED BY <1>1, <2>1, KeysSame
  <1> QED BY <1>1, <1>2, AwayFromKeys DEF CellsInv, CellsAtSleep, CellsAtLogo, CellsAtCursor

(* ... a signal, another size of the terminal, its answers and the user.        *)
LEMMA SameCells ==
  ASSUME CellsInv, KeysBesideLogo, CellsSame, at' = at
  PROVE  CellsInv' /\ KeysBesideLogo'
  <1>1. UNCHANGED <<at, options, cache, nextLine, rightOffset, logoWidth, logoHeight, screen, cursor, buffered, round,
                    drawn, origin, excuse, shown>>
    BY DEF CellsSame
  <1>2. KeysBesideLogo'
    BY <1>1 DEF KeysBesideLogo, LogoStands, HeightForgotten, Static, ShellStands, OneRow, InLastRow
  <1>3. CellsInv'
    <2> SUFFICES ASSUME Alive PROVE CellsAtKeys' /\ CellsAtSleep' /\ CellsAtLogo' /\ CellsAtCursor'
      BY <1>1 DEF CellsInv, Alive
    <2>1. CellsAtKeys /\ CellsAtSleep /\ CellsAtLogo /\ CellsAtCursor
      BY DEF CellsInv
    <2>2. CellsAtKeys'
      BY <1>1, <2>1, KeysSame DEF CellsAtKeys
    <2>3. CellsAtSleep'
      <3>1. KeysStart => KeysStart'
        BY <1>1 DEF KeysStart, StartAt
      <3>2. Aside /\ LogoOn(screen) => (Aside /\ LogoOn(screen))'
        BY <1>1 DEF Aside, AsideAt, LogoOn, LogoAt
      <3>3. HeightForgotten => HeightForgotten'
        BY <1>1 DEF HeightForgotten
      <3> QED BY <1>1, <2>1, <3>1, <3>2, <3>3 DEF CellsAtSleep
    <2>4. CellsAtLogo'
      BY <1>1, <2>1 DEF CellsAtLogo, AllShell
    <2>5. CellsAtCursor'
      BY <1>1, <2>1 DEF CellsAtCursor, NoShell, LogoOn, LogoAt
    <2> QED BY <2>2, <2>3, <2>4, <2>5
  <1> QED BY <1>2, <1>3

LEMMA OtherCells ==
  ASSUME CellsInv, KeysBesideLogo, Signal \/ Zoom \/ Running \/ TheOtherEnd \/ UNCHANGED vars
  PROVE  CellsInv' /\ KeysBesideLogo'
  <1>1. CASE Signal
    BY <1>1 DEF Signal, CellsInv, Alive, KeysBesideLogo
  <1>2. CASE Zoom
    <2>1. CellsSame /\ at' = at
      BY <1>2 DEF Zoom, CellsSame
    <2> QED BY <2>1, SameCells
  <1>3. CASE Running \/ TheOtherEnd \/ UNCHANGED vars
    <2>1. CellsSame /\ at' = at
      BY <1>3 DEF Running, Asking, TheOtherEnd, vars, svars, CellsSame
    <2> QED BY <2>1, SameCells
  <1> QED BY <1>1, <1>2, <1>3

(* At first nothing is drawn, and the shell's line is on the screen.            *)
LEMMA InitCells == Init => CellsInv /\ KeysBesideLogo
  <1> SUFFICES ASSUME Init PROVE CellsInv /\ KeysBesideLogo
    OBVIOUS
  <1>1. at = "logo"
    BY DEF Init
  <1>2. CellsAtLogo
    <2> SUFFICES ASSUME ~options.watch PROVE AllShell(screen)
      BY DEF CellsAtLogo
    <2> DEFINE line == Cells(Columns, Shell)
    <2>1. \A c \in 1..Columns : line[c] = Shell
      BY DEF Cells
    <2>2. 0 \in 0..Rows - 1
      <3> DEFINE R == Rows
      <3>1. R \in Nat /\ R > 0
        BY LogoAssumption
      <3> HIDE DEF R
      <3>2. 0 \in 0..R - 1
        BY <3>1
      <3> QED BY <3>2 DEF R
    <2>3. DOMAIN Empty = 0..Rows - 1
      BY DEF Empty
    <2>4. screen = [Empty EXCEPT ![0] = line]
      BY DEF Init
    <2> HIDE DEF line
    <2>5. screen[0] = line
      BY <2>2, <2>3, <2>4
    <2> QED BY <2>1, <2>5 DEF AllShell
  <1> QED BY <1>1, <1>2 DEF CellsInv, CellsAtKeys, CellsAtSleep, CellsAtCursor, KeysBesideLogo

(* The next round begins with what the last one left.                           *)
LEMMA RefreshCells ==
  ASSUME EndsInv, CellsInv, Refresh
  PROVE  CellsInv' /\ KeysBesideLogo'
  <1>1. /\ at = "asleep" /\ round' = round + 1 /\ buffered' = Append(buffered, "home") /\ shown' = <<>>
        /\ at' = (IF options.type = "spin" /\ drawn # 0 /\ options.turns THEN "logo" ELSE "keys")
        /\ UNCHANGED <<options, cache, nextLine, rightOffset, logoWidth, logoHeight, screen, cursor, drawn, origin,
                       excuse>>
    BY DEF Refresh
  <1>2. cache = <<>> /\ nextLine = 0 /\ buffered = <<>> /\ options.watch /\ round \in Nat \ {0}
    BY <1>1 DEF EndsInv, Alive, AtSleep, Screen
  <1>3. buffered' = <<"home">>
    BY <1>1, <1>2
  <1>4. CASE at' = "logo"
    BY <1>1, <1>2, <1>4, AwayFromKeys DEF CellsInv, CellsAtKeys, CellsAtSleep, CellsAtLogo, CellsAtCursor
  <1>5. CASE at' = "keys"
    <2> SUFFICES ASSUME excuse = "none" PROVE KeysCells'
      BY <1>1, <1>5, AwayFromKeys DEF CellsInv, CellsAtKeys, CellsAtSleep, CellsAtLogo, CellsAtCursor
    <2>1. KeysStart /\ (drawn = 0 \/ HeightForgotten \/ options.position = "top" \/ (Aside /\ LogoOn(screen)))
      BY <1>1 DEF CellsInv, CellsAtSleep, Alive
    <2>2. KeysStart'
      BY <1>1, <2>1 DEF KeysStart, StartAt
    <2>3. KeysOn(screen)'
      <3>1. \A i \in 1..Len(shown') : FALSE
        <4>1. Len(shown') = 0
          BY <1>1
        <4> QED BY <4>1
      <3> QED BY <3>1 DEF KeysOn
    <2>4. ShellOn(screen, Top)'
      BY <1>1, <1>2 DEF ShellOn
    <2>5. Place' /\ Spaced'
      BY <1>3, HeldIs DEF Place, Spaced
    <2>6. Shown(screen)'
      <3>1. CASE drawn = 0 \/ HeightForgotten
        BY <1>1, <1>2, <3>1 DEF Shown, Unseen, HeightForgotten
      <3>2. CASE drawn # 0 /\ options.position = "top"
        <4>1. Static
          BY <1>1, <1>5, <3>2 DEF Static
        <4>2. round' > 1
          <5> DEFINE n == round
                     k == round'
          <5>1. n \in Nat \ {0} /\ k = n + 1
            BY <1>1, <1>2
          <5> HIDE DEF n, k
          <5>2. k > 1
            BY <5>1
          <5> QED BY <5>2 DEF k
        <4> QED BY <1>1, <1>2, <3>2, <4>1, <4>2 DEF Shown, Unseen, Static
      <3>3. CASE options.position # "top" /\ Aside /\ LogoOn(screen)
        <4>1. Aside' /\ LogoOn(screen)'
          BY <1>1, <3>3 DEF Aside, AsideAt, LogoOn, LogoAt
        <4>2. Above(Top)'
          BY <1>1, <3>3 DEF Above
        <4> QED BY <1>1, <1>2, <4>1, <4>2 DEF Shown
      <3> QED BY <2>1, <3>1, <3>2, <3>3
    <2> QED BY <2>2, <2>3, <2>4, <2>5, <2>6 DEF KeysCells
  <1> QED BY <1>1, <1>4, <1>5

(* A logo is as wide as its widest line or the width it was given, and there is *)
(* room for a key beside it.                                                    *)
Across(o, w) == \A key \in KeyWidths \union {1} : w + key < Columns
LEMMA AcrossIs ==
  ASSUME NEW o, Fits(o), NEW w \in Widths(o)
  PROVE  w \in Nat /\ \A key \in KeyWidths \union {1} : o.left + w + o.right + key < Columns
  <1>1. \A key \in KeyWidths \union {1} : o.left + w + o.right + key < Columns
    BY DEF Fits, FitsAcross
  <1>2. /\ o.width \in Nat /\ o.lines \in Seq(Nat) /\ o.detected \in Seq(Nat) /\ o.frames \subseteq Seq(Nat)
        /\ o.mistaken \subseteq Nat \X Nat
    BY FitsFields
  <1>3. \A s \in Seq(Nat) : \A i \in 1..Len(s) : s[i] \in Nat
    OBVIOUS
  <1>4. \A cells \in o.mistaken : cells[1] \in Nat
    BY <1>2
  <1>5. w \in Nat
    BY <1>2, <1>3, <1>4, WidthsAre
  <1> QED BY <1>1, <1>5

AsWide(o, w) ==
  /\ w \in Nat /\ w + o.right \in Nat /\ Across(o, w + o.right)
  /\ o.position = "right" => \A key \in KeyWidths \union {1} : o.left + w + o.right + key < Columns
  /\ \A i \in 1..Len(o.lines) : Pad(o) + o.lines[i] <= w
LEMMA MaxWidthIs ==
  ASSUME NEW o, Fits(o)
  PROVE  AsWide(o, MaxWidth(o))
  <1> DEFINE n == Len(o.lines)
             p == Pad(o)
             lines == o.lines
             s == [i \in 1..n + 1 |-> IF i <= n THEN lines[i] + p ELSE o.width]
             S == {s[i] : i \in 1..Len(s)}
             M == MaxWidth(o)
             L == o.left
             g == o.right
             C == Columns
  <1>1. n \in Nat /\ L \in Nat /\ g \in Nat /\ o.width \in Nat /\ p \in Nat /\ (p = 0 \/ p = L) /\ C \in Nat
        /\ (o.position = "right" => p = 0) /\ lines \in Seq(Nat) /\ KeyWidths \subseteq Nat
    BY FitsFields, LogoAssumption DEF Pad
  <1>2. \A i \in 1..n : lines[i] \in Nat
    BY <1>1
  <1>3. s \in Seq(Nat) /\ Len(s) = n + 1
    <2>1. n + 1 \in Nat /\ \A i \in 1..n + 1 : s[i] \in Nat
      <3> SUFFICES ASSUME NEW i \in 1..n + 1 PROVE n + 1 \in Nat /\ s[i] \in Nat
        BY <1>1
      <3>1. i <= n => i \in 1..n
        BY <1>1
      <3> HIDE DEF n
      <3> QED BY <1>1, <1>2, <3>1
    <2>2. s = [i \in 1..n + 1 |-> s[i]]
      OBVIOUS
    <2> HIDE DEF s, n
    <2>3. Len(s) = n + 1
      BY <2>1, <2>2, ListedIs
    <2>4. s \in [1..n + 1 -> Nat]
      BY <2>1, <2>2
    <2> QED BY <2>1, <2>3, <2>4
  <1>4. M = Most(S)
    <2>1. M = Most({o.width} \union {lines[i] + p : i \in 1..n})
      BY DEF MaxWidth, Pad
    <2>2. {o.width} \union {lines[i] + p : i \in 1..n} = {s[i] : i \in 1..n + 1}
      <3> DEFINE A == {o.width} \union {lines[i] + p : i \in 1..n}
                 B == {s[i] : i \in 1..n + 1}
      <3>1. ASSUME NEW x \in A PROVE x \in B
        <4>1. CASE x = o.width
          <5>1. n + 1 \in 1..n + 1 /\ ~(n + 1 <= n)
            BY <1>1
          <5>2. s[n + 1] = o.width
            BY <5>1
          <5> QED BY <4>1, <5>1, <5>2
        <4>2. CASE \E i \in 1..n : x = lines[i] + p
          <5>1. PICK i \in 1..n : x = lines[i] + p
            BY <4>2
          <5>2. i \in 1..n + 1 /\ i <= n
            BY <1>1
          <5>3. s[i] = lines[i] + p
            BY <5>2
          <5> QED BY <5>1, <5>2, <5>3
        <4> QED BY <3>1, <4>1, <4>2
      <3>2. ASSUME NEW x \in B PROVE x \in A
        <4>1. PICK i \in 1..n + 1 : x = s[i]
          BY <3>2
        <4>2. i <= n => i \in 1..n
          BY <1>1
        <4> QED BY <4>1, <4>2
      <3> QED BY <3>1, <3>2
    <2> HIDE DEF s
    <2> QED BY <1>3, <2>1, <2>2
  <1>5. /\ Most(S) \in Nat
        /\ \E i \in 1..Len(s) : Most(S) = s[i]
        /\ \A i \in 1..Len(s) : s[i] <= Most(S)
    <2> HIDE DEF s
    <2>1. Len(s) > 0
      BY <1>1, <1>3
    <2> QED BY <1>3, <2>1, MostOf
  <1>6. ASSUME NEW i \in 1..n PROVE p + lines[i] <= M
    <2>1. i \in 1..n + 1 /\ i <= n
      BY <1>1
    <2>2. s[i] = lines[i] + p
      BY <2>1
    <2>3. s[i] <= M
      BY <1>3, <1>4, <1>5, <2>1
    <2> HIDE DEF s, M
    <2> QED BY <1>1, <1>2, <2>2, <2>3
  <1>7. \E w \in Widths(o) : M <= p + w
    <2>1. PICK i \in 1..n + 1 : M = s[i]
      BY <1>3, <1>4, <1>5
    <2>2. CASE i <= n
      <3>1. i \in 1..n
        BY <1>1, <2>2
      <3>2. s[i] = lines[i] + p
        BY <2>2
      <3>3. lines[i] \in Widths(o)
        BY <3>1, WidthsAre
      <3> HIDE DEF M, s, n
      <3>4. M <= p + lines[i]
        BY <1>1, <1>2, <2>1, <3>1, <3>2
      <3> QED BY <3>3, <3>4
    <2>3. CASE ~(i <= n)
      <3>1. s[i] = o.width
        BY <2>3
      <3>2. o.width \in Widths(o)
        BY WidthsAre
      <3>3. M <= p + o.width
        <4> HIDE DEF M, s, p
        <4> QED BY <1>1, <2>1, <3>1
      <3> QED BY <3>2, <3>3
    <2> QED BY <2>2, <2>3
  <1>8. PICK w \in Widths(o) : M <= p + w
    BY <1>7
  <1>9. w \in Nat /\ \A key \in KeyWidths \union {1} : L + w + g + key < C
    BY AcrossIs
  <1>10. M \in Nat
    BY <1>4, <1>5
  <1> HIDE DEF M, s, S, n, p, L, g, C
  <1>11. \A key \in KeyWidths \union {1} : (M + g) + key < C
    BY <1>1, <1>8, <1>9, <1>10
  <1>12. o.position = "right" => \A key \in KeyWidths \union {1} : L + M + g + key < C
    <2> SUFFICES ASSUME o.position = "right", NEW key \in KeyWidths \union {1} PROVE L + M + g + key < C
      OBVIOUS
    <2>1. p = 0 /\ M <= p + w /\ L + w + g + key < C /\ key \in Nat
      BY <1>1, <1>8, <1>9
    <2> QED BY <1>1, <1>9, <1>10, <2>1
  <1>13. M + g \in Nat
    BY <1>1, <1>10
  <1> QED BY <1>6, <1>10, <1>11, <1>12, <1>13 DEF AsWide, Across, M, n, p, L, g, C

(* So the lines of the cache have a place beside the keys, ...                  *)
BesideIn(o, p, row) ==
  LET x == OriginOf(p, MaxWidth(o) + o.right - 1)
      w == IF p.position = "left" THEN MaxWidth(o) + o.right ELSE 0
  IN StartAt(p, w) /\ AsideAt(p, row + o.top, x, w, Height(o)) /\ Lines(p) = Lines(o)
LEMMA CharsBeside ==
  ASSUME NEW o, Fits(o), NEW row \in Nat, row <= 1, o.watch => row = 0, NEW p,
         p = [o EXCEPT !.position = Position(o, MaxWidth(o) + o.right)], p.position # "top"
  PROVE  BesideIn(o, p, row)
  <1> DEFINE M == MaxWidth(o)
             g == o.right
             pos == Position(o, M + g)
             x == OriginOf(p, M + g - 1)
             w == IF p.position = "left" THEN M + g ELSE 0
             h == Height(o)
             n == Len(o.lines)
             L == o.left
             tp == o.top
             C == Columns
             R == Rows
             y == row + tp
             q == Most({M + g - 1, 1})
  <1>1. /\ M \in Nat /\ M + g \in Nat /\ \A key \in KeyWidths \union {1} : (M + g) + key < C
        /\ o.position = "right" => \A key \in KeyWidths \union {1} : L + M + g + key < C
        /\ \A i \in 1..n : Pad(o) + o.lines[i] <= M
    BY MaxWidthIs DEF AsWide, Across
  <1>2. /\ n \in Nat /\ L \in Nat /\ g \in Nat /\ tp \in Nat /\ C \in Nat /\ R \in Nat /\ KeyWidths \subseteq Nat
        /\ h \in Nat /\ tp + n <= h + 1 /\ h + o.bottom + o.keys + 4 <= R /\ o.bottom \in Nat /\ o.keys \in Nat
        /\ \A i \in 1..n : o.lines[i] \in Nat
    <2>1. h \in Nat /\ tp + n <= h + 1 /\ h + o.bottom + o.keys + 4 <= R
      BY HeightIs
    <2>2. o.lines \in Seq(Nat) /\ n \in Nat /\ L \in Nat /\ g \in Nat /\ tp \in Nat /\ o.bottom \in Nat /\ o.keys \in Nat
      BY FitsFields
    <2>3. \A i \in 1..n : o.lines[i] \in Nat
      BY <2>2
    <2> HIDE DEF h
    <2> QED BY <2>1, <2>2, <2>3, LogoAssumption
  <1>3. pos \in {"left", "right", "top"} /\ (pos = "right" <=> o.position = "right")
    <2>1. pos \in {"left", "right", "top"}
      BY PositionIs
    <2>2. pos = "right" <=> o.position = "right"
      BY DEF Position
    <2> QED BY <2>1, <2>2
  <1>4. p.position = pos /\ p.lines = o.lines /\ p.top = tp /\ p.left = L /\ p.type = o.type /\ p.height = o.height
        /\ p.watch = o.watch
    BY <1>3, FitsPlaced
  <1> HIDE DEF pos
  <1>5. pos \in {"left", "right"} /\ (pos = "right" => Pad(o) = 0) /\ (pos = "left" => Pad(o) = L)
    BY <1>3, <1>4 DEF Pad
  <1>6. Lines(p) = Lines(o)
    <2>1. Height(p) = h
      BY <1>4 DEF Height
    <2>2. \A i : LogoText(p, i) = LogoText(o, i)
      BY <1>3, <1>4 DEF LogoText
    <2> QED BY <1>4, <2>1, <2>2 DEF Lines
  <1>7. StartAt(p, w)
    <2>1. CASE pos = "left"
      BY <1>1, <1>4, <2>1 DEF StartAt
    <2>2. CASE pos = "right"
      <3>1. \A key \in KeyWidths \union {1} : 0 + key < C
        <4> SUFFICES ASSUME NEW key \in KeyWidths \union {1} PROVE 0 + key < C
          OBVIOUS
        <4>1. (M + g) + key < C /\ key \in Nat
          <5>1. (M + g) + key < C
            <6> HIDE DEF M, g, C
            <6> QED BY <1>1
          <5>2. key \in Nat
            <6> HIDE DEF M, g, C
            <6> QED BY <1>2
          <5> QED BY <5>1, <5>2
        <4> HIDE DEF M, g, C
        <4> QED BY <1>1, <1>2, <4>1
      <3> QED BY <1>4, <2>2, <3>1 DEF StartAt
    <2> QED BY <1>5, <2>1, <2>2
  <1>8. y + n <= R /\ (o.watch => y + n <= h + 1)
    <2> HIDE DEF n, tp, h, R
    <2> QED BY <1>2
  <1>9. CASE pos = "left"
    <2>1. x = L /\ w = M + g
      BY <1>4, <1>9 DEF OriginOf
    <2>2. ASSUME NEW i \in 1..n PROVE x + o.lines[i] <= C /\ x + o.lines[i] <= w
      <3> DEFINE lw == o.lines[i]
      <3>1. L + lw <= M /\ lw \in Nat /\ (M + g) + 1 < C
        BY <1>1, <1>2, <1>5, <1>9
      <3>2. M \in Nat /\ g \in Nat /\ C \in Nat /\ L \in Nat
        BY <1>1, <1>2
      <3> HIDE DEF M, g, L, C, w, x, lw
      <3>3. x + lw <= C /\ x + lw <= w
        BY <2>1, <3>1, <3>2
      <3> QED BY <3>3 DEF lw
    <2>3. AsideAt(p, y, x, w, h)
      BY <1>2, <1>4, <1>8, <1>9, <2>1, <2>2 DEF AsideAt
    <2> QED BY <1>6, <1>7, <2>3 DEF BesideIn
  <1>10. CASE pos = "right"
    <2>1. x = Minus(C - 1, q)
      BY <1>4, <1>10 DEF OriginOf
    <2>2. q = IF M + g - 1 > 1 THEN M + g - 1 ELSE 1
      <3>1. M + g - 1 \in Int
        <4> HIDE DEF M, g
        <4> QED BY <1>1, <1>2
      <3> QED BY <3>1, MostIs
    <2>3. \A key \in KeyWidths \union {1} : L + M + g + key < C /\ key \in Nat
      BY <1>1, <1>2, <1>3, <1>10
    <2>4. L + M + g + 1 < C
      BY <2>3
    <2> HIDE DEF x, q, M, g, L, C
    <2>5. x \in Nat /\ (x + M <= C \/ x + M + g = C) /\ (x = C - 2 \/ x + M + g = C)
      <3>1. M \in Nat /\ g \in Nat /\ L \in Nat /\ C \in Nat
        BY <1>1, <1>2
      <3>2. q = (IF M + g > 2 THEN (M + g) - 1 ELSE 1)
        BY <2>2, <3>1
      <3>3. q \in Nat /\ (q <= M + g \/ q = 1)
        BY <3>1, <3>2
      <3>4. x = (C - 1) - q
        BY <2>1, <2>4, <3>1, <3>2 DEF Minus
      <3> QED BY <2>4, <3>1, <3>2, <3>4
    <2>6. ASSUME NEW i \in 1..n PROVE x + o.lines[i] <= C
      <3> DEFINE lw == o.lines[i]
      <3>1. 0 + lw <= M /\ lw \in Nat
        BY <1>1, <1>2, <1>5, <1>10
      <3>2. M \in Nat /\ g \in Nat /\ C \in Nat
        BY <1>1, <1>2
      <3> HIDE DEF lw
      <3>3. x + lw <= C
        BY <2>5, <3>1, <3>2
      <3> QED BY <3>3 DEF lw
    <2>7. ASSUME NEW key \in KeyWidths PROVE key <= x
      <3>1. L + M + g + key < C /\ key \in Nat
        BY <2>3
      <3>2. M \in Nat /\ g \in Nat /\ C \in Nat /\ L \in Nat
        BY <1>1, <1>2
      <3>3. L + 1 + g + key < C
        <4>1. 1 \in Widths(o)
          BY WidthsAre
        <4>2. o.left + 1 + o.right + key < Columns
          BY <4>1, AcrossIs
        <4> QED BY <4>2 DEF L, g, C
      <3> QED BY <2>5, <3>1, <3>2, <3>3
    <2>8. AsideAt(p, y, x, w, h)
      <3>1. x \in Nat
        BY <2>5
      <3> QED BY <1>4, <1>8, <1>10, <2>6, <2>7, <3>1 DEF AsideAt, C
    <2> QED BY <1>6, <1>7, <2>8 DEF BesideIn, x, q, M, g
  <1> QED BY <1>5, <1>9, <1>10

(* ... or above them.                                                           *)
AboveIn(o, p, t, u) ==
  /\ StartAt(p, 0) /\ AsideAt(p, t.row + o.top, o.left, 0, 0)
  /\ LogoAt(u.screen, t.row + o.top, o.left, o.lines, round)
  /\ t.row + o.top + Len(o.lines) <= t.row + Height(o) + 1 + o.bottom
  /\ \A r \in 0..Rows - 1 : r < t.row => u.screen[r] = t.screen[r]
LEMMA CharsOnTop ==
  ASSUME NEW o, Fits(o), NEW t, IsTerminal(t), t.row \in Nat, t.row <= 1, t.column = 0, NEW p,
         p = [o EXCEPT !.position = Position(o, MaxWidth(o) + o.right)], p.position = "top",
         NEW u, u = NewLines(PutLines(t, t.column, Lines(o)), o.bottom)
  PROVE  AboveIn(o, p, t, u)
  <1> DEFINE M == MaxWidth(o)
             g == o.right
             pos == Position(o, M + g)
             texts == Lines(o)
             put == PutLines(t, t.column, texts)
             h == Height(o)
             n == Len(o.lines)
             L == o.left
             tp == o.top
             m == o.bottom
             C == Columns
             R == Rows
             row == t.row
             y == row + tp
  <1>1. /\ M \in Nat /\ M + g \in Nat /\ \A key \in KeyWidths \union {1} : (M + g) + key < C
        /\ \A i \in 1..n : Pad(o) + o.lines[i] <= M
    BY MaxWidthIs DEF AsWide, Across
  <1>2. /\ n \in Nat /\ L \in Nat /\ g \in Nat /\ tp \in Nat /\ C \in Nat /\ R \in Nat /\ KeyWidths \subseteq Nat
        /\ h \in Nat /\ tp + n <= h + 1 /\ h + m + o.keys + 4 <= R /\ m \in Nat /\ o.keys \in Nat
        /\ \A i \in 1..n : o.lines[i] \in Nat
    <2>1. h \in Nat /\ tp + n <= h + 1 /\ h + o.bottom + o.keys + 4 <= R
      BY HeightIs
    <2>2. o.lines \in Seq(Nat) /\ n \in Nat /\ L \in Nat /\ g \in Nat /\ tp \in Nat /\ m \in Nat /\ o.keys \in Nat
      BY FitsFields
    <2>3. \A i \in 1..n : o.lines[i] \in Nat
      BY <2>2
    <2> HIDE DEF h
    <2> QED BY <2>1, <2>2, <2>3, LogoAssumption
  <1>3. pos \in {"left", "right", "top"} /\ (pos = "right" <=> o.position = "right")
    <2>1. pos \in {"left", "right", "top"}
      BY PositionIs
    <2>2. pos = "right" <=> o.position = "right"
      BY DEF Position
    <2> QED BY <2>1, <2>2
  <1>4. p.position = pos /\ p.lines = o.lines
    BY <1>3, FitsPlaced
  <1> HIDE DEF pos
  <1>5. Pad(o) = L /\ p.position = "top"
    BY <1>3, <1>4 DEF Pad
  <1>6. StartAt(p, 0)
    <2>1. \A key \in KeyWidths \union {1} : 0 + key < C
      <3> SUFFICES ASSUME NEW key \in KeyWidths \union {1} PROVE 0 + key < C
        OBVIOUS
      <3>1. (M + g) + key < C /\ key \in Nat
        <4>1. (M + g) + key < C
          <5> HIDE DEF M, g, C
          <5> QED BY <1>1
        <4>2. key \in Nat
          <5> HIDE DEF M, g, C
          <5> QED BY <1>2
        <4> QED BY <4>1, <4>2
      <3>2. M + g \in Nat /\ C \in Nat
        BY <1>1, <1>2
      <3> DEFINE w == M + g
      <3> HIDE DEF w, C
      <3> QED BY <3>1, <3>2 DEF w
    <2> QED BY <1>5, <2>1 DEF StartAt
  <1>7. ASSUME NEW i \in 1..n PROVE L + o.lines[i] <= C
    <2> DEFINE lw == o.lines[i]
    <2>1. L + lw <= M /\ lw \in Nat /\ (M + g) + 1 < C
      BY <1>1, <1>2, <1>5
    <2>2. M \in Nat /\ g \in Nat /\ C \in Nat /\ L \in Nat
      BY <1>1, <1>2
    <2> HIDE DEF M, g, L, C, lw
    <2>3. L + lw <= C
      BY <2>1, <2>2
    <2> QED BY <2>3 DEF lw, L, C
  <1>8. y + n <= R /\ y + n <= row + h + 1 + m
    <2> HIDE DEF n, tp, h, R, row, m
    <2>1. row \in Nat /\ row <= 1
      BY DEF row
    <2> QED BY <1>2, <2>1
  <1>9. AsideAt(p, y, L, 0, 0)
    BY <1>2, <1>4, <1>5, <1>7, <1>8 DEF AsideAt
  <1>10. Len(texts) = h + 1 /\ Listed(texts) /\ \A k \in 1..h + 1 : IsText(o, k - tp, texts[k])
    BY LinesAre, TextIs
  <1>11. ArePut(t, 0, texts, put)
    <2>1. \A k \in 1..Len(texts) : Listed(texts[k])
      BY <1>10 DEF IsText
    <2>2. put = PutLines(t, 0, texts)
      OBVIOUS
    <2>3. 0 \in Int
      OBVIOUS
    <2> HIDE DEF texts, put
    <2> QED BY <1>10, <2>1, <2>2, <2>3, PutLinesAre
  <1>12. u.screen = put.screen
    <2>1. IsTerminal(put)
      BY <1>10, LinesAre, PutLinesIs
    <2> HIDE DEF put
    <2> QED BY <2>1, MovesKeep DEF put
  <1> HIDE DEF texts, put, h
  <1>13. ASSUME NEW r \in 0..R - 1, r < row PROVE u.screen[r] = t.screen[r]
    <2>1. ~(r - row + 1 \in 1..Len(texts))
      <3> HIDE DEF row, R
      <3>1. row \in Nat
        BY DEF row
      <3> QED BY <1>2, <1>13, <3>1
    <2> QED BY <1>11, <1>12, <2>1 DEF ArePut
  <1>14. LogoAt(u.screen, y, L, o.lines, round)
    <2> SUFFICES ASSUME NEW i \in 1..n, NEW j \in 1..o.lines[i]
                 PROVE  u.screen[y + i - 1][L + j] = <<"logo", round, i>>
      BY Zenon DEF LogoAt
    <2> DEFINE r == y + i - 1
               c == L + j
               lw == o.lines[i]
               q == r - row + 1
    <2>1. r \in 0..R - 1 /\ q \in 1..h + 1 /\ q - tp = i
      <3>1. row \in Nat /\ i \in 1..n
        OBVIOUS
      <3> HIDE DEF row, R, n, tp
      <3> QED BY <1>2, <1>8, <3>1
    <2>2. lw \in Nat /\ j \in 1..lw /\ L + lw <= C /\ L \in Nat /\ C \in Nat
      BY <1>2, <1>7
    <2>3. c \in 1..C /\ c - 0 = L + j /\ c \in 1..L + lw
      <3> HIDE DEF L, lw, C
      <3> QED BY <2>2, Inside
    <2>4. IsText(o, i, texts[q])
      BY <1>10, <2>1
    <2>5. Len(texts[q]) = L + lw /\ texts[q][L + j] = <<"logo", round, i>>
      BY <1>5, <2>4 DEF IsText
    <2>6. put.screen[r][c] = IF c - 0 \in 1..Len(texts[q]) THEN texts[q][c - 0] ELSE t.screen[r][c]
      <3>1. q \in 1..Len(texts)
        BY <1>10, <2>1
      <3> HIDE DEF c
      <3> QED BY <1>11, <2>1, <2>3, <3>1 DEF ArePut
    <2> HIDE DEF r, c, q
    <2>7. u.screen[r][c] = <<"logo", round, i>>
      BY <1>12, <2>3, <2>5, <2>6
    <2> QED BY <2>7 DEF r, c
  <1> QED BY <1>6, <1>8, <1>9, <1>13, <1>14 DEF AboveIn, h, n, L, tp, m, R, row, y

(* What is there before the first key.                                          *)
DrawnCells ==
  excuse = "none" =>
    /\ KeysStart /\ ShellOn(screen, Here) /\ Place /\ Spaced
    /\ IF cache # <<>>
       THEN /\ Aside /\ options.position \in {"left", "right"} /\ cache = Lines(options) /\ drawn = round
            /\ origin[1] = Here + options.top /\ origin[2] = OriginOf(options, rightOffset)
       ELSE Unseen(round) \/ (Aside /\ Above(Here) /\ LogoOn(screen))
LEMMA DrawnKeys ==
  ASSUME Drawn, DrawnCells, at = "keys"
  PROVE  CellsInv /\ KeysBesideLogo
  <1>1. Screen /\ shown = <<>> /\ nextLine = 0
    BY DEF Drawn
  <1>2. Top = Here
    <2> DEFINE H == Here
               T == Top
    <2>1. H \in Nat /\ Len(shown) = 0 /\ T = H - Len(shown)
      BY <1>1 DEF Here, Screen, Top
    <2> HIDE DEF H, T
    <2>2. T = H
      BY <2>1
    <2> QED BY <2>2 DEF T, H
  <1>3. ASSUME excuse = "none" PROVE KeysCells
    <2>1. /\ KeysStart /\ ShellOn(screen, Top) /\ Place /\ Spaced
          /\ cache # <<>> => /\ Aside /\ options.position \in {"left", "right"} /\ cache = Lines(options)
                             /\ drawn = round /\ origin[1] = Top + options.top
                             /\ origin[2] = OriginOf(options, rightOffset)
          /\ cache = <<>> => Unseen(round) \/ (Aside /\ Above(Top) /\ LogoOn(screen))
      BY <1>2, <1>3 DEF DrawnCells
    <2>2. KeysOn(screen)
      <3>1. \A i \in 1..Len(shown) : FALSE
        BY <1>1
      <3> QED BY <3>1 DEF KeysOn
    <2>3. CachedOn(screen, nextLine)
      <3>1. \A i \in 1..Len(options.lines) : ~(i + options.top <= 0)
        <4>1. options.top \in Nat
          BY <1>1, FitsFields DEF Screen
        <4> QED BY <4>1
      <3> QED BY <1>1, <3>1 DEF CachedOn
    <2>4. Shown(screen)
      BY <2>1, <2>3 DEF Shown, Cached
    <2> QED BY <2>1, <2>2, <2>4 DEF KeysCells
  <1> QED BY <1>3 DEF CellsInv, CellsAtKeys, CellsAtSleep, CellsAtLogo, CellsAtCursor, KeysBesideLogo
LEMMA DrawnOn == (Drawn /\ DrawnCells /\ at = "keys")' => CellsInv' /\ KeysBesideLogo'
  <1>1. Drawn /\ DrawnCells /\ at = "keys" => CellsInv /\ KeysBesideLogo
    BY DrawnKeys
  <1> QED BY <1>1, PTL

(* Of lines.                                                                    *)
Whereabouts(o, s, row) == o.watch \/ (AllShell(s) /\ row >= 1)
LEMMA CharsCells ==
  ASSUME NEW o, Fits(o), NEW t, IsTerminal(t), t.row \in Nat, t.row <= 1, t.column = 0,
         o.watch => t.row = 0, LogoPrintChars(o, t), Whereabouts(o, t.screen, t.row),
         shown' = <<>>, buffered' = <<>>, round' = round
  PROVE  DrawnCells'
  <1> DEFINE M == MaxWidth(o)
             g == o.right
             pos == Position(o, M + g)
             p == [o EXCEPT !.position = pos]
             u == NewLines(PutLines(t, t.column, Lines(o)), o.bottom)
             row == t.row
             S == screen'
             h == Height(o)
             L == o.left
             x == IF pos = "right" THEN FromRight(t, M + g - 1).column ELSE L
  <1>1. /\ options' = p /\ drawn' = round /\ origin' = <<row + o.top, x>> /\ rightOffset' = M + g - 1
        /\ pos = "top" => Shows(u) /\ cache' = <<>> /\ logoWidth' = 0 /\ logoHeight' = 0
        /\ pos # "top" => /\ Shows(t) /\ cache' = Lines(o) /\ logoHeight' = h
                          /\ logoWidth' = IF pos = "left" THEN M + g ELSE 0
    BY DEF LogoPrintChars, DrawnAt
  <1>2. pos \in {"left", "right", "top"}
    BY PositionIs
  <1>3. Fits(p) /\ p.position = pos /\ p.lines = o.lines /\ p.top = o.top /\ p.watch = o.watch /\ p.left = o.left
    BY <1>2, FitsPlaced
  <1>4. p = [o EXCEPT !.position = Position(o, MaxWidth(o) + o.right)]
    OBVIOUS
  <1>5. u = NewLines(PutLines(t, t.column, Lines(o)), o.bottom) /\ InFront(u, row + h + 1 + o.bottom)
    BY CharsAbove
  <1>6. Place' /\ Spaced'
    <2>1. cursor'[2] = 0
      BY CharsIs DEF Chars
    <2> QED BY <2>1, HeldIs DEF Place, Spaced
  <1>7. origin'[1] = row + o.top /\ origin'[2] = x
    BY <1>1
  <1>8. Here' = cursor'[1]
    BY DEF Here
  <1> HIDE DEF p, pos, u, x, h
  <1>9. CASE pos = "top"
    <2>1. AboveIn(o, p, t, u)
      BY <1>3, <1>4, <1>5, <1>9, CharsOnTop
    <2>2. S = u.screen /\ cursor'[1] = row + h + 1 + o.bottom
      BY <1>1, <1>5, <1>9, ShowsIs DEF InFront
    <2>3. x = L
      BY <1>9 DEF x
    <2>4. KeysStart'
      BY <1>1, <1>9, <2>1 DEF AboveIn, KeysStart
    <2>5. Aside'
      <3>1. AsideAt(p, row + o.top, L, 0, 0)
        BY <2>1 DEF AboveIn
      <3> QED BY <1>1, <1>7, <1>9, <2>3, <3>1 DEF Aside
    <2>6. LogoOn(screen)'
      <3>1. LogoAt(S, row + o.top, L, p.lines, round)
        BY <1>3, <2>1, <2>2 DEF AboveIn
      <3>2. LogoAt(screen', origin'[1], origin'[2], options'.lines, drawn')
        BY <1>1, <1>7, <2>3, <3>1
      <3> QED BY <3>2 DEF LogoOn, LogoAt
    <2>7. Above(Here)'
      <3>1. row + o.top + Len(o.lines) <= row + h + 1 + o.bottom
        BY <2>1 DEF AboveIn, h
      <3>2. origin'[1] + Len(options'.lines) <= cursor'[1]
        BY <1>1, <1>3, <1>7, <2>2, <3>1
      <3> QED BY <1>8, <3>2 DEF Above
    <2>8. ShellOn(screen, Here)'
      <3>1. \A r \in 0..Rows - 1 : r < row => S[r] = t.screen[r]
        BY <2>1, <2>2 DEF AboveIn
      <3>2. o.watch \/ (AllShell(S) /\ cursor'[1] >= 1)
        <4>1. CASE o.watch
          BY <4>1
        <4>3. CASE AllShell(t.screen) /\ row >= 1
          <5>2. 0 \in 0..Rows - 1
            <6> DEFINE R == Rows
            <6>1. R \in Nat /\ R > 0
              BY LogoAssumption
            <6> HIDE DEF R
            <6>2. 0 \in 0..R - 1
              BY <6>1
            <6> QED BY <6>2 DEF R
          <5>3. 0 < row
            BY <4>3
          <5>4. S[0] = t.screen[0]
            BY <3>1, <5>2, <5>3
          <5>5. cursor'[1] >= 1
            <6> DEFINE b == o.bottom
            <6>1. h \in Nat /\ b \in Nat /\ row \in Nat /\ cursor'[1] = row + h + 1 + b
              BY <2>2, FitsFields, HeightIs DEF h
            <6> HIDE DEF b, row
            <6> QED BY <6>1
          <5> QED BY <4>3, <5>4, <5>5 DEF AllShell
        <4> QED BY <4>1, <4>3 DEF Whereabouts
      <3> QED BY <1>1, <1>3, <1>8, <3>2 DEF ShellOn, NoShell, AllShell
    <2> QED BY <1>1, <1>6, <1>9, <2>4, <2>5, <2>6, <2>7, <2>8 DEF DrawnCells
  <1>10. CASE pos # "top"
    <2>1. BesideIn(o, p, row)
      BY <1>3, <1>4, <1>10, CharsBeside
    <2>2. S = t.screen /\ cursor'[1] = row
      BY <1>1, <1>10, ShowsIs
    <2>3. x = OriginOf(p, M + g - 1)
      BY <1>3, MovesKeep DEF x, OriginOf
    <2>4. KeysStart'
      BY <1>1, <1>3, <1>10, <2>1 DEF BesideIn, KeysStart
    <2>5. Aside'
      <3>1. AsideAt(p, row + o.top, x, logoWidth', h)
        BY <1>1, <1>3, <1>10, <2>1, <2>3 DEF BesideIn, h
      <3> QED BY <1>1, <1>7, <1>10, <3>1 DEF Aside
    <2>6. cache' # <<>> /\ cache' = Lines(o)
      BY <1>1, <1>10, LinesAre
    <2>7. Lines(options)' = Lines(o)
      <3>1. Lines(p) = Lines(o)
        BY <2>1 DEF BesideIn
      <3>2. Lines(options)' = Lines(p)
        BY <1>1 DEF Lines, LogoText, LogoCell
      <3> QED BY <3>1, <3>2
    <2>8. origin'[1] = Here' + options'.top /\ origin'[2] = OriginOf(options, rightOffset)'
      <3>1. OriginOf(options, rightOffset)' = OriginOf(p, M + g - 1)
        BY <1>1 DEF OriginOf
      <3> QED BY <1>1, <1>3, <1>7, <1>8, <2>2, <2>3, <3>1
    <2>9. ShellOn(screen, Here)'
      <3>1. o.watch \/ (AllShell(S) /\ row >= 1)
        BY <2>2 DEF Whereabouts
      <3> QED BY <1>1, <1>3, <1>8, <2>2, <3>1 DEF ShellOn, NoShell, AllShell
    <2> QED BY <1>1, <1>2, <1>3, <1>6, <1>10, <2>4, <2>5, <2>6, <2>7, <2>8, <2>9 DEF DrawnCells
  <1> QED BY <1>9, <1>10

LEMMA ShellThere ==
  ASSUME CellsInv, at \in {"logo", "measuring", "unmeasured"}
  PROVE  Whereabouts(options, screen, Start)
  <1>1. ~options.watch => AllShell(screen) /\ Start >= 1
    BY DEF CellsInv, CellsAtLogo, Alive, Start
  <1> QED BY <1>1 DEF Whereabouts
LEMMA LinesCells ==
  ASSUME EndsInv, CellsInv, LogoPrintLines
  PROVE  CellsInv' /\ KeysBesideLogo'
  <1>1. /\ at = "logo" /\ options.type # "spin" /\ LogoPrintChars(options, Terminal) /\ at' = "keys"
        /\ UNCHANGED <<buffered, round, shown>>
    BY DEF LogoPrintLines
  <1> DEFINE t == Terminal
             r == Start
  <1>2. /\ Unprinted /\ buffered = <<>> /\ IsTerminal(t) /\ t.row = r /\ t.column = 0 /\ Fits(options)
        /\ r \in Nat /\ r <= 1 /\ (options.watch => r = 0) /\ t.screen = screen
    BY <1>1, AtLogoIs DEF Terminal
  <1>3. Whereabouts(options, t.screen, t.row)
    BY <1>1, <1>2, ShellThere
  <1>4. shown' = <<>> /\ buffered' = <<>> /\ round' = round
    BY <1>1, <1>2 DEF Unprinted
  <1> HIDE DEF t, r
  <1>5. DrawnCells'
    BY <1>1, <1>2, <1>3, <1>4, CharsCells DEF t
  <1> QED BY <1>1, <1>5, LogoLinesEnd, DrawnOn
LEMMA ChafaCells ==
  ASSUME EndsInv, CellsInv, PrintImageChafa
  PROVE  CellsInv' /\ KeysBesideLogo'
  <1>1. Measured /\ options.type = "chafa" /\ at' = "keys" /\ UNCHANGED <<buffered, round, shown>>
    BY DEF PrintImageChafa
  <1> DEFINE t == Terminal
             r == Start
  <1>2. at \in {"logo", "measuring", "unmeasured"} /\ options.type # "spin"
    BY <1>1 DEF Measured, Sized
  <1>3. /\ Unprinted /\ buffered = <<>> /\ IsTerminal(t) /\ t.row = r /\ t.column = 0 /\ Fits(options)
        /\ r \in Nat /\ r <= 1 /\ (options.watch => r = 0) /\ t.screen = screen
    BY <1>2, AtLogoIs DEF Terminal
  <1>4. shown' = <<>> /\ buffered' = <<>> /\ round' = round
    BY <1>1, <1>3 DEF Unprinted
  <1>5. PICK p : Fits(p) /\ p.watch = options.watch /\ LogoPrintChars(p, t)
    BY ChafaDrawn
  <1>6. Whereabouts(p, t.screen, t.row)
    BY <1>2, <1>3, <1>5, ShellThere DEF Whereabouts
  <1> HIDE DEF t, r
  <1>7. DrawnCells'
    BY <1>3, <1>4, <1>5, <1>6, CharsCells
  <1>8. Drawn'
    BY ChafaDrawn
  <1> QED BY <1>1, <1>7, <1>8, DrawnOn
LEMMA SpinCells ==
  ASSUME EndsInv, CellsInv, LogoPrintSpin
  PROVE  CellsInv' /\ KeysBesideLogo'
  <1>1. at = "logo" /\ options.type = "spin" /\ at' = "keys" /\ UNCHANGED <<round, shown>>
    BY DEF LogoPrintSpin
  <1>2. Screen /\ AtLogo /\ Fits(options)
    BY <1>1 DEF EndsInv, Alive, Screen
  <1>3. Unprinted /\ (drawn = 0 \/ options.watch)
    BY <1>1, <1>2 DEF AtLogo
  <1>4. PICK frame \in options.frames :
          LET resized == drawn # 0 /\ frame # options.lines
              flushed == Flush(buffered \o (IF resized THEN <<"clear", "home">> ELSE <<>>))
          IN /\ LogoPrintChars([options EXCEPT !.lines = frame], flushed.terminal)
             /\ buffered' = flushed.held
    BY DEF LogoPrintSpin
  <1> DEFINE resized == drawn # 0 /\ frame # options.lines
             more == IF resized THEN <<"clear", "home">> ELSE <<>>
             t == Applied(buffered \o more)
             p == [options EXCEPT !.lines = frame]
             r == Start
  <1>5. LogoPrintChars(p, t) /\ buffered' = <<>>
    BY <1>4 DEF Flush
  <1>6. more \in {<<>>, <<"clear", "home">>} /\ (drawn = 0 => more = <<>>)
    OBVIOUS
  <1>7. IsTerminal(t) /\ t.row = r /\ t.column = 0
    <2> HIDE DEF more
    <2> QED BY <1>1, <1>6, SpinBegins
  <1>8. r \in Nat /\ r <= 1 /\ (options.watch => r = 0)
    BY DEF Start
  <1>9. Fits(p) /\ p.watch = options.watch
    BY <1>1, <1>2, FitsFrame
  <1>10. Whereabouts(p, t.screen, t.row)
    <2>1. CASE options.watch
      BY <1>9, <2>1 DEF Whereabouts
    <2>2. CASE ~options.watch
      <3>1. drawn = 0 /\ buffered = <<>> /\ more = <<>>
        BY <1>1, <1>2, <1>3, <1>6, <2>2 DEF AtLogo
      <3>2. t = Flushed
        <4>1. <<>> \o <<>> = <<>>
          OBVIOUS
        <4> QED BY <3>1, <4>1 DEF Flushed
      <3>3. t.screen = screen
        <4>1. Screened /\ buffered \in Pending /\ Terminal.screen = screen
          BY <1>2, <3>1 DEF Screen, Pending, Terminal
        <4>2. Flushed = Terminal
          BY <3>1, <4>1, FlushedIs
        <4> QED BY <3>2, <4>1, <4>2
      <3>4. Whereabouts(options, screen, r)
        BY <1>1, ShellThere
      <3> HIDE DEF t, p
      <3> QED BY <1>7, <1>9, <3>3, <3>4 DEF Whereabouts
    <2> QED BY <2>1, <2>2
  <1> HIDE DEF t, p, r
  <1>11. shown' = <<>> /\ round' = round
    BY <1>1, <1>3 DEF Unprinted
  <1>12. DrawnCells'
    BY <1>5, <1>7, <1>8, <1>9, <1>10, <1>11, CharsCells
  <1> QED BY <1>1, <1>12, LogoSpinEnds, DrawnOn
LEMMA SpinFailsCells ==
  ASSUME EndsInv, LogoPrintSpinFails
  PROVE  CellsInv' /\ KeysBesideLogo'
  <1>1. at' = "keys" /\ excuse' = "lost"
    BY DEF LogoPrintSpinFails
  <1>2. DrawnCells'
    BY <1>1 DEF DrawnCells
  <1> QED BY <1>1, <1>2, LogoSpinFailsEnds, DrawnOn
LEMMA NoneCells ==
  ASSUME EndsInv, CellsInv, LogoPrintNone
  PROVE  CellsInv' /\ KeysBesideLogo'
  <1>1. /\ at = "logo" /\ options.type # "spin" /\ at' = "keys" /\ logoWidth' = 0
        /\ UNCHANGED <<options, cache, screen, cursor, buffered, round, drawn, origin, shown>>
    BY DEF LogoPrintNone
  <1>2. /\ Unprinted /\ buffered = <<>> /\ cursor[1] = Start /\ cursor[2] = 0 /\ drawn = 0 /\ Fits(options)
    BY <1>1, AtLogoIs
  <1>3. KeysStart'
    <2>1. \A key \in KeyWidths \union {1} : 0 + key < Columns
      <3> SUFFICES ASSUME NEW key \in KeyWidths \union {1} PROVE 0 + key < Columns
        OBVIOUS
      <3>1. 1 \in Widths(options)
        BY WidthsAre
      <3>2. options.left + 1 + options.right + key < Columns
        BY <1>2, <3>1, AcrossIs
      <3>3. options.left \in Nat /\ options.right \in Nat /\ key \in Nat /\ Columns \in Nat
        BY <1>2, FitsFields, LogoAssumption
      <3> QED BY <3>2, <3>3
    <2> QED BY <1>1, <2>1 DEF KeysStart, StartAt
  <1>4. ShellOn(screen, Here)'
    <2>1. Whereabouts(options, screen, Start)
      BY <1>1, ShellThere
    <2>2. Here' = Start
      BY <1>1, <1>2 DEF Here
    <2> QED BY <1>1, <2>1, <2>2 DEF Whereabouts, ShellOn, AllShell, NoShell
  <1>5. DrawnCells'
    BY <1>1, <1>2, <1>3, <1>4, HeldIs DEF DrawnCells, Place, Spaced, Unseen, Unprinted
  <1> QED BY <1>1, <1>5, LogoNoneEnds, DrawnOn

(* An image is a rectangle no wider than the width it was given, ...             *)
RoomAcross(o, i) ==
  /\ o.lines[i] \in Nat /\ o.lines[i] = o.lines[1]
  /\ o.type \in Sent /\ o.width > 0 => o.lines[i] <= o.width
  /\ \A key \in KeyWidths \union {1} : o.left + o.lines[i] + o.right + key < Columns
ImageFits(o) ==
  /\ Len(o.lines) \in Nat /\ Len(o.lines) > 0 /\ o.lines \in Seq(Nat)
  /\ o.left \in Nat /\ o.right \in Nat /\ o.width \in Nat /\ Columns \in Nat
  /\ \A key \in KeyWidths \union {1} : key \in Nat
  /\ \A i \in 1..Len(o.lines) : RoomAcross(o, i)
  /\ \A key \in KeyWidths \union {1} : o.left + o.width + o.right + key < Columns
LEMMA ImageFitsIs ==
  ASSUME NEW o, Fits(o), o.type \in Sent \union Decoded
  PROVE  ImageFits(o)
  <1>1. Len(o.lines) > 0 /\ Rectangle(o)
    BY DEF Fits
  <1>2. /\ o.lines \in Seq(Nat) /\ Len(o.lines) \in Nat /\ o.left \in Nat /\ o.right \in Nat /\ o.width \in Nat
    BY FitsFields
  <1>3. Columns \in Nat /\ \A key \in KeyWidths \union {1} : key \in Nat
    BY LogoAssumption
  <1>4. ASSUME NEW i \in 1..Len(o.lines) PROVE RoomAcross(o, i)
    <2>1. o.lines[i] \in Nat
      BY <1>2
    <2>2. o.lines[i] = o.lines[1] /\ (o.type \in Sent /\ o.width > 0 => o.lines[i] <= o.width)
      BY <1>1 DEF Rectangle
    <2>3. o.lines[i] \in Widths(o)
      BY WidthsAre
    <2>4. \A key \in KeyWidths \union {1} : o.left + o.lines[i] + o.right + key < Columns
      BY <2>3, AcrossIs
    <2> QED BY <2>1, <2>2, <2>4 DEF RoomAcross
  <1>5. \A key \in KeyWidths \union {1} : o.left + o.width + o.right + key < Columns
    <2>1. o.width \in Widths(o)
      BY WidthsAre
    <2> QED BY <2>1, AcrossIs
  <1> QED BY <1>1, <1>2, <1>3, <1>4, <1>5 DEF ImageFits

(* ... so it stands where it is drawn, and the keys behind, beside or below it.   *)
LandsAt(o, start, u) ==
  \/ /\ u.column = 0
     /\ o.position = "top" => start.row + Len(o.lines) <= u.row
  \/ /\ InLastRow' /\ u.row = start.row + Len(o.lines) - 1
     /\ u.column = start.column + o.lines[Len(o.lines)]
     /\ u.column \in Nat /\ \A key \in KeyWidths : u.column + key <= Columns
StandsAt(o, start, u) ==
  /\ IsTerminal(start) /\ start.screen = screen /\ start.row \in Nat /\ start.column \in Nat
  /\ \A i \in 1..Len(o.lines) : start.column + o.lines[i] <= Columns
  /\ u.screen = Image(o, start).screen /\ LandsAt(o, start, u)
  /\ o.watch \/ OneRow' \/ (AllShell(screen) /\ start.row >= 1 /\ u.row >= 1)
  /\ HeightForgotten' \/ AsideAt(o, start.row, start.column, logoWidth', logoHeight')
  /\ StartAt(o, logoWidth')
LEMMA StandCells ==
  ASSUME NEW o, Fits(o), ImageFits(o), options' = o, NEW start, NEW u, StandsAt(o, start, u), Shows(u),
         start.row + Len(o.lines) <= Rows,
         DrawnAt(start.row, start.column), cache' = <<>>, shown' = <<>>, buffered' = <<>>, round' = round
  PROVE  DrawnCells'
  <1> DEFINE d == Image(o, start)
             n == Len(o.lines)
             S == screen'
  <1>1. Depicted(o, start, d)
    BY ImageCells DEF StandsAt, ImageFits
  <1>2. u.screen = d.screen
    BY DEF StandsAt
  <1> HIDE DEF d
  <1>3. S = d.screen /\ cursor'[1] = u.row /\ cursor'[2] = u.column /\ Here' = u.row
    BY <1>2, ShowsIs DEF Here
  <1>4. drawn' = round /\ origin'[1] = start.row /\ origin'[2] = start.column
    BY DEF DrawnAt
  <1>5. KeysStart'
    BY DEF KeysStart, StandsAt, StartAt
  <1>6. LogoOn(screen)'
    <2>1. LogoAt(S, start.row, start.column, o.lines, round)
      BY <1>1, <1>3 DEF Depicted
    <2>2. LogoAt(screen', origin'[1], origin'[2], options'.lines, drawn')
      BY <1>4, <2>1
    <2> QED BY <2>2 DEF LogoOn, LogoAt
  <1>7. Place' /\ Spaced'
    <2>1. buffered' # <<"space", "home">>
      BY HeldIs
    <2>2. cursor'[2] = 0 \/ (/\ InLastRow' /\ cursor'[2] \in Nat /\ \A k \in KeyWidths : cursor'[2] + k <= Columns)
      BY <1>3 DEF StandsAt, LandsAt
    <2> QED BY <2>1, <2>2 DEF Place, Spaced, InLastRow
  <1>8. ShellOn(screen, Here)'
    <2>1. CASE o.watch \/ OneRow'
      BY <2>1 DEF ShellOn
    <2>2. CASE AllShell(screen) /\ start.row >= 1 /\ u.row >= 1
      <3>1. 0 \in 0..Rows - 1 /\ 0 < start.row
        <4> DEFINE R == Rows
                   y == start.row
        <4>1. R \in Nat /\ R > 0 /\ y >= 1 /\ y \in Nat
          BY <2>2, LogoAssumption DEF StandsAt
        <4> HIDE DEF R, y
        <4>2. 0 \in 0..R - 1 /\ 0 < y
          BY <4>1
        <4> QED BY <4>2 DEF R, y
      <3>2. S[0] = screen[0]
        BY <1>1, <1>3, <3>1 DEF Depicted, StandsAt
      <3>3. AllShell(S)
        BY <2>2, <3>2 DEF AllShell
      <3> QED BY <1>3, <2>2, <3>3 DEF ShellOn, AllShell, NoShell
    <2> QED BY <2>1, <2>2 DEF StandsAt
  <1>9. HeightForgotten' \/ (Aside' /\ Above(Here)')
    <2> SUFFICES ASSUME AsideAt(o, start.row, start.column, logoWidth', logoHeight') PROVE Aside' /\ Above(Here)'
      BY DEF StandsAt
    <2>1. Aside'
      <3>1. AsideAt(options', origin'[1], origin'[2], logoWidth', logoHeight')
        BY <1>4
      <3> QED BY <3>1 DEF Aside, AsideAt
    <2>2. CASE o.position # "top"
      BY <2>1, <2>2 DEF Above
    <2>3. CASE o.position = "top" /\ u.column = 0 /\ start.row + n <= u.row
      BY <1>3, <1>4, <2>1, <2>3 DEF Above
    <2>4. CASE InLastRow' /\ u.row = start.row + n - 1 /\ u.column = start.column + o.lines[n]
      <3> DEFINE y == start.row
                 z == u.row
      <3>1. y \in Nat /\ n \in Nat /\ n > 0 /\ z = y + n - 1
        BY <2>4 DEF StandsAt, ImageFits
      <3> HIDE DEF y, z, n
      <3>2. y + n = z + 1
        BY <3>1
      <3>3. origin'[1] + Len(options'.lines) = Here' + 1 /\ Len(options'.lines) > 0
        BY <1>3, <1>4, <3>1, <3>2 DEF y, z, n
      <3>4. cursor'[2] = origin'[2] + options'.lines[Len(options'.lines)]
        BY <1>3, <1>4, <2>4 DEF n
      <3> QED BY <2>1, <2>4, <3>3, <3>4 DEF Above, InLastRow
    <2> QED BY <2>2, <2>3, <2>4 DEF StandsAt, LandsAt
  <1> QED BY <1>5, <1>6, <1>7, <1>8, <1>9 DEF DrawnCells, Unseen, HeightForgotten

(* A start at this column.                                                       *)
LEMMA StartsLeft ==
  ASSUME NEW t, IsTerminal(t), t.column = 0, NEW n, NEW x \in Nat, x < Columns,
         NEW u, u = Forward(NewLines(t, n), x)
  PROVE  IsTerminal(u) /\ u.row = NewLines(t, n).row /\ u.column = x /\ u.screen = t.screen
  <1> DEFINE d == NewLines(t, n)
             C == Columns
  <1>1. IsTerminal(d) /\ d.column = 0 /\ d.screen = t.screen
    BY NewLinesIs, MovesKeep DEF InFront
  <1> HIDE DEF d
  <1>2. u = Forward(d, x)
    BY DEF d
  <1>3. IsTerminal(u) /\ u.row = d.row /\ u.screen = t.screen /\ u.column = Least(d.column + x, Columns - 1)
    <2>1. IsTerminal(Forward(d, x)) /\ Forward(d, x).row = d.row
      BY <1>1, ForwardStays DEF Stays
    <2>2. Forward(d, x).screen = d.screen /\ Forward(d, x).column = Least(d.column + x, Columns - 1)
      BY <1>1, MovesKeep
    <2> QED BY <1>1, <1>2, <2>1, <2>2
  <1>4. Least(0 + x, C - 1) = x
    <2>1. C \in Nat /\ x < C
      BY LogoAssumption
    <2> HIDE DEF C
    <2> QED BY <2>1 DEF Least
  <1> QED BY <1>1, <1>3, <1>4 DEF d
LEMMA StartsRight ==
  ASSUME NEW t, IsTerminal(t), NEW n, NEW m \in Nat, NEW u, u = FromRight(NewLines(t, n), m)
  PROVE  /\ IsTerminal(u) /\ u.row = NewLines(t, n).row /\ u.screen = t.screen
         /\ u.column = Minus(Columns - 1, IF m > 1 THEN m ELSE 1)
  <1> DEFINE d == NewLines(t, n)
  <1>1. IsTerminal(d) /\ d.screen = t.screen
    BY NewLinesIs, MovesKeep DEF InFront
  <1> HIDE DEF d
  <1>2. u = FromRight(d, m)
    BY DEF d
  <1>3. IsTerminal(u) /\ u.row = d.row /\ u.screen = t.screen /\ u.column = Minus(Columns - 1, Most({m, 1}))
    <2>1. IsTerminal(FromRight(d, m)) /\ FromRight(d, m).row = d.row
      BY <1>1, FromRightStays DEF Stays
    <2>2. FromRight(d, m).screen = d.screen /\ FromRight(d, m).column = Minus(Columns - 1, Most({m, 1}))
      BY <1>1, MovesKeep
    <2> QED BY <1>1, <1>2, <2>1, <2>2
  <1>4. Most({m, 1}) = IF m > 1 THEN m ELSE 1
    BY MostIs
  <1> QED BY <1>3, <1>4 DEF d

(* On the left the keys begin behind it, ...                                     *)
LEMMA LeftFits ==
  ASSUME NEW o, ImageFits(o), o.position = "left", NEW w \in Nat, \A i \in 1..Len(o.lines) : o.lines[i] <= w,
         \A key \in KeyWidths \union {1} : o.left + w + o.right + key < Columns
  PROVE  /\ o.left < Columns
         /\ StartAt(o, w + o.left + o.right)
         /\ \A i \in 1..Len(o.lines) : o.left + o.lines[i] <= Columns /\ o.left + o.lines[i] <= w + o.left + o.right
  <1> DEFINE L == o.left
             g == o.right
             C == Columns
             K == KeyWidths \union {1}
  <1>1. L \in Nat /\ g \in Nat /\ C \in Nat /\ \A key \in K : key \in Nat /\ L + w + g + key < C
    BY DEF ImageFits
  <1>2. 1 \in K
    OBVIOUS
  <1>3. \A i \in 1..Len(o.lines) : o.lines[i] \in Nat
    BY DEF ImageFits, RoomAcross
  <1> HIDE DEF L, g, C, K
  <1>4. L < C /\ w + L + g \in Nat /\ \A key \in K : (w + L + g) + key < C
    BY <1>1, <1>2
  <1>5. \A l \in Nat : l <= w => L + l <= C /\ L + l <= w + L + g
    BY <1>1, <1>2
  <1>6. \A i \in 1..Len(o.lines) : L + o.lines[i] <= C /\ L + o.lines[i] <= w + L + g
    BY <1>3, <1>5
  <1> QED BY <1>4, <1>6 DEF StartAt, L, g, C, K

(* ... on the right end before it, ...                                           *)
LEMMA RightFits ==
  ASSUME NEW o, ImageFits(o), o.position = "right", NEW w \in Nat, \A i \in 1..Len(o.lines) : o.lines[i] <= w,
         \A key \in KeyWidths \union {1} : o.left + w + o.right + key < Columns,
         NEW x, x = Minus(Columns - 1, IF o.right + w > 1 THEN o.right + w ELSE 1)
  PROVE  /\ x \in Nat /\ StartAt(o, 0) /\ \A i \in 1..Len(o.lines) : x + o.lines[i] <= Columns
  <1> DEFINE L == o.left
             g == o.right
             C == Columns
             K == KeyWidths \union {1}
  <1>1. L \in Nat /\ g \in Nat /\ C \in Nat /\ \A key \in K : key \in Nat /\ L + w + g + key < C
    BY DEF ImageFits
  <1>2. 1 \in K
    OBVIOUS
  <1>3. \A i \in 1..Len(o.lines) : o.lines[i] \in Nat /\ o.lines[i] <= w
    BY DEF ImageFits, RoomAcross
  <1>4. x = Minus(C - 1, IF g + w > 1 THEN g + w ELSE 1)
    OBVIOUS
  <1> HIDE DEF L, g, C, K
  <1>5. x \in Nat /\ x + w <= C /\ \A key \in K : 0 + key < C
    BY <1>1, <1>2, <1>4 DEF Minus
  <1>6. \A l \in Nat : l <= w => x + l <= C
    BY <1>1, <1>5
  <1>7. \A i \in 1..Len(o.lines) : x + o.lines[i] <= C
    BY <1>3, <1>6
  <1> QED BY <1>5, <1>7 DEF StartAt, C, K
(* ... and at the top begin below.                                               *)
LEMMA TopFits ==
  ASSUME NEW o, ImageFits(o), o.position = "top", NEW x \in Nat, NEW y \in Nat, y + Len(o.lines) <= Rows,
         \A i \in 1..Len(o.lines) : x + o.lines[i] <= Columns
  PROVE  StartAt(o, 0) /\ AsideAt(o, y, x, 0, 0)
  <1>1. StartAt(o, 0)
    <2>1. \A key \in KeyWidths \union {1} : 0 + key < Columns
      <3> SUFFICES ASSUME NEW key \in KeyWidths \union {1} PROVE 0 + key < Columns
        OBVIOUS
      <3> DEFINE C == Columns
                 L == o.left
                 w == o.width
                 g == o.right
      <3>1. L \in Nat /\ g \in Nat /\ C \in Nat /\ w \in Nat /\ key \in Nat /\ L + w + g + key < C
        BY DEF ImageFits
      <3> HIDE DEF C, L, w, g
      <3>2. 0 + key < C
        BY <3>1
      <3> QED BY <3>2 DEF C
    <2> QED BY <2>1 DEF StartAt
  <1> QED BY <1>1 DEF AsideAt

LEMMA SizedCells ==
  ASSUME NEW o, SentAs(o), o.width > 0, o.height > 0, NEW t, AtStart(t), t.column = 0, t.screen = screen,
         Whereabouts(o, screen, Start), ImageSized(o, t)
  PROVE  DrawnCells'
  <1> DEFINE down == NewLines(t, o.top)
             start == IF o.position = "right" THEN FromRight(down, o.right + o.width)
                      ELSE Forward(down, o.left)
             below == NewLine(Image(o, start))
             left == UpBy(below, o.top + o.height)
             right == UpBy(below, o.height)
             top == NewLines(below, o.right)
             r == Start
             n == Len(o.lines)
             tp == o.top
             g == o.right
             e == o.height
             R == Rows
             y == start.row
             x == start.column
  <1>1. /\ tp \in Nat /\ e \in Nat /\ g \in Nat /\ n \in Nat /\ R \in Nat
        /\ tp + n + g + o.keys + 4 <= R /\ r \in Nat /\ r <= 1 /\ n = e /\ n > 0 /\ o.keys \in Nat
    BY SizesAre DEF SentAs, RowsFit, Fits
  <1>2. ImageFits(o) /\ Fits(o) /\ o.width \in Nat
    BY ImageFitsIs, FitsFields DEF SentAs
  <1>3. /\ \A i \in 1..n : o.lines[i] <= o.width
        /\ \A key \in KeyWidths \union {1} : o.left + o.width + o.right + key < Columns
    BY <1>2 DEF ImageFits, RoomAcross, SentAs
  <1>4. options' = o /\ cache' = <<>> /\ shown' = <<>> /\ round' = round /\ buffered = <<>> /\ (o.watch => r = 0)
        /\ o.position \in {"left", "right", "top"} /\ o.type \in Sent
    BY DEF SentAs, Unprinted
  <1>5. IsTerminal(t) /\ down.row = r + tp
    BY <1>1, <1>2, DownIs DEF AtStart
  <1>6. /\ IsTerminal(start) /\ y = down.row /\ start.screen = screen /\ x \in Nat
        /\ o.position # "right" => x = o.left
        /\ \A i \in 1..n : x + o.lines[i] <= Columns
        /\ o.position = "right" => StartAt(o, 0)
    <2>1. CASE o.position = "right"
      <3> DEFINE m == o.right + o.width
      <3>1. start = FromRight(NewLines(t, o.top), m)
        BY <2>1
      <3>2. m \in Nat
        BY <1>2 DEF ImageFits
      <3>3. IsTerminal(start) /\ y = down.row /\ start.screen = t.screen
            /\ x = Minus(Columns - 1, IF m > 1 THEN m ELSE 1)
        <4> HIDE DEF m, start
        <4> QED BY <1>5, <3>1, <3>2, StartsRight
      <3>4. x \in Nat /\ StartAt(o, 0) /\ \A i \in 1..Len(o.lines) : x + o.lines[i] <= Columns
        <4> HIDE DEF start
        <4> QED BY <1>2, <1>3, <2>1, <3>3, RightFits
      <3> QED BY <2>1, <3>3, <3>4
    <2>2. CASE o.position # "right"
      <3>1. start = Forward(NewLines(t, o.top), o.left)
        BY <2>2
      <3>2. o.left \in Nat /\ o.left < Columns /\ \A i \in 1..n : o.left + o.lines[i] <= Columns
        <4> DEFINE C == Columns
                   L == o.left
                   w == o.width
        <4>1. L \in Nat /\ g \in Nat /\ C \in Nat /\ w \in Nat /\ L + w + g + 1 < C
          BY <1>2, <1>3 DEF ImageFits
        <4>2. \A i \in 1..n : o.lines[i] \in Nat /\ o.lines[i] <= w
          BY <1>2, <1>3 DEF ImageFits, RoomAcross
        <4> HIDE DEF C, L, w, g
        <4>3. L < C /\ \A l \in Nat : l <= w => L + l <= C
          BY <4>1
        <4>4. L \in Nat /\ L < C /\ \A i \in 1..n : L + o.lines[i] <= C
          BY <4>1, <4>2, <4>3
        <4> QED BY <4>4 DEF L, C
      <3>3. IsTerminal(start) /\ y = down.row /\ start.screen = t.screen /\ x = o.left
        <4> HIDE DEF start
        <4> QED BY <1>5, <3>1, <3>2, StartsLeft
      <3> QED BY <2>2, <3>2, <3>3
    <2> QED BY <2>1, <2>2
  <1>7. /\ DrawnAt(start.row, start.column)
        /\ o.position = "left" => Draws(o, left) /\ logoHeight' = o.top + o.height /\ logoWidth' = o.width + o.left + o.right
        /\ o.position = "top" => Draws(o, top) /\ logoHeight' = 0 /\ logoWidth' = 0
        /\ o.position = "right" => Draws(o, right) /\ logoHeight' = 0 /\ logoWidth' = 0
    BY DEF ImageSized
  <1> HIDE DEF start, down
  <1>8. /\ IsTerminal(below)
        /\ IsTerminal(left) /\ left.row = r
        /\ IsTerminal(right) /\ right.row = r + tp
        /\ IsTerminal(top) /\ top.row = r + tp + n + g
    <2>1. start.row = t.row + o.top
      BY <1>5, <1>6 DEF AtStart
    <2> QED BY <1>6, <2>1, SizedRows
  <1>9. /\ below.screen = Image(o, start).screen /\ below.column = 0
        /\ left.screen = below.screen /\ left.column = 0
        /\ right.screen = below.screen /\ right.column = 0
        /\ top.screen = below.screen /\ top.column = 0
    <2> DEFINE d == Image(o, start)
    <2>1. IsTerminal(d)
      BY <1>6, ImageIs
    <2> HIDE DEF d
    <2>2. below.screen = d.screen /\ below.column = 0
      <3>1. below = NewLine(d)
        BY DEF d
      <3> QED BY <2>1, <3>1, MovesKeep, NewLineIs DEF InFront
    <2>3. tp + e \in Int /\ e \in Int /\ below.row \in Int
      <3>1. below.row = Start + o.top + n
        <4>1. start.row = t.row + o.top
          BY <1>5, <1>6 DEF AtStart
        <4> QED BY <1>6, <4>1, SizedRows
      <3>2. tp + e \in Int /\ e \in Int /\ (r + tp) + n \in Int
        <4> HIDE DEF tp, e, n, r, g, R
        <4> QED BY <1>1
      <3> DEFINE row == (r + tp) + n
      <3>3. below.row = row
        BY <3>1
      <3> HIDE DEF below, row
      <3> QED BY <3>2, <3>3 DEF row
    <2> HIDE DEF below
    <2>4. UpBy(below, tp + e).screen = below.screen /\ UpBy(below, e).screen = below.screen
          /\ NewLines(below, g).screen = below.screen
      BY <1>8, MovesKeep
    <2>5. UpBy(below, tp + e).column = below.column /\ UpBy(below, e).column = below.column
      BY <1>8, <2>3, UpByIs
    <2>6. NewLines(below, g).column = 0
      BY <1>8, <2>2, NewLinesIs DEF InFront
    <2> QED BY <2>2, <2>4, <2>5, <2>6 DEF d
  <1> HIDE DEF below, left, right, top
  <1>10. y = r + tp /\ y + n <= R /\ y \in Nat /\ y + n <= r + tp + n + g /\ (r >= 1 => y >= 1 /\ r + tp >= 1 /\ r + tp + n + g >= 1)
         /\ (o.watch => y + n <= (tp + e) + 1)
    <2>1. y = r + tp
      BY <1>5, <1>6
    <2>2. o.watch => r = 0
      BY <1>4
    <2> DEFINE k == o.keys
    <2>3. k \in Nat /\ tp + n + g + k + 4 <= R
      BY <1>1
    <2> HIDE DEF r, tp, n, g, e, R, y, k
    <2> QED BY <1>1, <2>1, <2>2, <2>3
  <1>11. o.watch \/ (AllShell(screen) /\ r >= 1)
    BY DEF Whereabouts
  <1>12. ASSUME NEW u, Draws(o, u), StandsAt(o, start, u) PROVE DrawnCells'
    <2>1. Shows(u) /\ buffered' = <<>>
      BY <1>4, <1>12, DrawsIs
    <2>2. start.row + Len(o.lines) <= Rows
      BY <1>10
    <2> QED BY <1>2, <1>4, <1>7, <1>12, <2>1, <2>2, StandCells
  <1>13. CASE o.position = "left"
    <2>1. /\ StartAt(o, o.width + o.left + o.right)
          /\ \A i \in 1..n : o.left + o.lines[i] <= Columns /\ o.left + o.lines[i] <= o.width + o.left + o.right
      BY <1>2, <1>3, <1>13, LeftFits
    <2>2. AsideAt(o, y, x, logoWidth', logoHeight')
      BY <1>6, <1>7, <1>10, <1>13, <2>1 DEF AsideAt
    <2>3. LandsAt(o, start, left)
      BY <1>9, <1>13 DEF LandsAt
    <2>4. StandsAt(o, start, left)
      BY <1>6, <1>7, <1>8, <1>9, <1>10, <1>11, <1>13, <2>1, <2>2, <2>3 DEF StandsAt
    <2> QED BY <1>7, <1>12, <1>13, <2>4
  <1>14. CASE o.position = "top"
    <2>1. StartAt(o, 0) /\ AsideAt(o, y, x, 0, 0)
      BY <1>2, <1>6, <1>10, <1>14, TopFits
    <2>2. LandsAt(o, start, top)
      BY <1>8, <1>9, <1>10, <1>14 DEF LandsAt
    <2>3. StandsAt(o, start, top)
      BY <1>6, <1>7, <1>8, <1>9, <1>10, <1>11, <1>14, <2>1, <2>2 DEF StandsAt
    <2> QED BY <1>7, <1>12, <1>14, <2>3
  <1>15. CASE o.position = "right"
    <2>1. HeightForgotten'
      BY <1>4, <1>15 DEF HeightForgotten
    <2>2. LandsAt(o, start, right)
      BY <1>9, <1>15 DEF LandsAt
    <2>3. StandsAt(o, start, right)
      BY <1>6, <1>7, <1>8, <1>9, <1>10, <1>11, <1>15, <2>1, <2>2 DEF StandsAt
    <2> QED BY <1>7, <1>12, <1>15, <2>3
  <1> QED BY <1>4, <1>13, <1>14, <1>15

(* Of an image whose size is not given.                                          *)
ColumnFits(o, x) ==
  x \in Nat /\ \A i \in 1..Len(o.lines) : \A key \in KeyWidths \union {1} : x + o.lines[i] + o.right + key < Columns
LEMMA AtTopCells ==
  ASSUME NEW o, SentAs(o), o.position = "top", o.width = 0 \/ o.height = 0, NEW t, AtStart(t), t.column = 0,
         t.screen = screen, Whereabouts(o, screen, Start), NEW column, ColumnFits(o, column),
         ImageAtTop(o, t, column)
  PROVE  DrawnCells'
  <1> DEFINE start == Forward(NewLines(t, o.top), column)
             drawing == Image(o, start)
             u == NewLines(drawing, o.right)
             r == Start
             n == Len(o.lines)
             tp == o.top
             g == o.right
             R == Rows
             y == start.row
             x == start.column
             z == u.row
             last == o.lines[n]
  <1>1. /\ tp \in Nat /\ g \in Nat /\ n \in Nat /\ R \in Nat
        /\ tp + n + g + o.keys + 4 <= R /\ r \in Nat /\ r <= 1 /\ n > 0 /\ o.keys \in Nat
    BY SizesAre DEF SentAs, RowsFit, Fits
  <1>2. ImageFits(o) /\ Fits(o)
    BY ImageFitsIs DEF SentAs
  <1>3. options' = o /\ cache' = <<>> /\ shown' = <<>> /\ round' = round /\ buffered = <<>> /\ o.type \in Sent
    BY DEF SentAs, Unprinted
  <1>4. IsTerminal(t) /\ NewLines(t, o.top).row = r + tp
    BY <1>1, <1>2, DownIs DEF AtStart
  <1>5. /\ column \in Nat /\ column < Columns /\ \A i \in 1..n : column + o.lines[i] <= Columns
        /\ \A key \in KeyWidths : column + last + key <= Columns
    <2> DEFINE C == Columns
               K == KeyWidths \union {1}
    <2>1. column \in Nat /\ g \in Nat /\ C \in Nat /\ \A key \in K : key \in Nat
      BY <1>1, <1>2 DEF ColumnFits, ImageFits
    <2>2. ASSUME NEW i \in 1..n, NEW key \in K
          PROVE  column < C /\ column + o.lines[i] <= C /\ column + o.lines[i] + key <= C
      <3> DEFINE l == o.lines[i]
      <3>1. l \in Nat /\ column + l + g + key < C /\ key \in Nat
        BY <1>2, <2>1 DEF ImageFits, RoomAcross, ColumnFits
      <3> HIDE DEF l, C, g, K
      <3>2. column < C /\ column + l <= C /\ column + l + key <= C
        BY <2>1, <3>1
      <3> QED BY <3>2 DEF l
    <2>3. n \in 1..n /\ 1 \in K
      <3> HIDE DEF n
      <3> QED BY <1>1
    <2> QED BY <2>1, <2>2, <2>3
  <1>6. IsTerminal(start) /\ y = r + tp /\ start.screen = screen /\ x = column
    <2> HIDE DEF start
    <2> QED BY <1>4, <1>5, StartsLeft DEF start
  <1>7. Prints(u) /\ logoHeight' = 0 /\ logoWidth' = 0 /\ DrawnAt(t.row + tp, column)
    BY DEF ImageAtTop
  <1> HIDE DEF start
  <1>8. y \in Nat /\ y + n <= R /\ (r >= 1 => y >= 1) /\ t.row + tp = y
    <2>1. t.row = r
      BY DEF AtStart
    <2> DEFINE k == o.keys
    <2>2. k \in Nat /\ tp + n + g + k + 4 <= R
      BY <1>1
    <2> HIDE DEF r, tp, n, g, R, y, k
    <2> QED BY <1>1, <1>6, <2>1, <2>2
  <1>9. Depicted(o, start, drawing)
    BY <1>2, <1>5, <1>6, <1>8, ImageCells DEF ImageFits
  <1>10. IsTerminal(drawing) /\ drawing.row = y + n - 1 /\ drawing.column = x + last
    BY <1>9 DEF Depicted
  <1> HIDE DEF drawing
  <1>11. u.screen = drawing.screen
    BY <1>10, MovesKeep
  <1>12. IF g = 0 THEN u = drawing ELSE InFront(u, Least(drawing.row + g, R - 1))
    BY <1>10, NewLinesIs
  <1> HIDE DEF u
  <1>13. LandsAt(o, start, u) /\ (r >= 1 => z >= 1)
    <2>1. CASE g = 0
      <3>1. u.row = y + n - 1 /\ u.column = x + last
        BY <1>10, <1>12, <2>1
      <3>2. InLastRow'
        BY <1>3, <2>1 DEF InLastRow
      <3>3. last \in Nat
        <4>1. n \in 1..n
          <5> HIDE DEF n
          <5> QED BY <1>1
        <4> QED BY <1>2, <4>1 DEF ImageFits, RoomAcross
      <3>4. u.column \in Nat /\ \A key \in KeyWidths : u.column + key <= Columns
        <4> HIDE DEF last
        <4> QED BY <1>5, <1>6, <3>1, <3>3
      <3>5. r >= 1 => z >= 1
        <4> HIDE DEF r, z, y, n
        <4> QED BY <1>1, <1>8, <3>1 DEF z
      <3> QED BY <3>1, <3>2, <3>4, <3>5 DEF LandsAt
    <2>2. CASE g # 0
      <3>1. u.column = 0 /\ z = Least((y + n - 1) + g, R - 1)
        BY <1>10, <1>12, <2>2 DEF InFront
      <3>2. (y + n) + g < R
        <4> DEFINE k == o.keys
        <4>1. k \in Nat /\ tp + n + g + k + 4 <= R
          BY <1>1
        <4> HIDE DEF r, tp, n, g, R, y, k
        <4> QED BY <1>1, <1>6, <1>8, <4>1
      <3>3. y + n <= z /\ (r >= 1 => z >= 1)
        <4> HIDE DEF r, z, y, n, g, R
        <4> QED BY <1>1, <1>8, <2>2, <3>1, <3>2 DEF Least
      <3> QED BY <3>1, <3>3 DEF LandsAt
    <2> QED BY <2>1, <2>2
  <1>14. StartAt(o, 0) /\ AsideAt(o, y, x, 0, 0)
    BY <1>2, <1>5, <1>6, <1>8, TopFits
  <1>15. StandsAt(o, start, u)
    BY <1>5, <1>6, <1>7, <1>8, <1>11, <1>13, <1>14 DEF StandsAt, Whereabouts, drawing
  <1>16. Shows(u) /\ buffered' = <<>>
    BY <1>3, <1>7, DrawsIs
  <1>17. DrawnAt(start.row, start.column)
    BY <1>6, <1>7, <1>8
  <1> QED BY <1>2, <1>3, <1>8, <1>15, <1>16, <1>17, StandCells

AskedAt(o, x) ==
  /\ x \in Nat /\ \A i \in 1..Len(o.lines) : x + o.lines[i] <= Columns
  /\ o.position = "left" => ColumnFits(o, x)
  /\ o.position = "right" => \A key \in KeyWidths : key <= x
LEMMA AskedCells ==
  ASSUME NEW o, SentAs(o), o.position # "top", NEW t, AtStart(t), NEW column, AskedAt(o, column),
         ImageAsked(o, t, column)
  PROVE  CellsInv' /\ KeysBesideLogo'
  <1> DEFINE cleared == ClearAll(t)
             start == MoveTo(cleared, o.top, column)
             drawing == Image(o, start)
             n == Len(o.lines)
             tp == o.top
             R == Rows
             x == column
             last == o.lines[n]
             S == screen'
  <1>1. /\ tp \in Nat /\ o.right \in Nat /\ n \in Nat /\ R \in Nat /\ n > 0 /\ o.keys \in Nat
        /\ tp + n + o.right + o.keys + 4 <= R
    BY SizesAre DEF SentAs, RowsFit, Fits
  <1>2. ImageFits(o) /\ Fits(o)
    BY ImageFitsIs DEF SentAs
  <1>3. options' = o /\ shown' = <<>> /\ round' = round /\ buffered = <<>> /\ o.type \in Sent
        /\ o.position \in {"left", "right", "top"}
    BY DEF SentAs, Unprinted
  <1>4. IsTerminal(cleared) /\ cleared.screen = Empty
    BY ClearAllIs DEF AtStart
  <1> HIDE DEF cleared
  <1>5. IsTerminal(start) /\ start.row = tp /\ start.column = x /\ start.screen = Empty
    <2>1. IsTerminal(start) /\ start.row = tp /\ start.column = x
      BY <1>4, MoveToIs
    <2>2. start.screen = cleared.screen
      BY <1>4, MoveToKeeps
    <2> QED BY <1>4, <2>1, <2>2
  <1>6. Draws(o, drawing) /\ at' = "cursor" /\ DrawnAt(tp, x)
    BY DEF ImageAsked, cleared
  <1> HIDE DEF start
  <1>7. tp + n <= R
    <2> DEFINE k == o.keys
               g == o.right
    <2>1. k \in Nat /\ g \in Nat /\ tp + n + g + k + 4 <= R
      BY <1>1
    <2> HIDE DEF k, g, tp, n, R
    <2> QED BY <1>1, <2>1
  <1>8. Depicted(o, start, drawing)
    BY <1>1, <1>2, <1>5, <1>7, ImageCells DEF ImageFits, AskedAt
  <1> HIDE DEF drawing
  <1>9. Shows(drawing) /\ buffered' = <<>>
    BY <1>3, <1>6, DrawsIs
  <1>10. S = drawing.screen /\ cursor'[2] = drawing.column
    BY <1>9, ShowsIs
  <1>11. NoShell(S)
    <2> SUFFICES ASSUME NEW c \in 1..Columns PROVE S[0][c] # Shell
      BY DEF NoShell
    <2>1. S[0][c] = Shell => Empty[0][c] = Shell
      BY <1>5, <1>8, <1>10 DEF Depicted, Unsoiled
    <2>2. 0 \in 0..R - 1
      <3>1. R \in Nat /\ R > 0
        BY LogoAssumption
      <3> HIDE DEF R
      <3> QED BY <3>1
    <2>3. Empty[0][c] = Blank
      BY <1>4, <2>2, ClearAllIs DEF AtStart
    <2> QED BY <2>1, <2>3, CellKinds
  <1>12. drawn' = round /\ origin'[1] = tp /\ origin'[2] = x
    BY <1>6 DEF DrawnAt
  <1>13. LogoOn(screen)'
    <2>1. LogoAt(S, tp, x, o.lines, round)
      BY <1>5, <1>8, <1>10 DEF Depicted
    <2>2. LogoAt(screen', origin'[1], origin'[2], options'.lines, drawn')
      BY <1>3, <1>12, <2>1
    <2> QED BY <2>2 DEF LogoOn, LogoAt
  <1>14. cursor'[2] = x + last
    BY <1>5, <1>8, <1>10 DEF Depicted
  <1>15. n \in 1..n
    <2> HIDE DEF n
    <2> QED BY <1>1
  <1>16. o.position = "left" => \A k \in KeyWidths \union {1} : cursor'[2] + o.right + k < Columns
    BY <1>14, <1>15 DEF AskedAt, ColumnFits
  <1>17. o.position = "right" => cursor'[2] <= Columns /\ \A k \in KeyWidths : k <= origin'[2]
    BY <1>12, <1>14, <1>15 DEF AskedAt
  <1>18. CellsAtCursor'
    <2>1. NoShell(screen)'
      BY <1>11 DEF NoShell
    <2>2. origin'[2] \in Nat /\ Len(options'.lines) > 0
      BY <1>1, <1>3, <1>12 DEF AskedAt
    <2>3. cursor'[2] = origin'[2] + options'.lines[Len(options'.lines)]
      BY <1>3, <1>12, <1>14
    <2> QED BY <1>3, <1>12, <1>13, <1>16, <1>17, <2>1, <2>2, <2>3 DEF CellsAtCursor
  <1> QED BY <1>6, <1>18, AwayFromKeys DEF CellsInv, CellsAtKeys, CellsAtSleep, CellsAtLogo

(* Where an image may begin.                                                     *)
LEMMA ColumnsFit ==
  ASSUME NEW o, ImageFits(o)
  PROVE  ColumnFits(o, o.left) /\ ColumnFits(o, 0)
  <1> DEFINE L == o.left
             g == o.right
             C == Columns
  <1>1. ASSUME NEW i \in 1..Len(o.lines), NEW key \in KeyWidths \union {1}
        PROVE  L + o.lines[i] + g + key < C /\ 0 + o.lines[i] + g + key < C
    <2> DEFINE l == o.lines[i]
    <2>1. L \in Nat /\ l \in Nat /\ g \in Nat /\ key \in Nat /\ C \in Nat /\ L + l + g + key < C
      BY DEF ImageFits, RoomAcross
    <2> HIDE DEF L, g, C, l
    <2>2. L + l + g + key < C /\ 0 + l + g + key < C
      BY <2>1
    <2> QED BY <2>2 DEF l
  <1> QED BY <1>1 DEF ColumnFits, ImageFits
LEMMA IcatColumnsFit ==
  ASSUME NEW o, ImageFits(o), Fits(o), NEW x \in IcatColumns(o)
  PROVE  ColumnFits(o, x)
  <1> DEFINE W == o.width
             L == o.left
             g == o.right
             C == Columns
             w == Widest(o)
             m == Minus(W, w)
  <1>1. CASE W > 0
    <2>1. x = L + m \div 2
      BY <1>1 DEF IcatColumns
    <2>2. w \in Nat /\ \A i \in 1..Len(o.lines) : o.lines[i] <= w
      BY WidestIs DEF ImageFits
    <2>3. \A key \in KeyWidths \union {1} : L + w + g + key < C
      <3>1. w \in Widths(o)
        BY WidestIs DEF ImageFits
      <3> QED BY <3>1, AcrossIs
    <2>4. /\ W \in Nat /\ L \in Nat /\ g \in Nat /\ C \in Nat
          /\ \A key \in KeyWidths \union {1} : key \in Nat /\ L + W + g + key < C
      BY DEF ImageFits
    <2> HIDE DEF w
    <2>5. m \in Nat /\ m \div 2 \in Nat /\ m \div 2 <= m
      <3>1. m \in Nat
        <4> HIDE DEF W
        <4> QED BY <2>2, <2>4 DEF Minus
      <3> HIDE DEF m
      <3>2. \A a \in Nat : a \div 2 \in Nat /\ a \div 2 <= a
        BY Z3
      <3> QED BY <3>1, <3>2
    <2> DEFINE h == m \div 2
    <2>6. h \in Nat /\ (h + w <= W \/ h + w <= w)
      <3>1. m = IF W > w THEN W - w ELSE 0
        BY DEF Minus
      <3>2. h \in Nat /\ h <= m
        BY <2>5
      <3> HIDE DEF h, m, W
      <3> QED BY <2>2, <2>4, <3>1, <3>2
    <2> HIDE DEF h, m
    <2>7. ASSUME NEW i \in 1..Len(o.lines), NEW key \in KeyWidths \union {1}
          PROVE  x + o.lines[i] + g + key < C
      <3> DEFINE l == o.lines[i]
      <3>1. l \in Nat /\ l <= w
        BY <2>2 DEF ImageFits, RoomAcross
      <3>2. key \in Nat /\ L + W + g + key < C /\ L + w + g + key < C /\ x = L + h
        BY <2>1, <2>3, <2>4 DEF h
      <3> HIDE DEF l, L, g, C, W
      <3>3. x + l + g + key < C
        BY <2>2, <2>4, <2>6, <3>1, <3>2
      <3> QED BY <3>3 DEF l
    <2>8. x \in Nat
      <3>1. x = L + h
        BY <2>1 DEF h
      <3> HIDE DEF L
      <3> QED BY <2>4, <2>6, <3>1
    <2> QED BY <2>7, <2>8 DEF ColumnFits
  <1>2. CASE ~(W > 0)
    BY <1>2, ColumnsFit DEF IcatColumns
  <1> QED BY <1>1, <1>2
LEMMA LeftAsked ==
  ASSUME NEW o, ImageFits(o), o.position # "right", NEW x, ColumnFits(o, x)
  PROVE  AskedAt(o, x)
  <1> DEFINE g == o.right
             C == Columns
  <1>1. ASSUME NEW i \in 1..Len(o.lines) PROVE x + o.lines[i] <= C
    <2> DEFINE l == o.lines[i]
    <2>1. x \in Nat /\ l \in Nat /\ g \in Nat /\ C \in Nat /\ x + l + g + 1 < C
      BY DEF ImageFits, RoomAcross, ColumnFits
    <2> HIDE DEF l, g, C
    <2>2. x + l <= C
      BY <2>1
    <2> QED BY <2>2 DEF l
  <1> QED BY <1>1 DEF AskedAt, ColumnFits
LEMMA RightAsked ==
  ASSUME NEW o, ImageFits(o), o.position = "right", o.type \in Sent, o.width > 0
  PROVE  AskedAt(o, Minus(Columns - 1, o.right + o.width))
  <1> DEFINE W == o.width
             L == o.left
             g == o.right
             C == Columns
             x == Minus(C - 1, g + W)
  <1>1. /\ W \in Nat /\ L \in Nat /\ g \in Nat /\ C \in Nat /\ W > 0
        /\ \A key \in KeyWidths \union {1} : key \in Nat /\ L + W + g + key < C
    BY DEF ImageFits
  <1>2. \A i \in 1..Len(o.lines) : o.lines[i] \in Nat /\ o.lines[i] <= W
    BY DEF ImageFits, RoomAcross
  <1>3. L + W + g + 1 < C
    BY <1>1
  <1> HIDE DEF W, L, g, C
  <1>4. x \in Nat /\ x + g + W = C - 1
    BY <1>1, <1>3 DEF Minus
  <1> HIDE DEF x
  <1>5. ASSUME NEW i \in 1..Len(o.lines) PROVE x + o.lines[i] <= C
    <2> DEFINE l == o.lines[i]
    <2>1. l \in Nat /\ l <= W
      BY <1>2
    <2> HIDE DEF l
    <2>2. x + l <= C
      BY <1>1, <1>4, <2>1
    <2> QED BY <2>2 DEF l
  <1>6. ASSUME NEW key \in KeyWidths PROVE key <= x
    <2>1. key \in Nat /\ L + W + g + key < C
      BY <1>1
    <2> QED BY <1>1, <1>4, <2>1
  <1> QED BY <1>4, <1>5, <1>6 DEF AskedAt, x, C, g, W

LEMMA SentCells ==
  ASSUME EndsInv, CellsInv, LogoPrintRaw \/ PrintImageIterm \/ PrintImageKittyDirect \/ PrintImageKittyIcat
  PROVE  CellsInv' /\ KeysBesideLogo'
  <1> DEFINE o == Resolved
             t == Terminal
  <1>1. /\ at = "logo" /\ options.type \in Sent /\ options' = o /\ Supported(o)
        /\ UNCHANGED <<cache, nextLine, keysHeight, shown, round>>
    BY DEF LogoPrintRaw, PrintImageIterm, PrintImageKittyDirect, PrintImageKittyIcat, PrintSent, Sent
  <1>2. SentAs(o) /\ AtStart(t) /\ Flushed = t
    BY <1>1, SentAsIs
  <1>3. t.column = 0 /\ t.screen = screen /\ Fits(options)
    <2>1. options.type # "spin"
      BY <1>1 DEF Sent
    <2> QED BY <1>1, <2>1, AtLogoIs DEF Terminal
  <1>4. o.type = options.type /\ o.watch = options.watch /\ o.position \in {"left", "right", "top"} /\ Fits(o)
    BY <1>3, ResolvedIs
  <1>5. Whereabouts(o, screen, Start)
    BY <1>1, <1>4, ShellThere DEF Whereabouts
  <1> HIDE DEF o, t
  <1>6. ImageFits(o)
    BY <1>1, <1>4, ImageFitsIs
  <1>7. ASSUME ImageSized(o, t), o.width > 0, o.height > 0 PROVE CellsInv' /\ KeysBesideLogo'
    <2>1. Drawn' /\ DrawnCells' /\ at' = "keys"
      BY <1>2, <1>3, <1>5, <1>7, SizedCells, SizedEnds DEF ImageSized
    <2> QED BY <2>1, DrawnOn
  <1>8. ASSUME NEW column, ColumnFits(o, column), o.position = "top", o.width = 0 \/ o.height = 0,
               ImageAtTop(o, t, column)
        PROVE  CellsInv' /\ KeysBesideLogo'
    <2>1. DrawnCells' /\ at' = "keys"
      BY <1>2, <1>3, <1>5, <1>8, AtTopCells DEF ImageAtTop
    <2>2. Drawn'
      BY <1>2, <1>8, AtTopEnds
    <2> QED BY <2>1, <2>2, DrawnOn
  <1>9. ASSUME NEW column, AskedAt(o, column), o.position # "top", ImageAsked(o, t, column)
        PROVE  CellsInv' /\ KeysBesideLogo'
    BY <1>2, <1>9, AskedCells
  <1>10. ASSUME PrintSent(o, t), o.type # "icat" PROVE CellsInv' /\ KeysBesideLogo'
    <2>1. CASE o.width > 0 /\ o.height > 0
      BY <1>7, <1>10, <2>1 DEF PrintSent
    <2>2. CASE ~(o.width > 0 /\ o.height > 0)
      <3>1. o.width = 0 \/ o.height = 0
        <4>1. o.width \in Nat /\ o.height \in Nat
          BY <1>4, FitsFields
        <4> QED BY <2>2, <4>1
      <3>2. CASE o.position = "top"
        BY <1>6, <1>8, <1>10, <2>2, <3>1, <3>2, ColumnsFit DEF PrintSent
      <3>3. CASE o.position = "left"
        <4>1. ImageAsked(o, t, o.left)
          BY <1>10, <2>2, <3>3 DEF PrintSent
        <4> QED BY <1>6, <1>9, <3>3, <4>1, ColumnsFit, LeftAsked
      <3>4. CASE o.position = "right"
        <4>1. ImageAsked(o, t, Minus(Columns - 1, o.right + o.width))
          BY <1>10, <2>2, <3>4 DEF PrintSent
        <4>2. o.width > 0
          <5>1. o.width # 0
            BY <1>1, <1>10, <3>4 DEF Supported
          <5>2. o.width \in Nat
            BY <1>4, FitsFields
          <5> QED BY <5>1, <5>2
        <4> QED BY <1>1, <1>4, <1>6, <1>9, <3>4, <4>1, <4>2, RightAsked
      <3> QED BY <1>4, <3>2, <3>3, <3>4
    <2> QED BY <2>1, <2>2
  <1>11. CASE LogoPrintRaw
    <2>1. PrintSent(o, t) /\ options.type = "raw"
      BY <1>11 DEF LogoPrintRaw, Begun, o, t
    <2> QED BY <1>4, <1>10, <2>1
  <1>12. CASE PrintImageIterm \/ PrintImageKittyDirect
    <2>1. PrintSent(o, t) /\ options.type \in {"iterm", "direct"}
      BY <1>2, <1>12 DEF PrintImageIterm, PrintImageKittyDirect, Begun, o
    <2> QED BY <1>4, <1>10, <2>1
  <1>13. CASE PrintImageKittyIcat
    <2>1. options.type = "icat" /\ \E column \in IcatColumns(o) :
             IF o.position = "top" THEN ImageAtTop(o, t, column) ELSE ImageAsked(o, t, column)
      BY <1>2, <1>13 DEF PrintImageKittyIcat, o
    <2>2. PICK column \in IcatColumns(o) :
             IF o.position = "top" THEN ImageAtTop(o, t, column) ELSE ImageAsked(o, t, column)
      BY <2>1
    <2>3. ColumnFits(o, column)
      BY <1>4, <1>6, IcatColumnsFit
    <2>4. CASE o.position = "top"
      <3>1. o.width = 0
        BY <1>1, <1>4, <2>1, <2>4 DEF Supported
      <3> QED BY <1>8, <2>2, <2>3, <2>4, <3>1
    <2>5. CASE o.position # "top"
      <3>1. o.position # "right"
        BY <1>1, <1>4, <2>1, <2>5 DEF Supported
      <3>2. AskedAt(o, column)
        BY <1>6, <2>3, <3>1, LeftAsked
      <3> QED BY <1>9, <2>2, <2>5, <3>2
    <2> QED BY <2>4, <2>5
  <1> QED BY <1>11, <1>12, <1>13

(* Where the terminal said that it ended.                                        *)
LEMMA PlacedCells ==
  ASSUME HeardInv, EndsInv, CellsInv, ImagePlaced
  PROVE  CellsInv' /\ KeysBesideLogo'
  <1> DEFINE y == cursor[1]
             x == cursor[2]
             n == Len(options.lines)
             lines == options.lines
             tp == options.top
             g == options.right
             W == options.width
             L == options.left
             C == Columns
             K == KeyWidths \union {1}
             w == logoWidth'
             m == W + L
  <1>1. /\ at = "cursor" /\ at' = "keys"
        /\ UNCHANGED <<options, cache, nextLine, keysHeight, screen, cursor, round, drawn, origin, shown>>
        /\ excuse' = IF call.values # <<>> /\ call.values = call.truth THEN "none" ELSE "misplaced"
        /\ call.values # <<>> =>
             /\ logoWidth' = IF options.position = "left" THEN Most({call.values[2], m}) + g - 1 ELSE 0
             /\ logoHeight' = call.values[1]
             /\ buffered' = buffered \o <<"space", "home">> \/ buffered' = buffered \o <<"home">>
    BY DEF ImagePlaced
  <1>2. Screen /\ AtCursor /\ Fits(options) /\ CellsAtCursor
    BY <1>1 DEF EndsInv, Alive, Screen, CellsInv
  <1>3. /\ Unprinted /\ buffered = <<>> /\ origin[1] = tp /\ y = tp + n - 1
        /\ call.truth \in {<<>>, <<cursor[1] + 1, cursor[2] + 1>>}
    BY <1>1, <1>2 DEF AtCursor
  <1>4. /\ options.position \in {"left", "right"} /\ drawn = round
        /\ NoShell(screen) /\ LogoOn(screen) /\ n > 0
        /\ origin[2] \in Nat /\ x = origin[2] + lines[n]
        /\ options.position = "left" => \A k \in K : x + g + k < C
        /\ options.position = "right" => x <= C /\ \A k \in KeyWidths : k <= origin[2]
    BY <1>1, <1>2 DEF CellsAtCursor
  <1>5. Drawn'
    BY PlacedStand
  <1> SUFFICES ASSUME excuse' = "none" PROVE DrawnCells'
    <2>1. excuse' # "none" => DrawnCells'
      BY DEF DrawnCells
    <2> QED BY <1>1, <1>5, <2>1, DrawnOn
  <1>6. call.values = <<y + 1, x + 1>> /\ call.values # <<>>
    <2>1. call.values # <<>> /\ call.values = call.truth
      BY <1>1
    <2> QED BY <1>3, <2>1
  <1>7. /\ w = (IF options.position = "left" THEN Most({x + 1, m}) + g - 1 ELSE 0)
        /\ logoHeight' = y + 1
    BY <1>1, <1>6
  <1>8. buffered' # <<>>
    <2>1. buffered' = <<>> \o <<"space", "home">> \/ buffered' = <<>> \o <<"home">>
      BY <1>1, <1>3, <1>6, Zenon
    <2> QED BY <2>1
  <1>9. /\ tp \in Nat /\ g \in Nat /\ W \in Nat /\ L \in Nat /\ C \in Nat /\ n \in Nat /\ lines \in Seq(Nat)
        /\ \A k \in K : k \in Nat
    <2>1. tp \in Nat /\ g \in Nat /\ W \in Nat /\ L \in Nat /\ n \in Nat /\ lines \in Seq(Nat)
      BY <1>2, FitsFields
    <2>2. C \in Nat /\ \A k \in K : k \in Nat
      BY LogoAssumption
    <2> QED BY <2>1, <2>2
  <1>10. n \in 1..n /\ x \in Nat /\ \A i \in 1..n : lines[i] \in Nat
    <2>1. \A i \in 1..n : lines[i] \in Nat
      BY <1>9
    <2>2. n \in 1..n
      <3> HIDE DEF n
      <3> QED BY <1>4, <1>9
    <2>3. lines[n] \in Nat
      BY <2>1, <2>2
    <2> DEFINE l == lines[n]
               ox == origin[2]
    <2>4. l \in Nat /\ ox \in Nat /\ x = ox + l
      BY <1>4, <2>3
    <2> HIDE DEF l, ox, x
    <2>5. x \in Nat
      BY <2>4
    <2> QED BY <2>1, <2>2, <2>5 DEF x
  <1>11. \A i \in 1..n : lines[i] = lines[n]
    <2>1. \A j \in 1..n : lines[j] = lines[1]
      BY <1>1, <1>2, ImageFitsIs DEF CellsAtCursor, ImageFits, RoomAcross
    <2> QED BY <1>10, <2>1
  <1>12. x <= C /\ KeysStart' /\ (options.position = "left" => x <= w)
    <2> DEFINE v == x + 1
               b == Most({v, m})
    <2>1. b = IF v > m THEN v ELSE m
      <3>1. v \in Int /\ m \in Int
        <4> HIDE DEF x, W, L
        <4> QED BY <1>9, <1>10
      <3> QED BY <3>1, MostIs
    <2>2. \A k \in K : L + W + g + k < C
      <3>1. W \in Widths(options)
        BY WidthsAre
      <3> QED BY <1>2, <3>1, AcrossIs
    <2>3. 1 \in K
      OBVIOUS
    <2>4. w = IF options.position = "left" THEN b + g - 1 ELSE 0
      BY <1>7
    <2>5. CASE options.position = "left"
      <3>1. \A k \in K : x + g + k < C
        BY <1>4, <2>5
      <3>2. w = b + g - 1
        BY <2>4, <2>5
      <3> HIDE DEF x, W, L, b, w, g, C, K
      <3>3. b = x + 1 \/ (b = W + L /\ W + L >= x + 1)
        BY <1>9, <1>10, <2>1
      <3> HIDE DEF v, m
      <3>4. x \in Nat /\ L \in Nat /\ W \in Nat /\ g \in Nat /\ C \in Nat /\ \A k \in K : k \in Nat
        BY <1>9, <1>10
      <3>5. \A k \in K : w + k < C
        <4> SUFFICES ASSUME NEW k \in K PROVE w + k < C
          OBVIOUS
        <4>1. k \in Nat /\ L + W + g + k < C /\ x + g + k < C
          BY <2>2, <3>1, <3>4
        <4> QED BY <3>2, <3>3, <3>4, <4>1
      <3>6. w \in Nat /\ x <= w /\ x <= C
        <4>1. x + g + 1 < C
          BY <2>3, <3>1
        <4>2. w \in Nat /\ x <= w
          BY <3>2, <3>3, <3>4
        <4> QED BY <3>4, <4>1, <4>2
      <3> QED BY <1>1, <2>5, <3>5, <3>6 DEF KeysStart, StartAt, w, C, K
    <2>6. CASE options.position = "right"
      <3>1. \A k \in K : 0 + k < C
        <4> HIDE DEF K, C, L, W, g
        <4> QED BY <1>9, <2>2
      <3>2. x <= C
        BY <1>4, <2>6
      <3>3. w = 0
        BY <2>4, <2>6
      <3> QED BY <1>1, <2>6, <3>1, <3>2, <3>3 DEF KeysStart, StartAt
    <2> QED BY <1>4, <2>5, <2>6
  <1>13. Aside'
    <2> DEFINE h == logoHeight'
               R == Rows
               oy == origin[1]
               ox == origin[2]
    <2>1. y < R /\ y = tp + n - 1 /\ h = y + 1 /\ oy = tp /\ R \in Nat
      BY <1>2, <1>3, <1>7, LogoAssumption DEF Screen
    <2>2. oy + n <= R /\ oy + n <= h + 1
      <3>1. y \in Nat
        BY <1>2 DEF Screen
      <3> HIDE DEF y, R, tp, n, h, oy
      <3> QED BY <1>9, <2>1, <3>1
    <2>3. ASSUME NEW i \in 1..n PROVE ox + lines[i] <= C /\ (options.position = "left" => ox + lines[i] <= w)
      <3>1. ox + lines[i] = x
        BY <1>4, <1>11
      <3> HIDE DEF x, C, w, ox
      <3> QED BY <1>12, <3>1
    <2>4. AsideAt(options, oy, ox, w, h)
      BY <1>4, <2>2, <2>3 DEF AsideAt
    <2> QED BY <1>1, <2>4 DEF Aside, AsideAt
  <1>14. Spaced'
    <2>1. y = origin[1] + n - 1
      BY <1>3
    <2>2. x >= origin[2] + lines[n]
      <3> HIDE DEF x
      <3> QED BY <1>4, <1>10
    <2> QED BY <1>1, <1>4, <1>10, <2>1, <2>2 DEF Spaced, NoShell
  <1>15. Place' /\ ShellOn(screen, Here)'
    BY <1>1, <1>4, <1>8 DEF Place, ShellOn, NoShell
  <1>16. LogoOn(screen)' /\ Above(Here)'
    BY <1>1, <1>4 DEF LogoOn, LogoAt, Above
  <1>17. cache' = <<>>
    BY <1>1, <1>3 DEF Unprinted
  <1> QED BY <1>12, <1>13, <1>14, <1>15, <1>16, <1>17 DEF DrawnCells

(* Of an image that fastfetch decodes.                                           *)
LEMMA PixelsCells ==
  ASSUME EndsInv, CellsInv, PrintImagePixels
  PROVE  CellsInv' /\ KeysBesideLogo'
  <1>1. Measured /\ options.type = "pixels" /\ at' = "keys"
        /\ UNCHANGED <<cache, nextLine, keysHeight, round, shown>>
    BY DEF PrintImagePixels
  <1>2. PICK cells \in CharacterSizes :
          /\ options' = At(cells[1])
          /\ PixelsDrawn(At(cells[1]), cells[1], cells[2], Flushed)
          /\ excuse' = IF cells = <<Widest(options), Len(options.lines)>> THEN "none" ELSE "misplaced"
    BY DEF PrintImagePixels
  <1>3. Drawn'
    BY PixelsStand
  <1> SUFFICES ASSUME excuse' = "none" PROVE DrawnCells'
    <2>1. excuse' # "none" => DrawnCells'
      BY DEF DrawnCells
    <2> QED BY <1>1, <1>3, <2>1, DrawnOn
  <1> DEFINE o == At(cells[1])
             t == Terminal
             w == cells[1]
             down == NewLines(t, o.top)
             start == IF o.position = "right" THEN FromRight(down, o.right + w)
                      ELSE Forward(down, o.left)
             drawing == Image(o, start)
             l == cells[2] + o.top - 1
             up == UpBy(drawing, l)
             u == [up EXCEPT !.column = 0]
             r == Start
             n == Len(o.lines)
             tp == o.top
             R == Rows
             C == Columns
             y == start.row
             x == start.column
             d == drawing.row
             last == o.lines[n]
  <1>4. /\ Unprinted /\ buffered = <<>> /\ Flushed = t /\ AtStart(t) /\ t.column = 0 /\ t.screen = screen
        /\ Fits(options) /\ r \in Nat /\ r <= 1 /\ (options.watch => r = 0) /\ options.type \in Decoded
    BY <1>1, MeasuredIs DEF Decoded, Terminal
  <1>5. w = Widest(options) /\ cells[2] = Len(options.lines)
    BY <1>2
  <1>6. /\ Fits(o) /\ o.type = "pixels" /\ o.watch = options.watch /\ o.lines = options.lines
        /\ o.position \in {"left", "right", "top"} /\ options' = o
    BY <1>1, <1>2, <1>4, AtIs
  <1>7. PixelsDrawn(o, w, cells[2], t)
    BY <1>2, <1>4
  <1>8. ImageFits(o)
    BY <1>6, ImageFitsIs DEF Decoded
  <1>9. /\ w = Widest(o) /\ l = n + tp - 1
    BY <1>5, <1>6 DEF Widest
  <1> HIDE DEF o
  <1>10. w \in Nat /\ \A i \in 1..n : o.lines[i] <= w
    BY <1>6, <1>8, <1>9, WidestIs DEF ImageFits
  <1>11. \A key \in KeyWidths \union {1} : o.left + w + o.right + key < C
    <2>1. w \in Widths(o)
      BY <1>6, <1>8, <1>9, WidestIs DEF ImageFits
    <2> QED BY <1>6, <2>1, AcrossIs
  <1>12. /\ tp \in Nat /\ n \in Nat /\ n > 0 /\ R \in Nat /\ o.right \in Nat /\ o.keys \in Nat
         /\ tp + n + o.right + o.keys + 4 <= R
    BY <1>6, <1>8, SizesAre DEF RowsFit, ImageFits
  <1>13. IsTerminal(t) /\ down.row = r + tp
    BY <1>4, <1>6, DownIs DEF AtStart
  <1>14. /\ IsTerminal(start) /\ y = r + tp /\ start.screen = screen /\ x \in Nat
         /\ o.position # "right" => x = o.left
         /\ \A i \in 1..n : x + o.lines[i] <= C
         /\ o.position = "right" => StartAt(o, 0)
    <2>1. CASE o.position = "right"
      <3> DEFINE m == o.right + w
      <3>1. start = FromRight(NewLines(t, o.top), m)
        BY <2>1
      <3>2. m \in Nat
        <4> DEFINE g == o.right
        <4>1. g \in Nat /\ w \in Nat
          BY <1>10, <1>12
        <4> HIDE DEF g, w
        <4>2. g + w \in Nat
          BY <4>1
        <4> QED BY <4>2 DEF g
      <3>3. IsTerminal(start) /\ y = down.row /\ start.screen = t.screen
            /\ x = Minus(C - 1, IF m > 1 THEN m ELSE 1)
        <4> HIDE DEF m, start
        <4> QED BY <1>13, <3>1, <3>2, StartsRight
      <3>4. x \in Nat /\ StartAt(o, 0) /\ \A i \in 1..Len(o.lines) : x + o.lines[i] <= C
        <4> HIDE DEF start, w
        <4> QED BY <1>8, <1>10, <1>11, <2>1, <3>3, RightFits
      <3> QED BY <1>4, <1>13, <2>1, <3>3, <3>4
    <2>2. CASE o.position # "right"
      <3>1. start = Forward(NewLines(t, o.top), o.left)
        BY <2>2
      <3>2. o.left \in Nat /\ o.left < Columns /\ \A i \in 1..n : o.left + o.lines[i] <= Columns
        <4> DEFINE L == o.left
                   g == o.right
        <4>1. L \in Nat /\ g \in Nat /\ C \in Nat /\ w \in Nat /\ L + w + g + 1 < C
          BY <1>8, <1>10, <1>11 DEF ImageFits
        <4>2. \A i \in 1..n : o.lines[i] \in Nat /\ o.lines[i] <= w
          BY <1>8, <1>10 DEF ImageFits, RoomAcross
        <4> HIDE DEF C, L, w, g
        <4>3. L < C /\ \A z \in Nat : z <= w => L + z <= C
          BY <4>1
        <4>4. L \in Nat /\ L < C /\ \A i \in 1..n : L + o.lines[i] <= C
          BY <4>1, <4>2, <4>3
        <4> QED BY <4>4 DEF L, C
      <3>3. IsTerminal(start) /\ y = down.row /\ start.screen = t.screen /\ x = o.left
        <4> HIDE DEF start
        <4> QED BY <1>4, <1>13, <3>1, <3>2, StartsLeft
      <3> QED BY <1>4, <1>13, <2>2, <3>2, <3>3
    <2> QED BY <2>1, <2>2
  <1>15. /\ DrawnAt(start.row, start.column)
         /\ Prints(IF o.position = "top" THEN drawing ELSE u)
         /\ logoWidth' = (IF o.position = "left" THEN w + o.left + o.right ELSE 0)
         /\ logoHeight' = IF o.position = "left" THEN l ELSE 0
    BY <1>7 DEF PixelsDrawn
  <1> HIDE DEF start, down, w
  <1>16. y \in Nat /\ y + n <= R /\ (r >= 1 => y >= 1) /\ (o.watch => y + n <= l + 1)
    <2>1. o.watch => r = 0
      BY <1>4, <1>6
    <2> DEFINE k == o.keys
               g == o.right
    <2>2. k \in Nat /\ g \in Nat /\ tp + n + g + k + 4 <= R
      BY <1>12
    <2> HIDE DEF r, tp, n, R, y, l, k, g
    <2> QED BY <1>4, <1>9, <1>12, <1>14, <2>1, <2>2
  <1>17. Depicted(o, start, drawing)
    BY <1>8, <1>14, <1>16, ImageCells DEF ImageFits
  <1>18. IsTerminal(drawing) /\ d = (r + tp) + n - 1 /\ drawing.column = x + last
    BY <1>14, <1>17 DEF Depicted
  <1>19. o.watch \/ (AllShell(screen) /\ r >= 1)
    <2>1. Whereabouts(options, screen, r)
      <3>1. at \in {"logo", "measuring", "unmeasured"}
        BY <1>1 DEF Measured, Sized
      <3> QED BY <3>1, ShellThere
    <2> QED BY <1>6, <2>1 DEF Whereabouts
  <1>20. ASSUME NEW v, Prints(v), StandsAt(o, start, v) PROVE DrawnCells'
    <2>1. Shows(v) /\ buffered' = <<>>
      BY <1>20 DEF Prints
    <2>2. cache' = <<>> /\ shown' = <<>> /\ round' = round
      BY <1>1, <1>4 DEF Unprinted
    <2> QED BY <1>6, <1>8, <1>15, <1>16, <1>20, <2>1, <2>2, StandCells
  <1>21. n \in 1..n
    <2> HIDE DEF n
    <2> QED BY <1>12
  <1>22. CASE o.position = "top"
    <2>1. StartAt(o, 0) /\ AsideAt(o, y, x, 0, 0)
      BY <1>8, <1>14, <1>16, <1>22, TopFits
    <2>2. InLastRow'
      BY <1>6, <1>22 DEF InLastRow
    <2>3. x + last \in Nat /\ \A key \in KeyWidths : (x + last) + key <= C
      <3> DEFINE L == o.left
                 g == o.right
      <3>1. /\ L \in Nat /\ g \in Nat /\ last \in Nat /\ C \in Nat
            /\ \A key \in KeyWidths \union {1} : key \in Nat /\ L + last + g + key < C
        BY <1>8, <1>21 DEF ImageFits, RoomAcross
      <3>2. x = L
        BY <1>14, <1>22
      <3> HIDE DEF L, g, last, C, x
      <3> QED BY <3>1, <3>2
    <2>4. r >= 1 => d >= 1
      <3> HIDE DEF r, d, tp, n
      <3> QED BY <1>4, <1>12, <1>18
    <2>5. d = y + n - 1
      BY <1>14, <1>18
    <2>6. LandsAt(o, start, drawing)
      BY <1>18, <2>2, <2>3, <2>5 DEF LandsAt
    <2>7. StandsAt(o, start, drawing)
      <3> HIDE DEF drawing
      <3> QED BY <1>14, <1>15, <1>16, <1>19, <1>22, <2>1, <2>4, <2>6 DEF StandsAt, drawing
    <2> QED BY <1>15, <1>20, <1>22, <2>7
  <1>23. CASE o.position # "top"
    <2>1. d \in Nat /\ l \in Nat
      <3> HIDE DEF r, d, tp, n, l
      <3> QED BY <1>4, <1>9, <1>12, <1>18
    <2>2. IsTerminal(up) /\ up.row = Minus(d, IF l > 1 THEN l ELSE 1) /\ up.screen = drawing.screen
      <3>1. l \in Int /\ drawing.row \in Int
        BY <2>1
      <3> HIDE DEF drawing, l
      <3> QED BY <1>18, <3>1, UpByIs, MovesKeep
    <2> HIDE DEF up
    <2>3. u.screen = drawing.screen /\ u.row = up.row /\ u.column = 0
      BY <2>2 DEF IsTerminal
    <2>4. l # 0 => up.row = r
      <3> DEFINE z == up.row
      <3>1. z = Minus(d, IF l > 1 THEN l ELSE 1)
        BY <2>2
      <3> HIDE DEF z, r, d, tp, n, l
      <3>2. l # 0 => z = r
        BY <1>4, <1>9, <1>12, <1>18, <2>1, <3>1 DEF Minus
      <3> QED BY <3>2 DEF z
    <2>5. l = 0 => OneRow'
      <3>1. l = 0 => tp = 0 /\ n = 1
        <4> HIDE DEF l, tp, n
        <4> QED BY <1>9, <1>12
      <3> QED BY <1>6, <1>23, <3>1 DEF OneRow
    <2>6. o.watch \/ OneRow' \/ (AllShell(screen) /\ y >= 1 /\ u.row >= 1)
      <3>1. l # 0 => u.row = r
        BY <2>3, <2>4
      <3> HIDE DEF u, y, r, l
      <3> QED BY <1>16, <1>19, <2>5, <3>1
    <2> HIDE DEF u
    <2>7. LandsAt(o, start, u)
      BY <1>23, <2>3 DEF LandsAt
    <2>8. ASSUME HeightForgotten' \/ AsideAt(o, y, x, logoWidth', logoHeight'), StartAt(o, logoWidth')
          PROVE  DrawnCells'
      <3>1. StandsAt(o, start, u)
        BY <1>14, <1>16, <2>3, <2>6, <2>7, <2>8 DEF StandsAt
      <3> QED BY <1>15, <1>20, <1>23, <3>1
    <2>9. CASE o.position = "left"
      <3>1. /\ StartAt(o, w + o.left + o.right)
            /\ \A i \in 1..n : o.left + o.lines[i] <= C /\ o.left + o.lines[i] <= w + o.left + o.right
        BY <1>8, <1>10, <1>11, <2>9, LeftFits
      <3>2. AsideAt(o, y, x, logoWidth', logoHeight')
        BY <1>14, <1>15, <1>16, <2>9, <3>1 DEF AsideAt
      <3> QED BY <1>15, <2>8, <2>9, <3>1, <3>2
    <2>10. CASE o.position = "right"
      <3>1. HeightForgotten'
        BY <1>6, <2>10 DEF HeightForgotten
      <3> QED BY <1>14, <1>15, <2>8, <2>10, <3>1
    <2> QED BY <1>6, <1>23, <2>9, <2>10
  <1> QED BY <1>22, <1>23

(* An image that is measured or that fails leaves the screen as it is.           *)
LEMMA LookedAt ==
  ASSUME CellsInv, at \in {"logo", "measuring", "unmeasured"}, at' \in {"logo", "measuring", "unmeasured"},
         screen' = screen, options'.watch = options.watch
  PROVE  CellsInv' /\ KeysBesideLogo'
  <1>1. CellsAtLogo'
    BY DEF CellsInv, CellsAtLogo, Alive, AllShell
  <1> QED BY <1>1, AwayFromKeys DEF CellsInv, CellsAtKeys, CellsAtSleep, CellsAtCursor
LEMMA MeasureCells ==
  ASSUME CellsInv, Measure \/ MeasureOn
  PROVE  CellsInv' /\ KeysBesideLogo'
  <1>1. /\ at \in {"logo", "measuring", "unmeasured"} /\ at' \in {"logo", "measuring", "unmeasured"}
        /\ screen' = screen /\ options' = options
    BY DEF Measure, MeasureOn
  <1> QED BY <1>1, LookedAt
LEMMA FailsCells ==
  ASSUME EndsInv, CellsInv, ImageFails
  PROVE  CellsInv' /\ KeysBesideLogo'
  <1>1. at \in {"logo", "measuring", "unmeasured"} /\ at' = "logo" /\ screen' = screen
    BY DEF ImageFails, Measured, Unmeasured, Sized
  <1>2. Fits(options)
    BY <1>1 DEF EndsInv, Alive, Screen
  <1>3. PICK o \in {options} \union
                 (CASE options.type \in Sent -> {Resolved}
                    [] Measured -> {At(cells[1]) : cells \in CharacterSizes}
                    [] Unmeasured -> {}) :
          options' = [o EXCEPT !.type = Head(o.next), !.next = Tail(o.next),
                               !.lines = IF Head(o.next) = "lines" THEN o.detected ELSE @]
    BY DEF ImageFails
  <1>4. o \in {options, Resolved} \/ \E w : o = At(w)
    BY <1>1, <1>3 DEF ImageFails
  <1>5. o \in LogoOptions /\ o.watch = options.watch
    BY <1>2, <1>4, ResolvedIs, AtIs, FitsFields
  <1>6. options'.watch = options.watch
    BY <1>3, <1>5 DEF LogoOptions
  <1> QED BY <1>1, <1>6, LookedAt

(* Every step keeps it.                                                         *)
Fully == EndsFully /\ CellsInv /\ KeysBesideLogo
LEMMA LogoCellsKept ==
  ASSUME HeardInv, EndsInv, CellsInv, LogoPrint
  PROVE  CellsInv' /\ KeysBesideLogo'
  <1>1. CASE LogoPrintLines
    BY <1>1, LinesCells
  <1>2. CASE LogoPrintNone
    BY <1>2, NoneCells
  <1>3. CASE LogoPrintSpin
    BY <1>3, SpinCells
  <1>4. CASE LogoPrintSpinFails
    BY <1>4, SpinFailsCells
  <1>5. CASE LogoPrintRaw \/ PrintImageIterm \/ PrintImageKittyDirect \/ PrintImageKittyIcat
    BY <1>5, SentCells
  <1>6. CASE ImagePlaced
    BY <1>6, PlacedCells
  <1>7. CASE Measure \/ MeasureOn
    BY <1>7, MeasureCells
  <1>8. CASE PrintImagePixels
    BY <1>8, PixelsCells
  <1>9. CASE PrintImageChafa
    BY <1>9, ChafaCells
  <1>10. CASE ImageFails
    BY <1>10, FailsCells
  <1> QED BY <1>1, <1>2, <1>3, <1>4, <1>5, <1>6, <1>7, <1>8, <1>9, <1>10 DEF LogoPrint, ImagePrint
LEMMA NextFully == Fully /\ [Next]_vars => Fully'
  <1> SUFFICES ASSUME Fully, [Next]_vars PROVE CellsInv' /\ KeysBesideLogo'
    BY NextEnds DEF Fully
  <1>1. HeardInv /\ EndsInv /\ CellsInv /\ KeysBesideLogo
    BY DEF Fully, EndsFully
  <1>2. CASE LogoPrint
    BY <1>1, <1>2, LogoCellsKept
  <1>3. CASE PrintKey
    <2>1. CellsInv'
      BY <1>1, <1>3, PrintKeyCells
    <2>2. at' \notin {"asleep", "end"}
      BY <1>3 DEF PrintKey
    <2> QED BY <2>1, <2>2, AwayFromKeys
  <1>4. CASE AskSize \/ SizeDetected
    BY <1>1, <1>4, AskCells
  <1>5. CASE Finish
    BY <1>1, <1>5, FinishCells
  <1>6. CASE EndRound
    BY <1>1, <1>6, EndRoundCells
  <1>7. CASE Refresh
    BY <1>1, <1>7, RefreshCells
  <1>8. CASE Signal \/ Zoom \/ Running \/ TheOtherEnd \/ UNCHANGED vars
    BY <1>1, <1>8, OtherCells
  <1> QED BY <1>2, <1>3, <1>4, <1>5, <1>6, <1>7, <1>8 DEF Next
LEMMA InitFully == Init => Fully
  BY InitEnds, InitCells DEF Fully

(* Whenever a round or the program ends, and but for the named cases, the logo  *)
(* stands on the screen as a whole, the keys of the round stand beside it or    *)
(* below, one under the other, and nothing was written over either or over what *)
(* the shell had written (logo.c:746, fastfetch.c:821). So it is for every      *)
(* logo, image, size and position, any screen on which it fits, and however the *)
(* terminal answers.                                                            *)
THEOREM LogoAndKeysStand == Spec => []KeysBesideLogo
  <1>1. Fully => KeysBesideLogo
    BY DEF Fully
  <1> QED BY <1>1, InitFully, NextFully, PTL DEF Spec
=============================================================================
