---------------------------- MODULE AsciiProtocol ----------------------------
(***************************************************************************)
(* The text protocol (AsciiProtocol.cpp, AsciiProtocol.h): Compact* turn a *)
(* protocol into a line of keyword=value pairs, which lies in one of a     *)
(* ring of output buffers until the caller has written it; Resolve turns a *)
(* line back into a protocol.                                              *)
(*                                                                         *)
(* A string is a sequence of pieces: words, numbers and the characters     *)
(* that the two directions give a meaning to. A protocol is a record; its  *)
(* texts are strings, its ints and doubles integers, the doubles in units  *)
(* of 1/10000.                                                             *)
(***************************************************************************)
EXTENDS Integers, Sequences, SequencesExt

CONSTANTS
  Words,     \* the words that may stand in a text, those of the protocol among them
  Calls,     \* the first call: [form, p], a protocol by pointer or by its arguments
  Again,     \* the calls that may follow
  MaxCalls,  \* bound: calls
  NBuf,      \* output buffers: 10
  BufLen     \* their size: 1024

ASSUME RingAssumption == NBuf \in Nat \ {0} /\ BufLen \in Nat \ {0}
ASSUME CallAssumption == Again \subseteq Calls /\ MaxCalls \in Nat

VARIABLES
  ibuf_,     \* the next output buffer
  buff_,     \* the string in each of them
  overrun,   \* sprintf has written past the last buffer
  calls,     \* history: the calls, the buffer and the line each has returned
  got        \* what Resolve has made of the last line

vars == <<ibuf_, buff_, overrun, calls, got>>

-----------------------------------------------------------------------------
(* Strings                                                                 *)

Word(s) == [c |-> "word", s |-> s, v |-> 0]
Num(n)  == [c |-> "num", s |-> "", v |-> n]
Mark(s) == [c |-> "mark", s |-> s, v |-> 0]

Comma   == Mark(",")
Equals  == Mark("=")
Dot     == Mark(".")
Space   == Mark(" ")
Newline == Mark("nl")

\* What a line is made of, apart from the newline at its end.
Char == [c : {"word"}, s : Words, v : {0}] \cup [c : {"num"}, s : {""}, v : Int]
          \cup {Comma, Equals, Dot, Space}

NULL == <<>>

Upto(s, e) == LET i == SelectInSeq(s, LAMBDA x : x = e)
              IN IF i = 0 THEN s ELSE SubSeq(s, 1, i - 1)

\* What follows the first run of e in s.
Beyond(s, e) ==
  LET later == {i \in Len(Upto(s, e)) + 1 .. Len(s) : s[i] # e}
  IN IF later = {} THEN <<>> ELSE SubSeq(s, Min(later), Len(s))

\* trim and trim_right_if: nothing of E is left at the ends, or at the end.
Solid(s, E) == {i \in 1 .. Len(s) : s[i] \notin E}
TrimRight(s, E) == IF Solid(s, E) = {} THEN <<>> ELSE SubSeq(s, 1, Max(Solid(s, E)))
Trim(s) == IF Solid(s, {Space}) = {} THEN <<>>
           ELSE SubSeq(s, Min(Solid(s, {Space})), Max(Solid(s, {Space})))

\* split with token_compress_on: the tokens by the place where they begin.
Tokens(s, e) ==
  [i \in {j \in 1 .. Len(s) : s[j] # e /\ (j = 1 \/ s[j - 1] = e)} |->
     Upto(SubSeq(s, i, Len(s)), e)]

\* boost::format prints an int as it is and a double with six significant digits.
Whole(n) == <<Num(n)>>

Magnitude(d) == IF d < 0 THEN -d ELSE d

\* The unit of the sixth digit.
Unit(m) == CHOOSE u \in {1, 10, 100, 1000, 10000} :
             /\ m \div u < 1000000
             /\ u > 1 => m \div (u \div 10) >= 1000000

Double(d) ==
  LET unit == Unit(Magnitude(d))
      cut  == ((Magnitude(d) + unit \div 2) \div unit) * unit
  IN <<Num(IF d < 0 THEN -cut ELSE cut)>>

INT_MIN == -2147483647 - 1
Degree  == 10000
Turn    == 360 * Degree
Never   == 2000000000          \* stands for the double 1E30

-----------------------------------------------------------------------------
(* The protocols as their constructors leave them                          *)

ascii_proto_base == [type |-> "", utc |-> NULL, gid |-> NULL, uid |-> NULL, cid |-> NULL]

\* A class with its base.
Proto(type, fields) ==
  [f \in DOMAIN fields \cup DOMAIN ascii_proto_base |->
     IF f \in DOMAIN fields THEN fields[f] ELSE IF f = "type" THEN type ELSE ascii_proto_base[f]]

ascii_proto_reg   == Proto("register", <<>>)
ascii_proto_start == Proto("start", <<>>)
ascii_proto_stop  == Proto("stop", <<>>)
ascii_proto_obsite ==
  Proto("obsite", [sitename |-> NULL, lon |-> 0, lat |-> 0, alt |-> 0, timezone |-> 8])
ascii_proto_home_sync == Proto("home_sync", [ra |-> Never, dec |-> Never])
ascii_proto_slewto ==
  Proto("slewto", [coorsys |-> 1, coor1 |-> 180 * Degree, coor2 |-> 40 * Degree])
ascii_proto_track == Proto("track", [objid |-> NULL, line1 |-> NULL, line2 |-> NULL])
ascii_proto_park  == Proto("park", <<>>)
ascii_proto_abort_slew == Proto("abort_slew", <<>>)
ascii_proto_mount ==
  Proto("mount", [state |-> 0, errcode |-> INT_MIN,
                  ra |-> Never, dec |-> Never, azi |-> Never, alt |-> Never])
ascii_proto_take_image ==
  Proto("take_image", [objname |-> NULL, imgtype |-> NULL, expdur |-> 0, frmcnt |-> 0])
ascii_proto_abort_image == Proto("abort_image", <<>>)
ascii_proto_object ==
  Proto("object", [plan_type |-> 0, plan_sn |-> NULL, objname |-> NULL, btime |-> NULL,
                   etime |-> NULL, imgtype |-> NULL, sabbr |-> NULL, iimgtyp |-> 0,
                   expdur |-> 0, frmcnt |-> -1])
ascii_proto_expose == Proto("expose", [command |-> 0])
ascii_proto_camera == Proto("camera", [state |-> 0, errcode |-> INT_MIN, coolget |-> 0])
ascii_proto_fwhm  == Proto("fwhm", [value |-> 0])
ascii_proto_focus == Proto("focus", [state |-> INT_MIN, value |-> INT_MIN])
ascii_proto_slit  == Proto("slit", [state |-> INT_MIN, command |-> INT_MIN])
ascii_proto_rain  == Proto("rain", [value |-> 0])
ascii_proto_fileinfo ==
  Proto("fileinfo", [tmobs |-> NULL, subpath |-> NULL, filename |-> NULL, filesize |-> INT_MIN])
ascii_proto_filestat == Proto("filestat", [status |-> INT_MIN])

-----------------------------------------------------------------------------
(* Compact*: the line, before the newline is added; NULL for none          *)

\* A possible slip: no separator after an empty value.
join_kv_unseparated(keyword, value) ==
  <<Word(keyword), Equals>> \o value \o (IF value = NULL THEN <<>> ELSE <<Comma>>)

join_kv(keyword, value) == <<Word(keyword), Equals>> \o value \o <<Comma>>

\* set_timetag: the time of the call.
set_timetag == <<Word("now")>>

Given(keyword, value) == IF value = NULL THEN <<>> ELSE join_kv(keyword, value)

compact_base(p) ==
  <<Word(p.type), Space>> \o join_kv("utc", set_timetag)
    \o Given("gid", p.gid) \o Given("uid", p.uid) \o Given("cid", p.cid)

\* output_compacted(string&) trims the line on the right.
Trimmed(output) == TrimRight(output, {Comma, Equals, Dot, Space})

CompactRegister(p)   == Trimmed(compact_base(p))
CompactStart(p)      == Trimmed(compact_base(p))
CompactStop(p)       == Trimmed(compact_base(p))
CompactPark(p)       == Trimmed(compact_base(p))
CompactAbortSlew(p)  == Trimmed(compact_base(p))
CompactAbortImage(p) == Trimmed(compact_base(p))

CompactObsSite(p) ==
  Trimmed(compact_base(p)
    \o join_kv("sitename", p.sitename) \o join_kv("longitude", Double(p.lon))
    \o join_kv("latitude", Double(p.lat)) \o join_kv("altitude", Double(p.alt))
    \o join_kv("timezone", Whole(p.timezone)))

valid_ra(ra)   == 0 <= ra /\ ra < Turn
valid_dec(dec) == -90 * Degree <= dec /\ dec <= 90 * Degree

CompactHomeSync(p) ==
  IF valid_ra(p.ra) /\ valid_dec(p.dec)
  THEN Trimmed(compact_base(p) \o join_kv("ra", Double(p.ra)) \o join_kv("dec", Double(p.dec)))
  ELSE NULL

CompactSlewto(p) ==
  Trimmed(compact_base(p) \o join_kv("coorsys", Whole(p.coorsys))
    \o join_kv("coor1", Double(p.coor1)) \o join_kv("coor2", Double(p.coor2)))

CompactTrack(p) ==
  Trimmed(compact_base(p) \o join_kv("objid", p.objid)
    \o join_kv("line1", p.line1) \o join_kv("line2", p.line2))

CompactMount(p) ==
  Trimmed(compact_base(p)
    \o join_kv("state", Whole(p.state)) \o join_kv("errcode", Whole(p.errcode))
    \o join_kv("ra", Double(p.ra)) \o join_kv("dec", Double(p.dec))
    \o join_kv("azi", Double(p.azi)) \o join_kv("alt", Double(p.alt)))

CompactFWHM(p) == Trimmed(compact_base(p) \o join_kv("value", Double(p.value)))

\* The state of the focuser is not sent.
CompactFocus(p) ==
  IF p.value = INT_MIN THEN NULL
  ELSE Trimmed(compact_base(p) \o join_kv("value", Whole(p.value)))

IfSet(keyword, n) == IF n = INT_MIN THEN <<>> ELSE join_kv(keyword, Whole(n))

CompactSlit(p) ==
  Trimmed(compact_base(p) \o IfSet("state", p.state) \o IfSet("command", p.command))

CompactTakeImage(p) ==
  Trimmed(compact_base(p)
    \o join_kv("objname", p.objname) \o join_kv("imgtype", p.imgtype)
    \o join_kv("expdur", Double(p.expdur)) \o join_kv("frmcnt", Whole(p.frmcnt)))

CompactObject(p) ==
  IF p.plan_sn = NULL THEN NULL
  ELSE Trimmed(compact_base(p)
    \o join_kv("plan_type", Whole(p.plan_type)) \o join_kv("plan_sn", p.plan_sn)
    \o join_kv("objname", p.objname) \o join_kv("btime", p.btime)
    \o join_kv("etime", p.etime) \o join_kv("imgtype", p.imgtype)
    \o join_kv("sabbr", p.sabbr) \o join_kv("iimgtyp", Whole(p.iimgtyp))
    \o join_kv("expdur", Double(p.expdur)) \o join_kv("frmcnt", Whole(p.frmcnt)))

CompactCamera(p) ==
  Trimmed(compact_base(p)
    \o join_kv("state", Whole(p.state)) \o join_kv("errcode", Whole(p.errcode))
    \o join_kv("coolget", Double(p.coolget)))

CompactFileInfo(p) ==
  Trimmed(compact_base(p)
    \o join_kv("tmobs", p.tmobs) \o join_kv("subpath", p.subpath)
    \o join_kv("filename", p.filename) \o join_kv("filesize", Whole(p.filesize)))

CompactFileStat(p) == Trimmed(compact_base(p) \o join_kv("status", Whole(p.status)))

\* The overloads that take arguments write no utc and no identities.
Bare(p) == <<Word(p.type), Space>>

CompactHomeSyncArgs(p) ==
  Trimmed(Bare(p) \o join_kv("ra", Double(p.ra)) \o join_kv("dec", Double(p.dec)))
CompactSlewtoArgs(p) ==
  Trimmed(Bare(p) \o join_kv("coorsys", Whole(p.coorsys))
    \o join_kv("coor1", Double(p.coor1)) \o join_kv("coor2", Double(p.coor2)))
CompactTrackArgs(p) ==
  Trimmed(Bare(p) \o join_kv("objid", p.objid)
    \o join_kv("line1", p.line1) \o join_kv("line2", p.line2))
CompactParkArgs(p)      == <<Word(p.type)>>
CompactAbortSlewArgs(p) == <<Word(p.type)>>
CompactFocusArgs(p)  == Trimmed(Bare(p) \o join_kv("value", Whole(p.value)))
CompactSlitArgs(p)   == Trimmed(Bare(p) \o IfSet("state", p.state) \o IfSet("command", p.command))
CompactExposeArgs(p) == Trimmed(Bare(p) \o join_kv("command", Whole(p.command)))
\* The rain gauge's value is a string here.
CompactRainArgs(p)   == Trimmed(Bare(p) \o join_kv("value", p.value))

Compact(form, p) ==
  IF form = "pointer"
  THEN   CASE p.type = "register"   -> CompactRegister(p)  [] p.type = "start"       -> CompactStart(p)
           [] p.type = "stop"       -> CompactStop(p)      [] p.type = "obsite"      -> CompactObsSite(p)
           [] p.type = "home_sync"  -> CompactHomeSync(p)  [] p.type = "slewto"      -> CompactSlewto(p)
           [] p.type = "track"      -> CompactTrack(p)     [] p.type = "park"        -> CompactPark(p)
           [] p.type = "abort_slew" -> CompactAbortSlew(p) [] p.type = "mount"       -> CompactMount(p)
           [] p.type = "fwhm"       -> CompactFWHM(p)      [] p.type = "focus"       -> CompactFocus(p)
           [] p.type = "slit"       -> CompactSlit(p)      [] p.type = "take_image"  -> CompactTakeImage(p)
           [] p.type = "object"     -> CompactObject(p)    [] p.type = "abort_image" -> CompactAbortImage(p)
           [] p.type = "camera"     -> CompactCamera(p)    [] p.type = "fileinfo"    -> CompactFileInfo(p)
           [] p.type = "filestat"   -> CompactFileStat(p)
  ELSE   CASE p.type = "home_sync"  -> CompactHomeSyncArgs(p)  [] p.type = "slewto" -> CompactSlewtoArgs(p)
           [] p.type = "track"      -> CompactTrackArgs(p)     [] p.type = "park"   -> CompactParkArgs(p)
           [] p.type = "abort_slew" -> CompactAbortSlewArgs(p) [] p.type = "focus"  -> CompactFocusArgs(p)
           [] p.type = "slit"       -> CompactSlitArgs(p)      [] p.type = "expose" -> CompactExposeArgs(p)
           [] p.type = "rain"       -> CompactRainArgs(p)

-----------------------------------------------------------------------------
(* What callers hand over                                                  *)

Types == {"register", "start", "stop", "obsite", "home_sync", "slewto", "track", "park",
          "abort_slew", "mount", "take_image", "abort_image", "object", "expose", "camera",
          "fwhm", "focus", "slit", "rain", "fileinfo", "filestat"}
Keywords == {"utc", "gid", "uid", "cid", "sitename", "longitude", "latitude", "altitude",
             "timezone", "ra", "dec", "coorsys", "coor1", "coor2", "objid", "line1", "line2",
             "state", "errcode", "azi", "alt", "value", "command", "objname", "imgtype",
             "expdur", "frmcnt", "plan_type", "plan_sn", "btime", "etime", "sabbr", "iimgtyp",
             "coolget", "tmobs", "subpath", "filename", "filesize", "status"}

Base    == {"utc", "gid", "uid", "cid"}
Texts   == {"gid", "uid", "cid", "sitename", "objid", "line1", "line2", "objname", "imgtype",
            "plan_sn", "btime", "etime", "sabbr", "tmobs", "subpath", "filename"}
Angles  == {"ra", "dec", "azi", "coor1", "coor2"}
IsDouble(p, f) ==
  \/ f \in Angles \cup {"lon", "lat", "alt", "expdur", "coolget"}
  \/ f = "value" /\ p.type = "fwhm"

ByPointer ==
  {ascii_proto_reg, ascii_proto_start, ascii_proto_stop, ascii_proto_obsite,
   ascii_proto_home_sync, ascii_proto_slewto, ascii_proto_track, ascii_proto_park,
   ascii_proto_abort_slew, ascii_proto_mount, ascii_proto_take_image, ascii_proto_abort_image,
   ascii_proto_object, ascii_proto_camera, ascii_proto_fwhm, ascii_proto_focus, ascii_proto_slit,
   ascii_proto_fileinfo, ascii_proto_filestat}
ByArguments ==
  {ascii_proto_home_sync, ascii_proto_slewto, ascii_proto_track, ascii_proto_park,
   ascii_proto_abort_slew, ascii_proto_focus, ascii_proto_slit, ascii_proto_expose,
   ascii_proto_rain}

\* Texts of any characters on one line, a value of the rain gauge that is one word or one
\* number if it is given, angles of no more than a turn, ints and other doubles.
IsField(p, f, v) ==
  /\ f \in Texts => v \in Seq(Char)
  /\ f \in Angles => v \in -Turn .. Turn \/ v = Never
  /\ IsDouble(p, f) => v \in -Never .. Never
  /\ f = "value" /\ p.type = "rain" =>
       v \in Seq(Char) /\ Len(v) <= 1 /\ \A i \in 1 .. Len(v) : v[i].c # "mark"
  /\ IsDouble(p, f) \/ f \in Texts \/ (f = "value" /\ p.type = "rain") \/ v \in Int

\* A call with a protocol of the constructors' types.
WellFormed(call) ==
  \E proto \in IF call.form = "pointer" THEN ByPointer ELSE ByArguments :
    /\ call.p.type = proto.type /\ DOMAIN call.p = DOMAIN proto
    /\ \A f \in DOMAIN proto \ {"type", "utc"} : IsField(call.p, f, call.p[f])

ASSUME WordAssumption == Types \cup Keywords \cup {"now"} \subseteq Words
ASSUME ProtocolAssumption ==
  \A call \in Calls : call.form \in {"pointer", "arguments"} /\ WellFormed(call)

-----------------------------------------------------------------------------
(* Resolve                                                                 *)

\* Keyword and value of one token; it counts only if neither is empty.
resolve_kv(kv) == [keyword |-> Trim(Upto(kv, Equals)),
                   value   |-> Trim(Upto(Beyond(kv, Equals), Equals))]

resolve_kv_array(tokens) ==
  LET kvs == [i \in DOMAIN tokens |-> resolve_kv(tokens[i])]
  IN [i \in {j \in DOMAIN kvs : kvs[j].keyword # NULL /\ kvs[j].value # NULL} |-> kvs[i]]

\* How a field is read: which keyword sets it, and whether through stoi or stod.
Text(keyword)   == [keyword |-> keyword, number |-> FALSE]
Number(keyword) == [keyword |-> keyword, number |-> TRUE]

Nothing == [type |-> "none"]     \* a null apbase
Undelivered == [type |-> "undelivered"]
Throws  == [type |-> "throws"]   \* stoi or stod has thrown

\* The pairs are taken from left to right, and a later one overrides.
Resolved(proto, fields, kvs) ==
  LET at(f)   == {i \in DOMAIN kvs : kvs[i].keyword = <<Word(fields[f].keyword)>>}
      last(f) == kvs[Max(at(f))].value
  IN IF \E f \in DOMAIN fields : fields[f].number /\ \E i \in at(f) : kvs[i].value[1].c # "num"
     THEN Throws
     ELSE [f \in DOMAIN proto |->
             IF f \notin DOMAIN fields \/ at(f) = {} THEN proto[f]
             ELSE IF fields[f].number THEN last(f)[1].v ELSE last(f)]

resolve_register(kvs)  == ascii_proto_reg
resolve_start(kvs)     == ascii_proto_start
resolve_stop(kvs)      == ascii_proto_stop
resolve_park(kvs)      == ascii_proto_park
resolve_abortslew(kvs) == ascii_proto_abort_slew
resolve_abortimg(kvs)  == ascii_proto_abort_image

resolve_obsite(kvs) ==
  Resolved(ascii_proto_obsite,
    [sitename |-> Text("sitename"), lon |-> Number("longitude"), lat |-> Number("latitude"),
     alt |-> Number("altitude"), timezone |-> Number("timezone")], kvs)

resolve_homesync(kvs) ==
  Resolved(ascii_proto_home_sync, [ra |-> Number("ra"), dec |-> Number("dec")], kvs)

resolve_slewto(kvs) ==
  Resolved(ascii_proto_slewto,
    [coorsys |-> Number("coorsys"), coor1 |-> Number("coor1"), coor2 |-> Number("coor2")], kvs)

resolve_track(kvs) ==
  Resolved(ascii_proto_track,
    [objid |-> Text("objid"), line1 |-> Text("line1"), line2 |-> Text("line2")], kvs)

\* A possible slip: a keyword that the other side does not write.
resolve_mount_az(kvs) ==
  Resolved(ascii_proto_mount,
    [state |-> Number("state"), errcode |-> Number("errcode"), ra |-> Number("ra"),
     dec |-> Number("dec"), azi |-> Number("az"), alt |-> Number("alt")], kvs)

resolve_mount(kvs) ==
  Resolved(ascii_proto_mount,
    [state |-> Number("state"), errcode |-> Number("errcode"), ra |-> Number("ra"),
     dec |-> Number("dec"), azi |-> Number("azi"), alt |-> Number("alt")], kvs)

resolve_fwhm(kvs) == Resolved(ascii_proto_fwhm, [value |-> Number("value")], kvs)

resolve_focus(kvs) ==
  Resolved(ascii_proto_focus, [state |-> Number("state"), value |-> Number("value")], kvs)

resolve_slit(kvs) ==
  Resolved(ascii_proto_slit, [state |-> Number("state"), command |-> Number("command")], kvs)

resolve_rain(kvs) == Resolved(ascii_proto_rain, [value |-> Number("value")], kvs)

resolve_takeimg(kvs) ==
  Resolved(ascii_proto_take_image,
    [objname |-> Text("objname"), imgtype |-> Text("imgtype"),
     expdur |-> Number("expdur"), frmcnt |-> Number("frmcnt")], kvs)

\* A possible slip: the two image types are mixed up.
resolve_object_mixed(kvs) ==
  Resolved(ascii_proto_object,
    [btime |-> Text("btime"), expdur |-> Number("expdur"), etime |-> Text("etime"),
     frmcnt |-> Number("frmcnt"), imgtype |-> Text("iimgtyp"), iimgtyp |-> Number("imgtype"),
     objname |-> Text("objname"), plan_sn |-> Text("plan_sn"),
     plan_type |-> Number("plan_type"), sabbr |-> Text("sabbr")], kvs)

resolve_object(kvs) ==
  Resolved(ascii_proto_object,
    [btime |-> Text("btime"), expdur |-> Number("expdur"), etime |-> Text("etime"),
     frmcnt |-> Number("frmcnt"), imgtype |-> Text("imgtype"), iimgtyp |-> Number("iimgtyp"),
     objname |-> Text("objname"), plan_sn |-> Text("plan_sn"),
     plan_type |-> Number("plan_type"), sabbr |-> Text("sabbr")], kvs)

resolve_expose(kvs) == Resolved(ascii_proto_expose, [command |-> Number("command")], kvs)

resolve_camera(kvs) ==
  Resolved(ascii_proto_camera,
    [state |-> Number("state"), errcode |-> Number("errcode"), coolget |-> Number("coolget")], kvs)

resolve_fileinfo(kvs) ==
  Resolved(ascii_proto_fileinfo,
    [tmobs |-> Text("tmobs"), subpath |-> Text("subpath"), filename |-> Text("filename"),
     filesize |-> Number("filesize")], kvs)

resolve_filestat(kvs) == Resolved(ascii_proto_filestat, [status |-> Number("status")], kvs)

ByType(type, kvs) ==
  CASE type = "abort_slew" -> resolve_abortslew(kvs) [] type = "abort_image" -> resolve_abortimg(kvs)
    [] type = "fileinfo"   -> resolve_fileinfo(kvs)  [] type = "filestat"    -> resolve_filestat(kvs)
    [] type = "fwhm"       -> resolve_fwhm(kvs)      [] type = "focus"       -> resolve_focus(kvs)
    [] type = "object"     -> resolve_object(kvs)    [] type = "obsite"      -> resolve_obsite(kvs)
    [] type = "rain"       -> resolve_rain(kvs)      [] type = "register"    -> resolve_register(kvs)
    [] type = "slewto"     -> resolve_slewto(kvs)    [] type = "start"       -> resolve_start(kvs)
    [] type = "stop"       -> resolve_stop(kvs)      [] type = "slit"        -> resolve_slit(kvs)
    [] type = "take_image" -> resolve_takeimg(kvs)   [] type = "track"       -> resolve_track(kvs)
    [] type = "camera"     -> resolve_camera(kvs)    [] type = "expose"      -> resolve_expose(kvs)
    [] type = "mount"      -> resolve_mount(kvs)     [] type = "park"        -> resolve_park(kvs)
    [] type = "home_sync"  -> resolve_homesync(kvs)  [] OTHER -> Nothing

\* The type is what stands before the first space; the rest is split at commas.
Resolve(rcvd) ==
  LET type  == Upto(rcvd, Space)
      kvs   == resolve_kv_array(Tokens(Beyond(rcvd, Space), Comma))
      proto == IF Len(type) = 1 THEN ByType(type[1].s, kvs) ELSE Nothing
      basis == Resolved(ascii_proto_base,
                 [utc |-> Text("utc"), gid |-> Text("gid"), uid |-> Text("uid"), cid |-> Text("cid")], kvs)
  IN IF proto \in {Nothing, Throws} THEN proto
     ELSE [proto EXCEPT !.utc = basis.utc, !.gid = basis.gid, !.uid = basis.uid, !.cid = basis.cid]

-----------------------------------------------------------------------------
(* The output buffers                                                      *)

Empty  == <<Newline>>
Spoilt == <<Mark("spoilt"), Newline>>

Init ==
  /\ ibuf_ = 0 /\ buff_ = [i \in 0 .. NBuf - 1 |-> Empty] /\ overrun = FALSE
  /\ calls = <<>> /\ got = Undelivered

\* The terminating 0 needs a place too.
Fits(line) == Len(line) < BufLen

\* A possible slip: the index starts again one buffer too early.
output_compacted_early(s) ==
  LET line == Append(s, Newline)
  IN /\ buff_' = [i \in DOMAIN buff_ |->
          CASE i = ibuf_ -> line
            [] \/ i = ibuf_ + 1 /\ ~Fits(line)
               \/ i = ibuf_ - 1 /\ ~Fits(buff_[i]) -> Spoilt
            [] OTHER -> buff_[i]]
     /\ overrun' = (ibuf_ = NBuf - 1 /\ ~Fits(line))
     /\ ibuf_' = IF ibuf_ + 2 >= NBuf THEN 0 ELSE ibuf_ + 1

\* sprintf into the next buffer of the ring. A line that does not fit reaches into
\* the buffer behind, and what is written there later into the line.
output_compacted(s) ==
  LET line == Append(s, Newline)
  IN /\ buff_' = [i \in DOMAIN buff_ |->
          CASE i = ibuf_ -> line
            [] \/ i = ibuf_ + 1 /\ ~Fits(line)
               \/ i = ibuf_ - 1 /\ ~Fits(buff_[i]) -> Spoilt
            [] OTHER -> buff_[i]]
     /\ overrun' = (ibuf_ = NBuf - 1 /\ ~Fits(line))
     /\ ibuf_' = IF ibuf_ + 1 = NBuf THEN 0 ELSE ibuf_ + 1

\* One call of a Compact*; a line past the last buffer leaves nothing to be said.
Call(call) ==
  LET s == Compact(call.form, call.p)
  IN /\ Len(calls) < MaxCalls /\ ~overrun
     /\ calls = <<>> \/ call \in Again
     /\ IF s = NULL THEN UNCHANGED <<ibuf_, buff_, overrun>> ELSE output_compacted(s)
     /\ calls' = Append(calls, [call |-> call, slot |-> ibuf_,
                                line |-> IF s = NULL THEN NULL ELSE Append(s, Newline)])
     /\ got' = Undelivered

\* The caller writes the string to the connection, and the other side resolves it
\* with its newline replaced by the end of the string.
Deliver ==
  /\ calls # <<>> /\ Last(calls).line # NULL /\ got = Undelivered
  /\ got' = Resolve(Upto(buff_[Last(calls).slot], Newline))
  /\ UNCHANGED <<ibuf_, buff_, overrun, calls>>

Next == (\E call \in Calls : Call(call)) \/ Deliver

Spec == Init /\ [][Next]_vars

-----------------------------------------------------------------------------
(* Properties                                                              *)

\* What the other side should see in field f.
Expected(call, f) ==
  LET p == call.p
  IN CASE f = "utc" -> IF call.form = "pointer" THEN set_timetag ELSE NULL
       [] f \in {"gid", "uid", "cid"} -> IF call.form = "pointer" THEN p[f] ELSE NULL
       [] IsDouble(p, f) -> Double(p[f])[1].v
       [] f = "state" /\ p.type = "focus" -> INT_MIN
       [] f = "value" /\ p.type = "rain" -> IF p.value = NULL THEN 0 ELSE p.value[1].v
       [] OTHER -> p[f]

\* Whether field f arrives as v: a coordinate in degrees within half a unit of its sixth
\* digit, 5/10000 of a degree.
Arrives(call, f, v) ==
  IF f \in Angles /\ call.p[f] # Never
  THEN Magnitude(v - call.p[f]) <= 5
  ELSE v = Expected(call, f)

\* A text that neither separates nor ends like the protocol does.
Clean(v) == /\ v = Trim(v) /\ v = Trimmed(v)
            /\ \A i \in 1 .. Len(v) : v[i] \notin {Comma, Equals}

\* A text that reads like another pair of the line.
Mimics(v) == \E i, j \in 1 .. Len(v) : i < j /\ v[i] = Comma /\ v[j] = Equals

Delivered == got \notin {Undelivered, Nothing, Throws}

TextsOf(p) == Texts \cap DOMAIN p

\* Every protocol whose texts are clean comes out of Resolve as it went into
\* Compact*, field by field, coordinates as near as six digits can say them; apart from
\* the time tag, the rounding of other doubles to six digits and the focuser's state,
\* which is never sent.
RoundTrip ==
  Delivered =>
    LET call == Last(calls).call
    IN (\A f \in TextsOf(call.p) : Clean(call.p[f])) =>
         \A f \in DOMAIN call.p : Arrives(call, f, got[f])

\* A text with separators or punctuation in it damages itself only: what arrives
\* in its field is a part of it or nothing, and every other field arrives as if
\* the text had been clean, unless the text imitates a pair of its own.
DamageIsLocal ==
  Delivered =>
    LET call == Last(calls).call
    IN (\A f \in TextsOf(call.p) : ~Mimics(call.p[f])) =>
         \A f \in DOMAIN call.p :
           IF f \in Texts /\ ~Clean(call.p[f])
           THEN \E i, j \in 0 .. Len(call.p[f]) : got[f] = SubSeq(call.p[f], i + 1, j)
           ELSE Arrives(call, f, got[f])

\* Resolve makes of every line that Compact* write a protocol of the same type, never
\* null, and throws for none but a rain value that is no number and texts that imitate
\* a pair.
OwnLinesResolve ==
  got # Undelivered =>
    LET p == Last(calls).call.p
    IN IF got = Throws
       THEN p.type = "rain" \/ \E f \in TextsOf(p) : Mimics(p[f])
       ELSE got.type = p.type

\* The strings of the last NBuf calls are all still what they were when they were
\* returned, as long as every line has fitted into its buffer.
RecentIntact ==
  (\A k \in 1 .. Len(calls) : Fits(calls[k].line)) =>
    \A k \in 1 .. Len(calls) :
      Len(calls) - k < NBuf /\ calls[k].line # NULL => buff_[calls[k].slot] = calls[k].line

=============================================================================
