------------------------------ MODULE Options ------------------------------
(***************************************************************************)
(* options.c: the command line and the configuration file. The settings    *)
(* are the flags that are on, the texts and the numbers; an argument is    *)
(* its text (as it is and in lower case), the integer atoi reads in it,    *)
(* whether it is a whole number of 32 bits, and for an address, a URL or a *)
(* user and password the parts it is taken apart into. A number in a       *)
(* configuration file is such an argument once it is printed, so that an   *)
(* integer option keeps the integer part of a real.                        *)
(***************************************************************************)
EXTENDS Integers, Sequences, SequencesExt, TLC

Flag(key, on, off) == [key |-> key, kind |-> "flag", on |-> on, off |-> off,
                       lo |-> 0, hi |-> 0]
Switch(key) == Flag(key, {key}, {})
TextOpt(key) == [Switch(key) EXCEPT !.kind = "text"]
Number(key, lo, hi) == [Switch(key) EXCEPT !.kind = "number", !.on = {}, !.lo = lo, !.hi = hi]
Word(key) == [Switch(key) EXCEPT !.kind = "word", !.on = {}]

(* The cases of parse_arg that are one assignment behind one check, in the   *)
(* order of the source.                                                      *)
ApiOptions ==
    {Switch("api-remote"), TextOpt("api-token"), TextOpt("api-cors"), Switch("api-control"),
     Number("api-control-park-timeout", 250, 600000),
     Number("api-control-min-interval", 0, 3600)}
RunOptions ==
    {Flag("background", {"background"}, {"use_colors"}), Switch("bell"),
     Flag("benchmark", {"benchmark"}, {"want_longpoll", "want_stratum", "have_stratum"}),
     TextOpt("cert")}
ReportOptions ==
    {Flag("debug", {"debug"}, {"quiet"}), Switch("device-list"), TextOpt("devices"),
     Switch("hash-meter"), Flag("no-color", {}, {"use_colors"}),
     Flag("no-extranonce", {}, {"extranonce"}), Flag("no-gbt", {}, {"have_gbt"}),
     Flag("no-getwork", {}, {"allow_getwork"}), Flag("no-longpoll", {}, {"want_longpoll"}),
     Flag("no-redirect", {}, {"redirect"}),
     Flag("no-stratum", {}, {"want_stratum", "extranonce"}), TextOpt("pass"),
     Flag("protocol-dump", {"protocol"}, {"quiet"})}
SizeOptions ==
    {Number("queue-depth", 1, 16), Number("progpow-max-epoch", 1, 100000),
     Number("workgroup", 1, 1024), Number("nonces-per-invocation", 1, 256),
     TextOpt("kernel"), Switch("retune"), Switch("no-tune")}
LimitOptions ==
    {Number("retries", -1, 9999), Number("retry-pause", 1, 9999), Number("scantime", 1, 9999),
     Switch("stratum-keepalive"), Flag("syslog", {"use_syslog"}, {"use_colors"}),
     [Number("threads", 0, 9999) EXCEPT !.on = {"threads_set"}],
     Word("benchmark-target"), Word("benchmark-seed"),
     Number("time-limit", 1, 2147483647), Number("timeout", 1, 99999)}
DebugOptions ==
    {Switch("vk-validate"), Switch("vk-pipeline-stats"), Switch("vk-probe-best"),
     Switch("vk-count-reached"), Switch("no-int64"), TextOpt("replay"), Switch("self-test"),
     TextOpt("backend")}
Simple == ApiOptions \cup RunOptions \cup ReportOptions \cup SizeOptions \cup LimitOptions
              \cup DebugOptions \cup {TextOpt("algo-dir"), TextOpt("user"), TextOpt("proxy")}

(* The table getopt and the configuration file share.                        *)
TakesArgument == {"algo", "api-bind", "config", "url", "userpass", "diff-factor",
                  "diff-multiplier", "api-mode"} \cup {o.key : o \in {s \in Simple : s.kind # "flag"}}
options == {o.key : o \in Simple} \cup TakesArgument \cup {"quiet", "help", "version"}

find_option(key) == key \in options

----------------------------------------------------------------------------
(* The settings.                                                             *)

NoTexts == [k \in {} |-> ""]
NoNumbers == [k \in {} |-> 0]
Defaults == [flags |-> {"use_colors", "want_longpoll", "want_stratum", "extranonce",
                        "allow_getwork", "have_gbt", "redirect"},
             texts |-> NoTexts, numbers |-> NoNumbers, exit |-> FALSE]

Exit(o) == [o EXCEPT !.exit = TRUE]
Turn(o, on, off) == [o EXCEPT !.flags = (@ \cup on) \ off]
Put(o, texts) == [o EXCEPT !.texts = texts @@ @]

ParseSimple(o, opt, arg) ==
    CASE opt.kind = "flag" -> Turn(o, opt.on, opt.off)
      [] opt.kind = "text" -> Put(o, opt.key :> arg.text)
      [] opt.kind = "number" ->
           IF arg.n < opt.lo \/ arg.n > opt.hi THEN Exit(o)
           ELSE [Turn(o, opt.on, {}) EXCEPT !.numbers = (opt.key :> arg.n) @@ @]
      [] opt.kind = "word" -> IF arg.word THEN Put(o, opt.key :> arg.text) ELSE Exit(o)

(* HOST:PORT, an address alone, or a port alone.                             *)
ParseApiBind(o, arg) ==
    LET on == Turn(o, {"api_enabled"}, {})
        allow == IF arg.host = "" THEN NoTexts ELSE "api_allow" :> arg.host
    IN  CASE arg.form = "both"    -> [Put(on, allow) EXCEPT
                                        !.numbers = ("api_listen" :> arg.n) @@ @]
          [] arg.form = "address" -> [Put(on, "api_allow" :> arg.host) EXCEPT
                                        !.numbers = ("api_listen" :> 4048) @@ @]
          [] arg.form = "port"    -> [Put(on, "api_allow" :> "127.0.0.1") EXCEPT
                                        !.numbers = ("api_listen" :> arg.n) @@ @]

(* A user, or a user and a password, in front of the host become the ones    *)
(* the pool is given, and are not kept in the URL.                           *)
Credentials(parts) ==
    CASE Len(parts) = 0 -> NoTexts
      [] Len(parts) = 1 -> "user" :> parts[1]
      [] Len(parts) = 2 -> "user" :> parts[1] @@ "pass" :> parts[2]
                              @@ "http user" :> parts[1] @@ "http pass" :> parts[2]

Schemes == {"http", "https", "stratum+tcp", "stratum+ssl", "stratum+tcps"}
Stratum == {"", "stratum+tcp", "stratum+ssl", "stratum+tcps"}

ParseUrl(o, arg) ==
    LET url  == Put(o, Credentials(arg.parts) @@ "url" :> arg.host)
    IN  IF arg.scheme \notin Schemes \cup {""} THEN Exit(o)
        ELSE IF arg.scheme = "" /\ arg.host = "" THEN Exit(o)
        ELSE IF "benchmark" \notin o.flags /\ arg.scheme \in Stratum
             THEN Turn(url, {"have_stratum"}, {})
        ELSE Turn(url, {}, {"have_stratum"})

ParseUserpass(o, arg) ==
    IF Len(arg.parts) < 2 THEN Exit(o) ELSE Put(o, Credentials(arg.parts))

(* files is what the file system holds: for every name the keys and values   *)
(* in the order of the file, or nothing that reads as a JSON object.         *)
RECURSIVE parse_arg(_, _, _, _)

ConfigEntry(o, entry, files) ==
    IF entry.key = "_comment" \/ ~find_option(entry.key) THEN o
    ELSE IF entry.key \in TakesArgument
         THEN IF entry.type \in {"string", "integer", "real"}
              THEN parse_arg(o, entry.key, entry.arg, files)
              ELSE o
    ELSE IF entry.type = "true" THEN parse_arg(o, entry.key, entry.arg, files)
    ELSE o

parse_config(o, config, files) ==
    FoldLeft(LAMBDA s, entry : ConfigEntry(s, entry, files), o, config)

parse_arg(o, key, arg, files) ==
    LET simple == {s \in Simple : s.key = key}
    IN  IF o.exit THEN o
        ELSE IF simple # {} THEN ParseSimple(o, CHOOSE s \in simple : TRUE, arg)
        ELSE CASE key = "algo"     -> Put(o, "algo" :> arg.lower)
               [] key = "api-bind" -> ParseApiBind(o, arg)
               [] key = "config"   ->
                    IF files[arg.text].object
                    THEN parse_config(o, files[arg.text].entries, files)
                    ELSE Exit(o)
               [] key = "api-mode" -> IF arg.text = "http" THEN o ELSE Exit(o)
               [] key = "quiet"    ->
                    IF o.flags \cap {"debug", "protocol"} = {} THEN Turn(o, {"quiet"}, {})
                    ELSE Turn(o, {}, {"quiet"})
               [] key = "url"      -> ParseUrl(o, arg)
               [] key = "userpass" -> ParseUserpass(o, arg)
               [] key \in {"diff-factor", "diff-multiplier"} ->
                    IF arg.n = 0 THEN Exit(o)
                    ELSE [o EXCEPT !.numbers =
                            (IF key = "diff-factor"
                             THEN "factor over" :> arg.n @@ "factor under" :> 1
                             ELSE "factor over" :> 1 @@ "factor under" :> arg.n) @@ @]
               [] OTHER -> Exit(o)

(* The command line is scanned into a list and replayed, the configuration   *)
(* files before everything else.                                             *)
parse_cmdline_in_order(argv, files) ==
    FoldLeft(LAMBDA o, a : parse_arg(o, a.key, a.arg, files), Defaults, argv)
parse_cmdline(argv, files) ==
    LET first == SelectSeq(argv, LAMBDA a : a.key = "config")
        rest  == SelectSeq(argv, LAMBDA a : a.key # "config")
    IN  FoldLeft(LAMBDA o, a : parse_arg(o, a.key, a.arg, files), Defaults, first \o rest)
============================================================================
