----------------------------- MODULE DdtpStartup -----------------------------
(***************************************************************************)
(* ddtp-serve and ddtp-cli from their command lines to the answer of the   *)
(* first LOAD_REQUEST: the options, dinterr_sock_create on either side,    *)
(* connect, the payload that names the file and the one that answers it.   *)
(* Both run on one machine; what follows the answer is DdtpSystem's.       *)
(***************************************************************************)
EXTENDS Cxxopts, DdtpPayload

CONSTANTS
  Dotted,          \* the words inet_addr and inet_aton read
  Local,           \* those that are addresses of the machine
  Loopback,        \* where a connection to 0.0.0.0 goes
  Ephemeral,       \* ports a kernel may pick for a socket that asks for port 0
  Paths,           \* the names of files of the server, as sent
  SetupFaults      \* calls that may fail: "socket", "bind", "listen", "connect", "open"

ASSUME LocalAssumption == /\ Local \subseteq Dotted \ {"0.0.0.0", "255.255.255.255"}
                          /\ Loopback \in Local
ASSUME EphemeralAssumption == Ephemeral \subseteq 1 .. 65535
ASSUME PathsAssumption == NoName \notin Paths
ASSUME ProgramsAssumption == Programs = {"serve", "cli"}

VARIABLES
  dsock,           \* the dinterr_sock_t of each program
  request,         \* the LOAD_REQUEST on its way, or <<>>
  answer,          \* the answer on its way, or <<>>
  watched,         \* the file the server watches, or NoName
  loadError,       \* history: the error_code of the server's load, 0 for none
  told             \* the error code the client printed, 0 for none

loadVars == <<request, answer, watched, loadError, told>>
startVars == <<parseVars, dsock, loadVars>>
optionVars == <<argv, current, letter, values, given, number>>

Option(p, option) == values[p][option][1]

(* DdtpServerOptions of ddtp_serve.cpp and those of ddtp_cli.cpp.          *)
PlainWord(word) == [word |-> word, negative |-> FALSE, base |-> 10, digits |-> <<>>]
OptionSpec(short, long, type, default) ==
  [short |-> short, long |-> long, type |-> type, default |-> default]
ServeOptions ==
  { OptionSpec("i", "ipaddr", "string", <<PlainWord("ALL")>>),
    OptionSpec("p", "port", "uint16_t", <<8992>>),
    OptionSpec("v", "verbose", "bool", <<FALSE>>),
    OptionSpec("h", "help", "bool", <<FALSE>>) }
CliOptions ==
  { OptionSpec("f", "file", "string", <<>>),
    OptionSpec("c", "csv", "string", <<>>),
    OptionSpec("s", "server", "string", <<>>),
    OptionSpec("i", "iterations", "int", <<10>>),
    OptionSpec("p", "port", "uint16_t", <<8992>>),
    OptionSpec("v", "verbose", "bool", <<FALSE>>),
    OptionSpec("", "header", "bool", <<FALSE>>),
    OptionSpec("h", "help", "bool", <<FALSE>>) }

ASSUME OptionsAssumption ==
  OptionsOf = [p \in Programs |-> IF p = "serve" THEN ServeOptions ELSE CliOptions]

(* dinterr_sock_init.                                                      *)
SockInit == [open |-> FALSE, address |-> "0.0.0.0", port |-> 0]

StartInit ==
  /\ ParseInit
  /\ dsock = [p \in Programs |-> SockInit]
  /\ request = <<>> /\ answer = <<>> /\ watched = NoName /\ loadError = 0 /\ told = 0

Exit(p, code) ==
  /\ Goto(p, "exit")
  /\ status' = [status EXCEPT ![p] = code]
  /\ UNCHANGED optionVars

Continue(p, label) == Goto(p, label) /\ UNCHANGED <<status, optionVars>>

------------------------------------------------------------------------------
(* main.                                                                   *)

ServeHelp ==
  /\ pc["serve"] = "parsed" /\ Count("serve", "help") > 0
  /\ Exit("serve", 0)
  /\ UNCHANGED <<dsock, loadVars>>

RunServer ==
  /\ pc["serve"] = "parsed" /\ Count("serve", "help") = 0
  /\ Continue("serve", "create")
  /\ UNCHANGED <<dsock, loadVars>>

(* as() throws for an option that has neither a value nor a default; of    *)
(* --help nobody asks the count.                                           *)
CliMissing == \E option \in {"server", "file", "csv"} : values["cli"][option] = <<>>

CliRefuse ==
  /\ pc["cli"] = "parsed" /\ CliMissing
  /\ Throw("cli")
  /\ UNCHANGED <<dsock, loadVars>>

RunClient ==                              \* open_for_append, the header line
  /\ pc["cli"] = "parsed" /\ ~CliMissing
  /\ \/ Continue("cli", "create")
     \/ "open" \in SetupFaults /\ Exit("cli", 255)
  /\ UNCHANGED <<dsock, loadVars>>

------------------------------------------------------------------------------
(* dinterr_sock_create.                                                    *)

ReturnOf(p) == IF p = "serve" THEN 0 ELSE 255

NoSocket(p) ==
  /\ pc[p] = "create" /\ "socket" \in SetupFaults
  /\ Exit(p, ReturnOf(p))
  /\ UNCHANGED <<dsock, loadVars>>

InetAddr(word) == IF word \in Dotted THEN word ELSE "255.255.255.255"
BindAddress ==
  LET word == Option("serve", "ipaddr").word
  IN  IF word = "ALL" THEN "0.0.0.0" ELSE InetAddr(word)

(* The kernel of 4.19 binds to the addresses of the machine, to any, and   *)
(* to the broadcast address that stands for a word inet_addr cannot read.  *)
Bindable == Local \cup {"0.0.0.0", "255.255.255.255"}

(* The port the socket is bound to: for port 0 the kernel picks one, which *)
(* the server never asks for.                                              *)
BindPorts ==
  LET port == Option("serve", "port")
  IN  IF port = 0 THEN Ephemeral ELSE {port}

CreateServer ==
  /\ pc["serve"] = "create"
  /\ BindAddress \in Bindable
  /\ \E port \in BindPorts :
       dsock' = [dsock EXCEPT !["serve"] =
         [open |-> TRUE, address |-> BindAddress, port |-> port]]
  /\ Continue("serve", "listening")
  /\ UNCHANGED loadVars

(* sock_cleanup_fail: the socket is closed, the dinterr_sock_t is as after  *)
(* dinterr_sock_init, and main returns.                                    *)
CreateServerFails ==
  /\ pc["serve"] = "create"
  /\ BindAddress \notin Bindable \/ SetupFaults \cap {"bind", "listen"} # {}
  /\ dsock' = [dsock EXCEPT !["serve"] = SockInit]
  /\ Exit("serve", 0)
  /\ UNCHANGED loadVars

(* Bug: the address is left as dinterr_sock_init made it.                  *)
InetAtonNothing(word) == SockInit.address

(* inet_aton returns 0 for a word it cannot read, create looks for -1: the *)
(* address stays 0.0.0.0.                                                  *)
InetAton(word) == IF word \in Dotted THEN word ELSE SockInit.address

CreateClient ==
  /\ pc["cli"] = "create"
  /\ dsock' = [dsock EXCEPT !["cli"] =
       [open |-> TRUE, address |-> InetAton(Option("cli", "server").word),
        port |-> Option("cli", "port")]]
  /\ Continue("cli", "connect")
  /\ UNCHANGED loadVars

------------------------------------------------------------------------------
(* dinterrd_connect.                                                       *)

Destination(address) == IF address = "0.0.0.0" THEN Loopback ELSE address
Listens ==
  /\ pc["serve"] = "listening"
  /\ dsock["serve"].port = dsock["cli"].port
  /\ dsock["serve"].address \in {"0.0.0.0", Destination(dsock["cli"].address)}
  /\ Destination(dsock["cli"].address) \in Local

(* The server accepts, and the client sends its LOAD_REQUEST.              *)
Connect ==
  /\ pc["cli"] = "connect" /\ Listens
  /\ request' = <<Serialized(FillCharData(PayloadInit("LOAD_REQUEST"),
                                          Option("cli", "file").word))>>
  /\ Continue("cli", "load")
  /\ UNCHANGED <<dsock, answer, watched, loadError, told>>

ConnectFails ==
  /\ pc["cli"] = "connect"
  /\ ~Listens \/ "connect" \in SetupFaults
  /\ Exit("cli", 255)
  /\ UNCHANGED <<dsock, loadVars>>

(* _ddtp_load_file_inotify: inotify_init, calloc, inotify_add_watch; then  *)
(* the reference and the watcher.                                          *)
ErrorsBefore == {1, 2}
AddWatchError == 3
ErrorsAfter == {8, 9}
AnswerTo(code) ==
  IF code = 0 THEN PayloadInit("LOAD_SUCCEED")
  ELSE FillShortData(PayloadInit("LOAD_FAIL"), code)

ServerLoad(code) ==
  LET name == Deserialized(request[1]).name
  IN  /\ request # <<>> /\ request' = <<>>
      /\ code \in ErrorsBefore \cup (IF name \in Paths THEN {0} \cup ErrorsAfter
                                                       ELSE {AddWatchError})
      /\ answer' = <<Serialized(AnswerTo(code))>>
      /\ watched' = IF code = 0 THEN name ELSE watched
      /\ loadError' = code
      /\ UNCHANGED <<parseVars, dsock, told>>

ReadSucceed ==
  /\ pc["cli"] = "load" /\ answer # <<>> /\ Deserialized(answer[1]).type = "LOAD_SUCCEED"
  /\ answer' = <<>>
  /\ Continue("cli", "reading")
  /\ UNCHANGED <<dsock, request, watched, loadError, told>>

ReadFail ==
  /\ pc["cli"] = "load" /\ answer # <<>> /\ Deserialized(answer[1]).type # "LOAD_SUCCEED"
  /\ answer' = <<>>
  /\ told' = ExtractShortData(Deserialized(answer[1]))
  /\ Exit("cli", 255)
  /\ UNCHANGED <<dsock, request, watched, loadError>>

StartNext ==
  \/ ParseNext /\ UNCHANGED <<dsock, loadVars>>
  \/ ServeHelp \/ RunServer \/ CliRefuse \/ RunClient
  \/ \E p \in Programs : NoSocket(p)
  \/ CreateServer \/ CreateServerFails \/ CreateClient
  \/ Connect \/ ConnectFails
  \/ \E code \in ErrorsBefore \cup {0, AddWatchError} \cup ErrorsAfter : ServerLoad(code)
  \/ ReadSucceed \/ ReadFail

StartSpec == StartInit /\ [][StartNext]_startVars

------------------------------------------------------------------------------
(* The types.  A program has a status once it has ended, and the value of  *)
(* an integer option is one of its type.                                   *)
StartTypeOK ==
  /\ pc \in [Programs -> {"parse", "number", "parsed", "create", "listening",
                          "connect", "load", "reading", "exit"}]
  /\ status \in [Programs -> {Running, 0, 1, 255}]
  /\ \A p \in Programs : (status[p] # Running) <=> (pc[p] = "exit")
  /\ \A p \in Programs : current[p] \in 1 .. Len(argv[p]) + 1
  /\ \A p \in Programs, type \in {"uint16_t", "int"} :
       \A o \in {o \in OptionsOf[p] : o.type = type} :
         \A n \in DOMAIN values[p][o.long] :
           values[p][o.long][n] \in IF type = "int"
             THEN -(Modulus(o) \div 2) .. Modulus(o) \div 2 - 1 ELSE 0 .. Modulus(o) - 1

(* A client that has asked a server to load a file asks the one that       *)
(* listens at the address and port it was given, and which was told the    *)
(* same port or left it to the kernel.  With a host name for the address   *)
(* it asks the server of its own machine: inet_aton cannot read the name,  *)
(* and says so with 0, not -1.                                             *)
ConnectsWhereTold ==
  LET server == Option("cli", "server").word
      asked  == IF server \in Dotted THEN Destination(server) ELSE Loopback
  IN  pc["cli"] \in {"load", "reading"} =>
        /\ pc["serve"] = "listening"
        /\ Option("serve", "port") \in {0, Option("cli", "port")}
        /\ Option("serve", "ipaddr").word \in {"ALL", "0.0.0.0", asked}

(* The file the server watches is the one the client named, and the client *)
(* reads records only of a file that is watched; a name that does not fit  *)
(* a payload is watched by nobody.                                         *)
WatchesNamedFile ==
  /\ watched # NoName => watched = Option("cli", "file").word
  /\ pc["cli"] = "reading" => watched # NoName

(* The error the client tells is the one the server met, and it tells of   *)
(* none before the server has.                                             *)
ErrorAsMet ==
  /\ told \in {0, loadError}
  /\ pc["cli"] = "exit" /\ request = <<>> /\ answer = <<>> => told = loadError
==============================================================================
