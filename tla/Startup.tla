------------------------------ MODULE Startup ------------------------------
(***************************************************************************)
(* main() (sched-exe/main.cpp) up to Service::main_loop(): the command     *)
(* line (CliArgs and CliArgsParser), the scan of the CPU and the options   *)
(* of the service.  Loading the plugins and serving are steps of others.   *)
(***************************************************************************)
EXTENDS Integers, Sequences, FiniteSetsExt

CONSTANTS CommandLines,     \* the sequences of arguments the program may get
          Files,            \* the files and directories there are
          Directories,
          Sizes,            \* for each argument that is an int its value
          Timeouts,         \* and for each that is a double, in hundredths of a second
          Readings          \* what the commands of the scanner may print,
                            \* [name, cores, freqs]

ASSUME StartupAssumption ==
  /\ CommandLines \subseteq Seq(STRING)
  /\ Sizes \in [DOMAIN Sizes -> Int] /\ Timeouts \in [DOMAIN Timeouts -> Int]
  /\ \A r \in Readings : r.cores \in Int

VARIABLES
  at,          \* the next step of main()
  argv,        \* the arguments that are not parsed
  flags,       \* the flags that are set, each with its value or TRUE
  met,         \* met_flags
  flagNum,     \* flag_num
  cpu,         \* Scanner::cpu_, or "none"
  service,     \* the options of Service
  line         \* the command line

startVars == <<at, argv, flags, met, flagNum, cpu, service, line>>

Simple == {"--help", "--debug"}
Valued == {"--input", "--plugins", "--in-queue", "--out-queue", "--timeout"}
Short(f) == CASE f = "--help" -> "-h" [] f = "--debug" -> "-d" [] f = "--input" -> "-i"
              [] f = "--plugins" -> "-p" [] OTHER -> ""
\* A flag without a short name is registered with an empty one: the first of them is
\* found when an argument is empty.
Names(f) == {f, Short(f)} \ (IF f = "--in-queue" THEN {} ELSE {""})

Options(i, o, t) == [in_queue |-> i, out_queue |-> o, timeout |-> t]
Defaults == Options(4, 4, 1000)

StartInit ==
  /\ line \in CommandLines /\ argv = line
  /\ at = "parse" /\ flags = [f \in {} |-> TRUE] /\ met = {} /\ flagNum = 0
  /\ cpu = "none" /\ service = Defaults

-----------------------------------------------------------------------------
\* What the code tests and computes, each after a slip it could contain

Meets_OneName(f, name) == {name}
Meets(f, name) == Names(f) \ {""}

\* file_exist() holds of directories as well.
FileExists(name) == name \in Files \cup Directories
DirectoryExists(name) == name \in Directories

Has(f) == f \in DOMAIN flags

\* try_parse() of a flag's type: "2.5" is a timeout and no size.
Numbers(f) == IF f = "--timeout" THEN Timeouts ELSE Sizes
IsNumber(f) == flags[f] \in DOMAIN Numbers(f)
Number(f) == Numbers(f)[flags[f]]

\* CliArgs::init(): what is wrong with the flags and their values; 0 is a size, and
\* a timeout has to be positive.
Inconsistent ==
  \/ Has("--help") /\ flagNum # 1
  \/ Has("--input") /\ ~FileExists(flags["--input"])
  \/ Has("--plugins") /\ ~DirectoryExists(flags["--plugins"])
  \/ \E f \in {"--in-queue", "--out-queue"} :
       Has(f) /\ (~IsNumber(f) \/ Number(f) < 0)
  \/ Has("--timeout") /\ (~IsNumber("--timeout") \/ Number("--timeout") <= 0)

Option(f, default) == IF Has(f) THEN Number(f) ELSE default

-----------------------------------------------------------------------------
Exit(code) == at' = code
Unparsed == UNCHANGED <<argv, flags, met, flagNum, line>>

\* An iteration of the loop of CliArgsParser::parse(): a flag met under either of
\* its names, a valued flag at the end and an unknown flag are errors.
ParseArg ==
  /\ at = "parse" /\ argv # <<>>
  /\ flagNum' = flagNum + 1
  /\ LET name == Head(argv)
         Is(f) == name \in Names(f) /\ name \notin met
     IN  \/ \E f \in Simple :
              /\ Is(f)
              /\ flags' = [g \in DOMAIN flags \cup {f} |-> IF g = f THEN TRUE ELSE flags[g]]
              /\ met' = met \cup Meets(f, name)
              /\ argv' = Tail(argv) /\ UNCHANGED at
         \/ \E f \in Valued :
              /\ Is(f) /\ Len(argv) > 1
              /\ flags' = [g \in DOMAIN flags \cup {f} |-> IF g = f THEN argv[2] ELSE flags[g]]
              /\ met' = met \cup Meets(f, name)
              /\ argv' = Tail(Tail(argv)) /\ UNCHANGED at
         \/ /\ ~\E f \in Simple \cup Valued : Is(f) /\ (f \in Valued => Len(argv) > 1)
            /\ Exit("-1") /\ UNCHANGED <<argv, flags, met>>
  /\ UNCHANGED <<cpu, service, line>>

\* The rest of CliArgs::init(), and the flag -h.
CheckArgs ==
  /\ at = "parse" /\ argv = <<>>
  /\ at' = IF Inconsistent THEN "-1" ELSE IF Has("--help") THEN "0" ELSE "scan"
  /\ Unparsed /\ UNCHANGED <<cpu, service>>

\* Scanner::scan(): what cannot be found gets a default.  find_cpu_freq() takes the
\* lines as long as they grow, and is an error once one does not.
CpuName(name) == IF name = "" THEN "Unknown CPU" ELSE name
CpuCores(cores) == Max({1, cores})
Frequency(freqs) ==
  IF \E i \in DOMAIN freqs : freqs[i] <= (IF i = 1 THEN 0 ELSE freqs[i - 1]) THEN 1000
  ELSE IF freqs = <<>> THEN 0 ELSE freqs[Len(freqs)]

Scan ==
  /\ at = "scan"
  /\ \E r \in Readings :
       cpu' = [type |-> "Cpu",
               name |-> CpuName(r.name),
               cores |-> CpuCores(r.cores),
               frequency_mhz |-> Frequency(r.freqs)]
  /\ at' = "load"
  /\ Unparsed /\ UNCHANGED service

\* After the plugins have been loaded: ei_init(), and the service's setters.
Configure ==
  /\ at = "configure"
  /\ \/ Exit("-3") /\ UNCHANGED service
     \/ /\ at' = "open"
        /\ service' = Options(Option("--in-queue", service.in_queue),
                              Option("--out-queue", service.out_queue),
                              Option("--timeout", service.timeout))
  /\ Unparsed /\ UNCHANGED cpu

\* The file may be gone since its existence was tested.
Open ==
  /\ at = "open"
  /\ \/ at' = "main_loop"
     \/ Has("--input") /\ Exit("-3")
  /\ Unparsed /\ UNCHANGED <<cpu, service>>

\* main_loop() begins with the queues, whose constructor refuses the size 0.
BuildQueues ==
  /\ at = "main_loop"
  /\ at' = IF 0 \in {service.in_queue, service.out_queue} THEN "-42" ELSE "serve"
  /\ Unparsed /\ UNCHANGED <<cpu, service>>

Start == ParseArg \/ CheckArgs \/ Scan \/ Configure \/ Open \/ BuildQueues

-----------------------------------------------------------------------------
\* Properties

\* The places of the arguments that are values of the flag before them.
Values ==
  CHOOSE v \in SUBSET (DOMAIN line) :
    \A i \in DOMAIN line :
      i \in v <=> i > 1 /\ i - 1 \notin v /\ \E f \in Valued : line[i - 1] \in Names(f)
Uses(f) == {i \in (DOMAIN line) \ Values : line[i] \in Names(f)}
Asked(f, default) ==
  IF Uses(f) = {} THEN default ELSE Numbers(f)[line[Max(Uses(f)) + 1]]

(* A service that starts has the options its command line asks for, by whichever of
   a flag's names and in any order, and for the others what Service's constructor
   sets (of the output queue not what the help says); no flag was named twice or
   without a value, the queues have room and the timeout is positive.  (The empty
   argument is no name, and the last use of --in-queue counts.) *)
ServesAsAsked ==
  at = "serve" =>
    /\ \A f \in Simple \cup Valued : Cardinality({i \in Uses(f) : line[i] # ""}) <= 1
    /\ Uses("--help") = {}
    /\ service = Options(Asked("--in-queue", Defaults.in_queue),
                         Asked("--out-queue", Defaults.out_queue),
                         Asked("--timeout", Defaults.timeout))
    /\ service.in_queue > 0 /\ service.out_queue > 0 /\ service.timeout > 0
    /\ cpu.cores >= 1
=============================================================================
