------------------------------ MODULE MCDaemon ------------------------------
(* Command lines, plugin directories and commands for Daemon. *)
EXTENDS Daemon

-----------------------------------------------------------------------------
\* The start of the program

MCCommandLines == {
  <<>>, <<"-h">>, <<"-h", "-d">>, <<"-d", "--debug">>, <<"--unknown">>, <<"--plugins">>,
  <<"-p", "two">>, <<"-p", "bad">>, <<"-p", "empty">>, <<"-p", "later">>, <<"-p", "other">>,
  <<"-p", "-h">>, <<"-i", "gone">>, <<"-i", "two">>, <<"-p", "input">>,
  <<"-d", "-i", "input", "--out-queue", "2", "-p", "two">>,
  <<"--in-queue", "2", "--timeout", "5">>, <<"--in-queue", "-1">>, <<"--in-queue", "x">>,
  <<"--in-queue", "2.5">>, <<"--out-queue", "0", "-d">>, <<"--out-queue", "2.5">>,
  <<"--timeout", "0">>, <<"--timeout", "-1">>, <<"--timeout", "x">>,
  <<"--timeout", "2.5", "--out-queue", "5">>, <<"--timeout", "5", "--timeout", "5">>,
  <<"", "2">>, <<"--in-queue", "2", "", "2">> }
MCFiles == {"input"}
MCDirectories == {".", "two", "bad", "empty", "later", "other"}
MCSizes == [s \in {"-1", "0", "2", "5"} |->
              CASE s = "-1" -> -1 [] s = "0" -> 0 [] s = "2" -> 2 [] OTHER -> 5]
MCTimeouts == [s \in DOMAIN MCSizes \cup {"2.5"} |->
                 IF s = "2.5" THEN 250 ELSE 100 * MCSizes[s]]
MCReadings == {[name |-> "", cores |-> 0, freqs |-> <<>>],
               [name |-> "a cpu", cores |-> 4, freqs |-> <<2000, 2600, 2600>>]}

File(fate, family, version) ==
  [fate |-> fate, family |-> family, version |-> version, device |-> "Cpu", binds |-> {"Cpu"}]
MCContents ==
  [d \in MCDirectories |->
     CASE d = "." -> <<File("incomplete", "", ""), File("other", "", ""),
                       File("fine", "swm-fair-sharing", "1.0"), File("fine", "swm-fcfs", "1.0")>>
       [] d = "two" -> <<File("fine", "swm-fcfs", "2.0"), File("no_library", "", ""),
                         File("fine", "swm-fcfs", "1.0"), File("fine", "swm-fcfs", "1.0")>>
       [] d = "bad" -> <<File("no_library", "", ""), File("no_descriptor", "", "")>>
       [] d = "empty" -> <<File("other", "swm-fcfs", "1.0")>>
       [] d = "other" -> <<File("fine", "swm-fair-sharing", "1.0")>>
       [] d = "later" -> <<File("no_context", "swm-fcfs", "1.0"),
                           File("fine", "swm-fcfs", "1.0")>>]

-----------------------------------------------------------------------------
\* The terms of a command

List(elements) == [form |-> "list", elements |-> elements]
Other == [form |-> "other"]
Pair(name, id, children) ==
  [form |-> "tuple", arity |-> 2, name |-> name, id |-> id, children |-> List(children)]
Triple == [form |-> "tuple", arity |-> 3, name |-> "cluster", id |-> "c1", children |-> List(<<>>)]

Nodes(ids) == [i \in DOMAIN ids |-> Pair("node", ids[i], <<>>)]
Part(id, children) == Pair("partition", id, children)
Cluster(id, children) == Pair("cluster", id, children)
Grid(clusters) == List(<<Pair("grid", "g", clusters)>>)

\* What a partition may hold: nodes, another partition, or what does not belong there.
Holdings == {
  <<>>, Nodes(<<"n1">>), Nodes(<<"n1", "n2">>), Nodes(<<"n1", "n1">>), Nodes(<<"n3">>),
  <<Part("p2", Nodes(<<"n1", "n2">>))>>, Nodes(<<"n1">>) \o <<Part("p2", Nodes(<<"n2">>))>>,
  <<Part("p1", Nodes(<<"n1">>))>>, <<Cluster("c2", <<>>)>>, <<Pair("node", "p2", <<>>)>>,
  <<Pair("node", "n1", Nodes(<<"n2">>))>>, <<Pair("cluster", "n1", <<>>)>> }
Hierarchies ==
  {Grid(<<Cluster("c1", <<Part("p1", h)>>)>>) : h \in Holdings}
    \cup {List(<<Cluster("c1", <<Part("p1", g)>>), Cluster("c2", <<Part("p2", h)>>)>>) :
            g \in {Nodes(<<"n1">>), Nodes(<<"n1", "n2">>)}, h \in Holdings}
    \cup {Grid(<<Cluster("c2", <<Part("p2", Nodes(<<"n2">>)), Part("p1", h)>>)>>) : h \in Holdings}
    \cup {List(<<>>), Cluster("c1", <<Part("p1", Nodes(<<"n1", "n2">>))>>),
          Grid(<<Cluster("c1", Nodes(<<"n1", "n2">>))>>),
          Grid(<<Cluster("c1", <<>>), Cluster("c1", <<>>)>>),
          List(<<Part("p1", Nodes(<<"n1", "n2">>))>>), Grid(<<Triple>>), Grid(<<Other>>),
          Grid(<<Pair(Malformed, "c1", <<>>)>>), Other}

\* A grid whose clusters, partitions and nodes are all up, the partitions in each other.
Deep == Grid(<<Cluster("c1", <<Part("p1", Nodes(<<"n1">>) \o <<Part("p2", Nodes(<<"n2">>))>>)>>)>>)

\* With the terms inside them.
RECURSIVE WithTermsIn(_)
WithTermsIn(terms) ==
  IF terms = {} THEN {} ELSE terms \cup WithTermsIn(UNION {TermsIn(t) : t \in terms})
MCRhTerms == WithTermsIn(Hierarchies \cup {Deep, List(<<>>), Other})

Entity(id, up) == [id |-> id, up |-> up]
Node(id, up, template) == [id |-> id, up |-> up, template |-> template]
Some(id, cluster, count) ==
  [id |-> id, cluster |-> cluster, count |-> count, queued |-> TRUE, deps |-> {},
   gang |-> NoGang, fits |-> {"n1", "n2"}]

Jobs == <<Some("j1", "c1", 2), Some("j2", "c1", 1), Some("j3", "c2", 1), Some("j4", "c3", 1),
          Some("j5", "c1", 0)>>

One(id) == Some(id, "c1", 1)
After(id, dep) == [One(id) EXCEPT !.deps = {dep}]
InGang(id, gang) == [One(id) EXCEPT !.gang = gang]
OnlyOn(id, nodes) == [One(id) EXCEPT !.fits = nodes]
Running(id) == [One(id) EXCEPT !.queued = FALSE]

\* Dependencies before and after their jobs, twice the same id, gangs that are in a row or
\* not, too large or without a node that fits, and jobs that no node fits.
JobLists == {
  <<After("j1", "j2"), One("j2"), After("j3", "j2")>>, <<Running("j1"), After("j2", "j1")>>,
  <<One("j1"), Running("j1"), After("j1", "j1")>>,
  <<InGang("j1", "a"), InGang("j2", "a"), InGang("j3", "b"), InGang("j4", "a")>>,
  <<InGang("j1", "a"), One("j2"), InGang("j3", "a")>>,
  <<InGang("j1", "a"), InGang("j2", "a"), InGang("j3", "a"), After("j4", "j3")>>,
  <<OnlyOn("j1", {"n2"}), [InGang("j2", "a") EXCEPT !.fits = {"n2", "n3"}], InGang("j3", "a")>>,
  <<OnlyOn("j1", {}), [Some("j2", "c1", 2) EXCEPT !.fits = {"n1", "n3"}], One("j3")>> }

Body_(term) == [version |-> "current", term |-> term]
Terms(jobs, rh, clusters, partitions, nodes) ==
  [schedulers |-> Other, rh |-> rh, jobs |-> List(jobs), grid |-> [form |-> "empty"],
   clusters |-> List(clusters), partitions |-> List(partitions), nodes |-> List(nodes)]
Usual == Terms(Jobs, Deep, <<Entity("c1", TRUE), Entity("c2", TRUE)>>,
               <<Entity("p1", TRUE), Entity("p2", TRUE)>>,
               <<Node("n1", TRUE, FALSE), Node("n2", TRUE, FALSE)>>)

\* The slices of all types, the first type last.
Slices(terms) ==
  [i \in 1..7 |-> [type |-> 7 - i, body |-> Body_(terms[DataTypes[8 - i]])]]
Command(kind, slices) == [kind |-> kind, total |-> Len(slices), slices |-> slices]
Schedule(terms) == Command("schedule", Slices(terms))

OfHierarchies == {[Usual EXCEPT !.rh = rh] : rh \in Hierarchies}
OfStates ==
  {[Usual EXCEPT !.clusters = List(<<Entity("c1", c), Entity("c2", TRUE)>>),
                 !.partitions = List(<<Entity("p1", TRUE), Entity("p2", p)>>),
                 !.nodes = List(<<Node("n1", n, FALSE), Node("n2", TRUE, t)>>)] :
     c, p, n, t \in BOOLEAN}
OfJobs == {[Usual EXCEPT !.jobs = List(<<>>)], [Usual EXCEPT !.jobs = List(<<>>), !.rh = List(<<>>)]}
            \cup {[Usual EXCEPT !.jobs = List(jobs)] : jobs \in JobLists}

\* The same id twice.
Twice(id, up) == <<Entity(id, up), Entity(id, ~up)>>
OfDoubles ==
  {[Usual EXCEPT !.clusters = List(Twice("c1", up))] : up \in BOOLEAN}
    \cup {[Usual EXCEPT !.partitions = List(Append(Twice("p1", up), Entity("p2", TRUE)))] :
            up \in BOOLEAN}
    \cup {[Usual EXCEPT !.nodes = List(<<Node("n1", up, FALSE), Node("n2", TRUE, FALSE),
                                       Node("n1", ~up, FALSE)>>)] : up \in BOOLEAN}
OfMalformed ==
  {[Usual EXCEPT ![type] = term] : type \in {"jobs", "clusters", "partitions", "nodes"},
                                   term \in {Other, List(<<Malformed>>), List(<<>>)}}
    \cup {[Usual EXCEPT !.grid = [form |-> "other", sound |-> s]] : s \in BOOLEAN}
    \cup {[Usual EXCEPT !.jobs = List(<<Malformed>>), !.nodes = Other],
          [Usual EXCEPT !.jobs = Other, !.nodes = List(<<Malformed>>)]}

\* Slices that are missing, doubled, of an old version, out of range or cut off.
OfSlices ==
  LET s == Slices(Usual)
  IN  {Command("schedule", [s EXCEPT ![i].body = b]) :
         i \in 1..7, b \in {Null, [version |-> "old", term |-> Other]}}
        \cup {Command("schedule", [s EXCEPT ![i].type = t]) : i \in {1, 4}, t \in {6, 5, 7, -1}}
        \cup {[kind |-> "interrupt", total |-> t, slices |-> SubSeq(s, 1, 2)] : t \in {2, 7, -128}}
        \cup {[kind |-> "interrupt", total |-> 1, slices |-> <<[s[1] EXCEPT !.type = -128]>>]}
        \cup {Command("schedule", Tail(s)), Command("schedule", Reverse(s))}
        \cup {[kind |-> "schedule", total |-> t, slices |-> Front(s)] : t \in {6, 7, 8}}

MCPackets ==
  {Schedule(terms) : terms \in OfHierarchies \cup OfStates \cup OfJobs
                                \cup OfDoubles \cup OfMalformed}
    \cup OfSlices
    \cup {Command(kind, <<>>) : kind \in {"schedule", "interrupt", "metrics", "exchange", "unknown"}}
=============================================================================
