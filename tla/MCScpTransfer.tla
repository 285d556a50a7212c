---------------------------- MODULE MCScpTransfer ----------------------------
(***************************************************************************)
(* ScpTransfer on small trees: every job of a few sources and a few        *)
(* destinations, with every option.                                        *)
(***************************************************************************)
EXTENDS ScpTransferInv

CONSTANTS a, b

\* A file of n units, whose data is known by its path.
Text(p, n) == File([i \in 0 .. n - 1 |-> [of |-> p, at |-> i]])

Tree(nodes) == [p \in {<<>>} \cup {n[1] : n \in nodes} |->
                  IF p = <<>> THEN Dir ELSE (CHOOSE n \in nodes : n[1] = p)[2]]

\* A directory with two files; with a directory and a link to itself; with a
\* file and a link to it; with a link that dangles.
Sources ==
  {Tree({<< <<a>>, Dir >>, << <<a, a>>, Text(<<a, a>>, 3) >>,
         << <<a, b>>, Text(<<a, b>>, 1) >>}),
   Tree({<< <<a>>, Dir >>, << <<a, a>>, Dir >>, << <<a, a, a>>, Text(<<a, a, a>>, 1) >>,
         << <<a, b>>, Link(<<>>) >>}),
   Tree({<< <<a>>, Dir >>, << <<a, a>>, Text(<<a, a>>, 2) >>, << <<a, b>>, Link(<<a>>) >>}),
   Tree({<< <<a>>, Dir >>, << <<a, a>>, Link(<<b>>) >>})}

\* Nothing there; a directory and a longer file; a file in the way; links.
Destinations ==
  {Tree({}),
   Tree({<< <<a>>, Dir >>, << <<a, a>>, Text(<<b, b>>, 5) >>, << <<b>>, Dir >>}),
   Tree({<< <<a>>, Text(<<b, b>>, 4) >>}),
   Tree({<< <<a>>, Dir >>, << <<a, a>>, Link(<<b>>) >>, << <<a, b>>, Dir >>}),
   Tree({<< <<a>>, Link(<<b>>) >>, << <<b>>, Text(<<b, b>>, 1) >>})}

\* SOURCE may be a path that does not exist, and may end with a slash if it is a
\* directory.  DEST is empty, is a name or is a name and a slash.
MCJobs ==
  {j \in [src : Sources, local : {<<a>>, <<a, a>>, <<a, b>>},
          base : {<<>>, <<a>>, <<b>>}, dest : {<<>>, <<a>>}, slash : BOOLEAN,
          recursive : BOOLEAN, no_link : BOOLEAN, old : Destinations] :
     /\ j.base = <<>> => Dir \in Lstat(j.src, j.local) /\ j.slash
     /\ j.base # <<>> => j.base = <<Last(j.local)>>
     /\ j.dest = <<>> => j.slash}
=============================================================================
