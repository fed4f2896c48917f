------------------------------ MODULE MCFormat ------------------------------
EXTENDS Format

(* The smallest volume, a floppy, sizes around those where block sizes     *)
(* change, one whose trees have a map node each, one with four (formatted  *)
(* once), and maps whose partitions start at different places.             *)
Plain(size) == [size |-> size, file |-> TRUE, map |-> << >>, zero |-> TRUE, mounted |-> FALSE,
                runs |-> 2]

mc_Disks ==
    {Plain(s) : s \in {1599, 1600, 40000, 65536, 65541, 131072, 270000}}
    \cup {[Plain(2097160) EXCEPT !.runs = 1],
          [Plain(1620) EXCEPT !.file = FALSE], [Plain(2880) EXCEPT !.mounted = TRUE],
          [Plain(4000) EXCEPT !.map = <<[at |-> 67, len |-> 1603]>>, !.zero = FALSE],
          [Plain(6000) EXCEPT !.map = <<[at |-> 64, len |-> 1700], [at |-> 1764, len |-> 1599]>>,
                              !.zero = FALSE, !.file = FALSE]}

Line(tool) == [tool |-> tool, part |-> NoPart, force |-> FALSE, mode |-> {}, bads |-> << >>]

Bads == <<1500, 20, 24, 1500, 20, 22, 26, 28, 1599>>

mc_Lines ==
    {[Line("hformat") EXCEPT !.part = p, !.force = f] : p \in {NoPart, 0, 1}, f \in BOOLEAN}
    \cup {[Line(t) EXCEPT !.part = p, !.force = TRUE] :
              t \in {"mkfs.hfs", "mkfs.hfs+"}, p \in {NoPart, 1}}
    \cup {Line(t) : t \in {"mkfs.hfs", "hformat+"}}
    \cup {[Line("hfs_format") EXCEPT !.mode = m, !.part = p, !.bads = Bads] :
              p \in {0, 1}, m \in {{}, {"2048"}, {"nocache"}}}
    \cup {[Line("hfs_format") EXCEPT !.part = 0, !.bads = b] : b \in {<<3>>, <<700>>}}
=============================================================================
