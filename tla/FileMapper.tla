----------------------------- MODULE FileMapper -----------------------------
(***************************************************************************)
(* FileMapper.MapTask (worker/file_mapper.go): from the volumes, inputs    *)
(* and outputs a task declares, the directories to mount into the          *)
(* containers of its executors.                                            *)
(*                                                                         *)
(* A path is the sequence of its names, clean and absolute; the root is    *)
(* empty.  The host path of a volume is its container path below WorkDir,  *)
(* and every volume is read-write, so the container path is all there is.  *)
(***************************************************************************)
EXTENDS Integers, Sequences, FiniteSetsExt

CONSTANTS
  Name,      \* names of files and directories
  Extends,   \* <<n, m>>: the string of m is a proper prefix of that of n
  MaxDepth,  \* bound: names in a path
  MaxPaths   \* bound: paths a task declares

ASSUME MapperAssumption == MaxDepth \in Nat

Path == UNION {[1..d -> Name] : d \in 1..MaxDepth}
Kind == {"volume", "input", "file", "directory"}   \* the last two are outputs

VARIABLES
  mapping,      \* what MapTask adds by now, or "done"
  volumes,      \* mapper.Volumes
  inputVolumes, \* mapper.InputVolumes
  declared      \* the paths of the task so far

mapVars == <<mapping, volumes, inputVolumes, declared>>

MapInit ==
  /\ mapping = "volume"
  /\ volumes = <<>> /\ inputVolumes = <<>>
  /\ declared = {}

(* A task that declares nothing.                                           *)
MapOver ==
  /\ mapping = "done"
  /\ volumes = <<>> /\ inputVolumes = <<>>
  /\ declared = {}

Dir(p) == SubSeq(p, 1, Len(p) - 1)

(* The path p is base or below it.  Not taken from SequencesExt, with all  *)
(* of whose definitions the proofs take three times as long.               *)
IsPrefix(base, p) == Len(base) <= Len(p) /\ SubSeq(p, 1, Len(base)) = base

(* IsSubpath is strings.HasPrefix.                                         *)
IsSubpath(p, base) ==
  LET n == Len(base)
  IN  /\ n <= Len(p)
      /\ \A k \in 1..(n - 1) : p[k] = base[k]
      /\ n > 0 => p[n] = base[n] \/ <<p[n], base[n]>> \in Extends

(* Mutant: a wider volume leaves the first one as it was.                  *)
AddVolumeKeeps(vols, v) ==
  IF \E k \in 1..Len(vols) : IsSubpath(v, vols[k]) \/ IsSubpath(vols[k], v)
  THEN vols
  ELSE Append(vols, v)

(* AddVolume and mergeVolume: the first volume that is below or above the  *)
(* new one decides, by being wide enough or by being replaced.             *)
AddVolume(vols, v) ==
  LET related == {k \in 1..Len(vols) : IsSubpath(v, vols[k]) \/ IsSubpath(vols[k], v)}
      first == CHOOSE k \in related : \A j \in related : k <= j
  IN  CASE related = {} -> Append(vols, v)
        [] related # {} /\ IsSubpath(v, vols[first]) -> vols
        [] OTHER -> [vols EXCEPT ![first] = v]

(* MapTask takes the volumes, then the inputs, then the outputs, and then  *)
(* consolidates.                                                           *)
Declare(kind, p) ==
  /\ Cardinality(declared) < MaxPaths
  /\ declared' = declared \cup {[kind |-> kind, path |-> p]}

AddTmpVolume(p) ==
  /\ mapping = "volume"
  /\ Declare("volume", p)
  /\ volumes' = AddVolume(volumes, p)
  /\ UNCHANGED <<mapping, inputVolumes>>

AddInput(p) ==
  /\ mapping \in {"volume", "input"}
  /\ mapping' = "input"
  /\ Declare("input", p)
  /\ volumes' = AddVolume(volumes, p)
  /\ inputVolumes' = IF volumes' = volumes THEN inputVolumes ELSE Append(inputVolumes, p)

(* The output of type FILE needs its directory, a DIRECTORY itself.        *)
AddOutput(kind, p) ==
  /\ mapping # "done"
  /\ mapping' = "output"
  /\ Declare(kind, p)
  /\ volumes' = AddVolume(volumes, IF kind = "file" THEN Dir(p) ELSE p)
  /\ UNCHANGED inputVolumes

(* volumeCommonDirAncestor.                                                *)
CommonAncestor(paths) ==
  LET dirs == {Dir(p) : p \in Range(paths)}
      common == {n \in 0..MaxDepth :
                   \A d, e \in dirs : n <= Len(d) /\ SubSeq(d, 1, n) = SubSeq(e, 1, n)}
  IN  SubSeq(Dir(paths[1]), 1, Max(common))

(* consolidateVolumes: the volumes of the inputs give way to one for their *)
(* common ancestor or, when that is the root, for the directory of each.   *)
Consolidated ==
  LET others == MapThenFoldSet(LAMBDA v, vols : IF v \in Range(inputVolumes) THEN vols ELSE Append(vols, v),
                               <<>>, LAMBDA k : volumes[k], Max, DOMAIN volumes)
      ancestor == CommonAncestor(inputVolumes)
  IN  CASE inputVolumes = <<>> -> volumes
        [] inputVolumes # <<>> /\ ancestor # <<>> -> AddVolume(others, ancestor)
        [] OTHER -> MapThenFoldSet(LAMBDA p, vols : AddVolume(vols, Dir(p)),
                                   others, LAMBDA k : inputVolumes[k], Max, DOMAIN inputVolumes)

consolidateVolumes ==
  /\ mapping # "done"
  /\ mapping' = "done"
  /\ volumes' = Consolidated
  /\ UNCHANGED <<inputVolumes, declared>>

MapNext ==
  \/ \E p \in Path : AddTmpVolume(p) \/ AddInput(p) \/ AddOutput("file", p) \/ AddOutput("directory", p)
  \/ consolidateVolumes

MapSpec == MapInit /\ [][MapNext]_mapVars
-----------------------------------------------------------------------------
Mounted(p) == \E v \in Range(volumes) : IsPrefix(v, p)

(* Two declared paths part at names of which one begins with the other.    *)
LookAlike ==
  \E d, e \in declared : \E k \in 1..MaxDepth :
    /\ k <= Len(d.path) /\ k <= Len(e.path)
    /\ SubSeq(d.path, 1, k - 1) = SubSeq(e.path, 1, k - 1)
    /\ <<d.path[k], e.path[k]>> \in Extends

(* AddVolume: a volume is only left out when its path is reachable anyway, *)
(* so that every path the task declares is below a mounted directory.      *)
PathsMounted == mapping = "done" => \A d \in declared : Mounted(d.path)

(* Every path the task declares is below a mounted directory, in whichever *)
(* order and however nested the paths come and whatever consolidation does *)
(* to them, when no two names begin alike (MapTask).                       *)
MountsCover == mapping = "done" /\ ~LookAlike => \A d \in declared : Mounted(d.path)
=============================================================================
