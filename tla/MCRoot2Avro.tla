----------------------------- MODULE MCRoot2Avro -----------------------------
(***************************************************************************)
(* Small data sets and command lines for the runs of Root2Avro.            *)
(***************************************************************************)
EXTENDS Root2Avro, Layouts

CONSTANTS
  Modes, Starts, Ends,   \* the command lines; start and end may also be left out
  Resolves,              \* values of resolveAfter
  MaxDumpFiles,          \* bound: the files of a dump
  MayBreak,              \* the files that may be broken
  MayRefuse, MayThrow    \* the records Avro may refuse, those with a bad array

\* What may be wrong with the files, the command line or the records: one thing at a time.
Sound    == [broken |-> {}, resolveAfter |-> 0, badCodec |-> FALSE, noSchema |-> FALSE,
             refused |-> {}, throwing |-> {}]
Breaks   == { [Sound EXCEPT !.broken = {f}] : f \in MayBreak }
Untyped  == { [Sound EXCEPT !.resolveAfter = n] : n \in Resolves }
Codecs   == { [Sound EXCEPT !.badCodec = TRUE] }
Schemas  == { [Sound EXCEPT !.noSchema = TRUE] }
Refusals == { [Sound EXCEPT !.refused = {n}] : n \in MayRefuse }
Throws   == { [Sound EXCEPT !.throwing = {n}] : n \in MayThrow }

Command(l, m, s, e, t) ==
  [files |-> l.files, base |-> l.base, off |-> l.off, mode |-> m, start |-> s, end |-> e,
   broken |-> t.broken, resolveAfter |-> t.resolveAfter, badCodec |-> t.badCodec,
   noSchema |-> t.noSchema, refused |-> t.refused, throwing |-> t.throwing]

UniformLayouts == { l \in Layouts : \A g \in DOMAIN l.off : l.off[g] = g }
DumpLayouts    == { l \in Layouts : l.files <= MaxDumpFiles }

MCCommands(layouts, modes, troubles) ==
  { Command(l, m, s, e, t) :
      l \in layouts, m \in modes, s \in Starts \cup {NA}, e \in Ends \cup {NA},
      t \in {Sound} \cup Breaks \cup Untyped \cup troubles }

\* Only a dump looks at the sizes of records, only the Avro modes at the codec and at values,
\* only they and schema at the types of arrays inside arrays.
MCJobs ==
  { j \in MCCommands(UniformLayouts, Modes \cap AvroModes, Codecs \cup Schemas \cup Refusals \cup Throws)
            \cup MCCommands(UniformLayouts, Modes \cap {"json"}, Throws)
            \cup MCCommands(UniformLayouts, Modes \cap {"schema"}, Schemas)
            \cup MCCommands(UniformLayouts, Modes \ (EntryModes \cup {"schema"}), {})
            \cup MCCommands(DumpLayouts, Modes \cap {"dump"}, Throws) : ParametersOK(j) }
=============================================================================
