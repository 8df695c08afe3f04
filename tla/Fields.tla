---------------------------------- MODULE Fields ----------------------------------
(***************************************************************************)
(* The fields of a TreeWalker (root2avro/src/datawalker.cpp, LeafWalker to *)
(* TreeWalker): one for each leaf of a branch without a class, one for     *)
(* each branch of objects.  A field has a walker and knows where ROOT puts *)
(* the value of the current entry.                                         *)
(***************************************************************************)
EXTENDS Walkers

\* One level of an array in a leaf; the repr tells only of what is in it.
LeafDimension(w) == [kind |-> "dimension", schema |-> "SchemaSequence", avro |-> "array", of |-> w]

LeafWalker(b) ==
  LET w == IF b.type.t = "char*" THEN CStringWalker ELSE SimpleWalkers[b.type.t]
  IN  [name |-> b.name, extractor |-> "TLeaf", dims |-> b.dims,
       walker |-> FoldRight(LAMBDA d, inner : LeafDimension(inner), b.dims, w)]

RawTBranchWalker(b) ==
  [name |-> b.name, extractor |-> "TBranch", dims |-> <<>>, walker |-> SimpleWalkers[b.type.t]]

\* An object is a field also if nothing in it can be read.
ReaderValueWalker(b, w) ==
  [name |-> b.name, extractor |-> "TTreeReaderValue", dims |-> <<>>, walker |-> w]

\* The constructor's turn for one branch.
AddField(fields, b, ns, s) ==
  CASE b.kind = "leaf" -> [fields |-> Append(fields, LeafWalker(b)), s |-> s]
    [] b.kind = "raw"  -> [fields |-> Append(fields, RawTBranchWalker(b)), s |-> s]
    [] b.kind = "object" ->
         LET r == SpecializedWalker(b.type, ns, s)
         IN  [fields |-> IF r.s.error # "" THEN fields
                         ELSE Append(fields, ReaderValueWalker(b, r.out)),
              s |-> r.s]

Objects(fields) == SelectSeq(fields, LAMBDA f : f.extractor = "TTreeReaderValue")

\* Asks one field after the other and stops at the first that is not resolved.
FieldsResolved(fields, s) ==
  LET answers == [i \in DOMAIN Objects(fields) |-> Resolved(Objects(fields)[i].walker, s)]
      others  == SelectSeq(answers, LAMBDA a : a # "yes")
  IN  IF others = <<>> THEN "yes" ELSE others[1]

\* Resolves all fields, those that are resolved already too.
ResolveFields(fields, entry, s) ==
  Fold(LAMBDA acc, f : Resolve(f.walker, TRUE, entry[f.name], acc), s, Objects(fields))

Size(d, entry) == IF "counter" \in DOMAIN d THEN entry[d.counter] ELSE d.n

\* The loops of the Deep methods over a flat array.
RECURSIVE Nested(_, _)
Nested(sizes, flat) ==
  IF Len(sizes) = 1 THEN flat
  ELSE [i \in 1 .. sizes[1] |->
          LET row == Len(flat) \div sizes[1]
          IN  Nested(Tail(sizes), SubSeq(flat, (i - 1) * row + 1, i * row))]

ValueOf(f, entry) ==
  IF f.dims = <<>> THEN entry[f.name]
  ELSE Nested([i \in DOMAIN f.dims |-> Size(f.dims[i], entry)], entry[f.name])

\* LeafWalker::copyToBuffer has no return statement for an array: kept says
\* whether the build happens to return the pointer all the same.
CopyField(f, entry, kept, s) ==
  IF f.dims = <<>> THEN Copy(f.walker, ValueOf(f, entry), "address", s)
  ELSE LET s1 == Copy(f.walker, ValueOf(f, entry), "element", s)
       IN  IF kept THEN s1 ELSE Fail(s1, "segmentation fault")

PrintField(mode, f, entry, s) == PrintValue(mode, f.walker, ValueOf(f, entry), s)

(***************************************************************************)
(* The three descriptions of the tree: the calls of buildSchema, the repr  *)
(* and the Avro schema.                                                    *)
(***************************************************************************)
TreeSchema(fields, treeName, s) == BuildFields(treeName, fields, s, Told)

\* RawTBranchWalker::repr does not quote the type: the text is not JSON.
TreeRepr(fields, s) ==
  IF \E i \in DOMAIN fields : fields[i].extractor = "TBranch" THEN [invalid |-> "JSON"]
  ELSE [fields |-> ReprOf(fields, s, {}).out]

TreeAvroSchema(fields, treeName, s) == AvroRecord(<<treeName>>, fields, s, Told)
=============================================================================
