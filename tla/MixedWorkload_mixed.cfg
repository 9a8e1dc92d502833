\* Two readers, a writer and the compaction thread, in every mode.
CONSTANTS
  r1 = r1
  r2 = r2
  w1 = w1
  Readers <- TwoReaders
  Writers <- OneWriter
  Main = Main
  Ops = 3
  Batch = 2
  Interval = 2
  Settings <- SomeSettings
  MaxTimed = 1
  MaxCompactions = 1
  MaxTime = 2
SPECIFICATION Spec
INVARIANT TypeOK
INVARIANT ReportIsTrue
INVARIANT SamplesSpaced
PROPERTY RunEnds
