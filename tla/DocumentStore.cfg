SPECIFICATION FairSpec
CONSTANTS
    Uri = {u1}
    Editor = {e1}
    Reader = {r1, r2}
    Interactive = {r2}
    Text = {t1, t2}
    FileText = {t1}
    TypedText = {t2}
    Version = {1}
    MaxRevision = 4
    Null = Null
INVARIANTS TypeOK Paired
PROPERTIES NoneOnlyWhenOvertaken ReadsAreFresh ImplementsBuffers CallsReturn
