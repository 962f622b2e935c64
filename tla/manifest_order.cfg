SPECIFICATION Spec
CONSTANTS
    x1 = x1
    x2 = x2
    n1 = n1
    n2 = n2
    o1 = o1
    reader = reader
    book = book
    copy = copy
    extra = extra
    ProjectId = {x1, x2}
    NextAction = {n1, n2}
    RestrictedOutput = {o1}
    MaxGates = 1
    File = {reader, book, copy, extra}
    CaseKey <- MCCaseKey
    ProductId = {1, 2, 3, 4, 5, 6, 7, 8, 9, 10}
    FilePath = {1, 2, 3, 4, 5, 6, 7, 8, 9}
    MaxCount = 1
    Name = {"r/a", "r/z.ZIP", "r/z.zip", "s/a", "r/d/", "../x"}
    RootOf <- MCRootOf
    FoldOf <- MCFoldOf
    UnsafeName = {"../x"}
    DirectoryName = {"r/d/"}
    ZipName = {"r/z.zip", "r/z.ZIP"}
    LowerZipName = {"r/z.zip"}
    Archive = {1, 2, 3}
    NotZip = NotZip
    MaxSize = 3
    Limits <- MCLimits
    Revised = {1, 5, 6, 8, 9}
    PartName <- MCPartName
    Slash = 2
    Content <- MCContent
    Irregular = {link}
    Nothing = Nothing
    MaxDepth = 2
    MaxFiles = 2
    Original <- MCOriginal
    MaxEdits <- MCNoEdits
INVARIANT
    BuiltIsAccepted
