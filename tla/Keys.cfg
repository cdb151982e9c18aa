SPECIFICATION Spec
CONSTANTS
    Key <- MCKey
    Under <- MCUnder
    Encode <- MCEncode
    Decode <- MCDecode
    Value = {"v"}
    Absent = Absent
    Request <- MCRequest
    Transaction <- MCTransaction
    Watcher <- MCWatcher
    Scope <- MCScope
    NoAnswer = NoAnswer
    MaxLog = 2
PROPERTY Transparent
CHECK_DEADLOCK FALSE
